-------------------------- MODULE ConnectionProofs --------------------------
(***************************************************************************)
(* Theorems about Connection, for every set of requests, any number of     *)
(* retries and of sockets: a generation ends once and for all its users,   *)
(* and request() keeps the contract of RequestContract.                    *)
(***************************************************************************)
EXTENDS Connection, TLAPS

-----------------------------------------------------------------------------
(* The inductive invariant *)

\* A call that has not begun, or waits for a turn, has no frame at the venue that
\* was not refused, and one more frame of it is allowed.
TurnsLeft ==
    \A r \in Requests :
        /\ stage[r] = "idle" => attempt[r] = 0
        /\ stage[r] \in {"idle", "queued", "failed", "granted"} =>
              refused[r] = attempt[r] /\ attempt[r] <= RetriesOf(r)

\* A call that has not returned has no ending.
EndsWhenDone == \A r \in Requests : stage[r] # "done" => ending[r] = "none"

\* At most one frame of a call stands, whatever its stage.
OneStands == \A r \in Requests : refused[r] <= attempt[r] /\ attempt[r] <= refused[r] + 1

\* A frame on the wire is the call's latest, is not refused yet, and neither its
\* future nor the event handler has an answer to it.
WireIsLatest ==
    \A f \in wire :
        /\ f[2] = attempt[f[1]]
        /\ attempt[f[1]] = refused[f[1]] + 1
        /\ future[f[1]] \notin {"reply", "refusal"}
        /\ f \notin adopted

\* A frame not written yet was sent on no generation and has no answer.
UnwrittenUnsent == \A f \in Frames : f[2] > attempt[f[1]] => sentOn[f] = 0 /\ f \notin adopted

\* What a settled future says of its frame.
FutureTrue ==
    \A r \in Requests :
        /\ future[r] = "reply" => attempt[r] = refused[r] + 1
        /\ future[r] = "refusal" => attempt[r] = refused[r]
        /\ ending[r] \in {"reply", "refused"} => future[r] \in {"reply", "refusal"}

\* What the event handler adopted settled no future.
AdoptedSettledNone ==
    \A f \in adopted : f[2] = attempt[f[1]] => future[f[1]] \notin {"reply", "refusal"}

\* An exchange whose future still waits is in _pending, where _fail() and close()
\* find it.
WaitingIsPending ==
    \A r \in Requests :
        stage[r] \in {"draining", "awaiting"} /\ future[r] = "waiting" => r \in pending

\* A connection that is up has its own, unended generation; a later one has not
\* ended either.
UpIsUnended ==
    /\ up => generation # 0
    /\ reader \/ heartbeat \/ socket => generation # 0
    /\ \A g \in Generations : g > generation \/ (up /\ g = generation) => lostBy[g] = "none"

CallInv ==
    /\ TurnsLeft
    /\ EndsWhenDone
    /\ OneStands
    /\ WireIsLatest
    /\ UnwrittenUnsent
    /\ FutureTrue
    /\ AdoptedSettledNone

ConnectionInv == TypeOK /\ CallInv /\ WaitingIsPending /\ UpIsUnended /\ GenerationsApart

-----------------------------------------------------------------------------
(* The steps *)

LEMMA RetriesOfType ==
    ASSUME NEW r \in Requests
    PROVE  RetriesOf(r) \in Nat /\ RetriesOf(r) <= Retries
  BY ConnectionAssumption DEF RetriesOf

LEMMA ConnectionInit == Init => ConnectionInv
  <1> SUFFICES ASSUME Init PROVE ConnectionInv
    OBVIOUS
  <1>1. TypeOK
    <2>1. 0 \in 0..MaxGeneration /\ 0 \in 0..(Retries + 1)
      BY ConnectionAssumption
    <2>2. /\ up \in BOOLEAN /\ socket \in BOOLEAN /\ reader \in BOOLEAN /\ heartbeat \in BOOLEAN
          /\ stage \in [Requests -> Stages] /\ future \in [Requests -> FutureStates]
          /\ ending \in [Requests -> Endings]
          /\ lostBy \in [Generations -> {"none", "loss", "close"}]
          /\ pending \subseteq Requests /\ wire \subseteq Frames /\ adopted \subseteq Frames
      BY DEF Init, Stages, FutureStates, Endings
    <2>3. /\ generation \in 0..MaxGeneration /\ told \in [Generations -> Nat]
          /\ madeOn \in [Requests -> 0..MaxGeneration]
          /\ attempt \in [Requests -> 0..(Retries + 1)]
          /\ refused \in [Requests -> 0..(Retries + 1)]
          /\ sentOn \in [Frames -> 0..MaxGeneration]
      BY <2>1 DEF Init
    <2> QED  BY <2>2, <2>3 DEF TypeOK
  <1>2. CallInv
    BY RetriesOfType DEF Init, CallInv, TurnsLeft, EndsWhenDone, OneStands, WireIsLatest,
                         UnwrittenUnsent, FutureTrue, AdoptedSettledNone
  <1>3. WaitingIsPending /\ UpIsUnended
    BY DEF Init, WaitingIsPending, UpIsUnended
  <1>4. GenerationsApart
    BY DEF Init, GenerationsApart, GenerationFence, NobodyWaitsOnDeadLink,
           DisconnectToldOnce, DeliveredOnce
  <1> QED  BY <1>1, <1>2, <1>3, <1>4 DEF ConnectionInv

\* _fail() keeps the types of what it changes.
LEMMA FailType ==
    ASSUME TypeOK, Fail
    PROVE  /\ up' \in BOOLEAN
           /\ stage' \in [Requests -> Stages]
           /\ future' \in [Requests -> FutureStates]
           /\ pending' \subseteq Requests
           /\ told' \in [Generations -> Nat]
           /\ lostBy' \in [Generations -> {"none", "loss", "close"}]
  <1>1. /\ up' \in BOOLEAN
        /\ stage' \in [Requests -> Stages]
        /\ future' \in [Requests -> FutureStates]
        /\ pending' \subseteq Requests
    BY DEF TypeOK, Fail, RejectAll, Stages, FutureStates
  <1>2. told' \in [Generations -> Nat]
    <2>1. told \in [Generations -> Nat] /\ \A g \in Generations : told[g] + 1 \in Nat
      BY DEF TypeOK
    <2> QED  BY <2>1 DEF Fail
  <1>3. lostBy' \in [Generations -> {"none", "loss", "close"}]
    BY DEF TypeOK, Fail
  <1> QED  BY <1>1, <1>2, <1>3

\* Every step keeps the types.
LEMMA TypeStep == ConnectionInv /\ [Next]_vars => TypeOK'
  <1> SUFFICES ASSUME ConnectionInv, [Next]_vars PROVE TypeOK'
    OBVIOUS
  <1> USE DEF ConnectionInv, TypeOK, Stages, FutureStates, Endings
  <1>1. CASE Connect
    BY <1>1, ConnectionAssumption DEF Connect, callVars, history
  <1>2. CASE ReadFails
    <2>1. Fail
      BY <1>2 DEF ReadFails
    <2> QED  BY <1>2, <2>1, FailType DEF ReadFails
  <1>3. CASE HeartbeatEnds
    <2>1. CASE Fail
      BY <1>3, <2>1, FailType DEF HeartbeatEnds
    <2>2. CASE UNCHANGED <<up, pending, future, stage, told, lostBy>>
      BY <1>3, <2>2 DEF HeartbeatEnds
    <2> QED  BY <1>3, <2>1, <2>2 DEF HeartbeatEnds
  <1>4. CASE Close
    BY <1>4, ConnectionAssumption DEF Close, RejectAll
  <1>5. ASSUME NEW r \in Requests,
               \/ Request(r) \/ Grant(r) \/ LeaveQueue(r) \/ Drained(r) \/ DrainFails(r)
               \/ TimerFires(r) \/ ResumeExpired(r) \/ ResumeAnswered(r)
               \/ ResumeRefused(r) \/ Cancel(r)
        PROVE  TypeOK'
    BY <1>5 DEF Request, Grant, LeaveQueue, Drained, DrainFails, TimerFires, ResumeExpired,
                ResumeAnswered, ResumeRefused, Cancel, Finish, linkVars, history
  <1>6. ASSUME NEW r \in Requests, Exchange(r) PROVE TypeOK'
    <2>1. CASE Finish(r, "notSent") /\ UNCHANGED <<attempt, sentOn, wire, pending, future>>
      BY <1>6, <2>1 DEF Exchange, Finish, linkVars
    <2>2. CASE MayWrite(r) /\ Write(r)
      <3>1. attempt[r] \in Nat /\ attempt[r] + 1 \in 1..(Retries + 1)
        BY <1>6, RetriesOfType, ConnectionAssumption DEF Exchange, CallInv, TurnsLeft
      <3>2. <<r, attempt[r] + 1>> \in Frames
        BY <3>1 DEF Frames
      <3> QED  BY <1>6, <2>2, <3>1, <3>2 DEF Exchange, Write, linkVars
    <2> QED  BY <1>6, <2>1, <2>2 DEF Exchange
  <1>7. ASSUME NEW f \in Frames, NEW answer \in {"reply", "refusal"}, ReadReply(f, answer)
        PROVE  TypeOK'
    <2>1. f[1] \in Requests /\ f[2] \in 1..(Retries + 1)
      BY DEF Frames
    <2>2. refused[f[1]] + 1 = attempt[f[1]]
      BY <1>7, <2>1, ConnectionAssumption DEF ReadReply, CallInv, WireIsLatest
    <2> QED  BY <1>7, <2>1, <2>2, ConnectionAssumption
             DEF ReadReply, DispatchReply, Settle, linkVars
  <1>8. CASE UNCHANGED vars
    BY <1>8 DEF vars, linkVars, callVars, history
  <1> QED  BY <1>1, <1>2, <1>3, <1>4, <1>5, <1>6, <1>7, <1>8 DEF Next

\* The steps that end a connection leave every call's frames as they are.
LEMMA CallStepLink ==
    ASSUME ConnectionInv, Connect \/ ReadFails \/ HeartbeatEnds \/ Close
    PROVE  CallInv'
  <1> USE DEF ConnectionInv, TypeOK, CallInv
  <1>1. /\ UNCHANGED <<attempt, refused, sentOn, adopted, ending>>
        /\ wire' \subseteq wire
        /\ \A r \in Requests : /\ stage'[r] \in {stage[r], "failed"}
                               /\ stage'[r] # stage[r] => stage[r] = "queued"
                               /\ future'[r] \in {future[r], "error"}
                               /\ future'[r] # future[r] => future[r] = "waiting"
    BY DEF Connect, ReadFails, HeartbeatEnds, Close, Fail, RejectAll, callVars, history
  <1>2. \A f \in Frames : f[1] \in Requests
    BY DEF Frames
  <1>3. \A r \in Requests : RetriesOf(r)' = RetriesOf(r)
    BY DEF RetriesOf
  <1>4. TurnsLeft' /\ EndsWhenDone' /\ OneStands'
    BY <1>1, <1>3 DEF TurnsLeft, EndsWhenDone, OneStands
  <1>5. WireIsLatest' /\ AdoptedSettledNone'
    BY <1>1, <1>2 DEF WireIsLatest, AdoptedSettledNone
  <1>6. UnwrittenUnsent' /\ FutureTrue'
    BY <1>1, <1>2 DEF UnwrittenUnsent, FutureTrue
  <1> QED  BY <1>4, <1>5, <1>6

\* The steps of one call that write no frame.
LEMMA CallStepQuiet ==
    ASSUME ConnectionInv, NEW r \in Requests,
           \/ Request(r) \/ Grant(r) \/ LeaveQueue(r) \/ Drained(r) \/ DrainFails(r)
           \/ TimerFires(r) \/ ResumeExpired(r) \/ ResumeAnswered(r)
           \/ ResumeRefused(r) \/ Cancel(r)
           \/ Exchange(r) /\ Finish(r, "notSent") /\ UNCHANGED <<attempt, sentOn, wire, future>>
    PROVE  CallInv'
  <1> USE DEF ConnectionInv, TypeOK, CallInv
  <1>1. UNCHANGED <<attempt, refused, sentOn, adopted, wire>>
    BY DEF Request, Grant, LeaveQueue, Drained, DrainFails, TimerFires, ResumeExpired,
           ResumeAnswered, ResumeRefused, Cancel, Exchange, history
  <1>2. \A q \in Requests : /\ future'[q] \in {future[q], "cancelled"}
                            /\ future'[q] # future[q] => future[q] = "waiting"
    BY DEF Request, Grant, LeaveQueue, Drained, DrainFails, TimerFires, ResumeExpired,
           ResumeAnswered, ResumeRefused, Cancel, Exchange
  <1>3. \A q \in Requests : /\ stage'[q] \in {"queued", "granted"} =>
                                  \/ stage[q] \in {"queued", "granted", "idle"}
                                  \/ future[q] = "refusal" /\ attempt[q] <= RetriesOf(q)
                            /\ stage'[q] = "failed" => stage[q] = "failed"
                            /\ stage'[q] = "idle" => stage[q] = "idle"
    BY DEF Request, Grant, LeaveQueue, Drained, DrainFails, TimerFires, ResumeExpired,
           ResumeAnswered, ResumeRefused, Cancel, Exchange, Finish
  <1>4. \A q \in Requests :
           \/ ending'[q] = ending[q] /\ (stage[q] = "done" => stage'[q] = "done")
           \/ stage'[q] = "done" /\ ending'[q] \in {"notSent", "unknown", "cancelled"}
           \/ stage'[q] = "done" /\ ending'[q] \in {"reply", "refused"}
              /\ future[q] \in {"reply", "refusal"}
    BY DEF Request, Grant, LeaveQueue, Drained, DrainFails, TimerFires, ResumeExpired,
           ResumeAnswered, ResumeRefused, Cancel, Exchange, Finish
  <1>5. \A f \in Frames : f[1] \in Requests
    BY DEF Frames
  <1>6. \A q \in Requests : RetriesOf(q)' = RetriesOf(q)
    BY DEF RetriesOf
  <1>7. TurnsLeft'
    BY <1>1, <1>3, <1>6 DEF TurnsLeft, FutureTrue
  <1>8. EndsWhenDone' /\ OneStands'
    BY <1>1, <1>4 DEF EndsWhenDone, OneStands
  <1>9. WireIsLatest' /\ AdoptedSettledNone'
    BY <1>1, <1>2, <1>5 DEF WireIsLatest, AdoptedSettledNone
  <1>10. UnwrittenUnsent' /\ FutureTrue'
    BY <1>1, <1>2, <1>4, <1>5 DEF UnwrittenUnsent, FutureTrue
  <1> QED  BY <1>7, <1>8, <1>9, <1>10

\* A frame is written: it is the first that stands, and no other of the call is
\* on the wire.
LEMMA CallStepWrite ==
    ASSUME ConnectionInv, NEW r \in Requests, Exchange(r), Write(r)
    PROVE  CallInv'
  <1> USE DEF ConnectionInv, TypeOK, CallInv
  <1> DEFINE n == attempt[r] + 1
  <1>1. /\ stage[r] = "granted" /\ ending[r] = "none"
        /\ attempt[r] = refused[r] /\ attempt[r] \in Nat
        /\ UNCHANGED <<refused, adopted, ending>>
        /\ attempt' = [attempt EXCEPT ![r] = n]
        /\ future' = [future EXCEPT ![r] = "waiting"]
        /\ stage' = [stage EXCEPT ![r] = "draining"]
        /\ wire' = wire \cup {<<r, n>>}
        /\ sentOn' = [sentOn EXCEPT ![<<r, n>>] = generation]
    BY ConnectionAssumption DEF Exchange, Write, TurnsLeft, EndsWhenDone
  <1>2. <<r, n>> \in Frames /\ <<r, n>>[1] = r /\ <<r, n>>[2] = n
    BY <1>1, RetriesOfType, ConnectionAssumption DEF TurnsLeft, Frames
  <1>3. \A f \in Frames : /\ f[1] \in Requests /\ f[2] \in Nat
                          /\ f[1] = r /\ f[2] = n => f = <<r, n>>
    BY ConnectionAssumption DEF Frames
  <1>4. \A f \in wire : f[1] # r
    BY <1>1 DEF WireIsLatest
  <1>5. <<r, n>> \notin adopted
    BY <1>1, <1>2 DEF UnwrittenUnsent
  <1>6. \A q \in Requests : RetriesOf(q)' = RetriesOf(q)
    BY DEF RetriesOf
  <1> HIDE DEF n
  <1>7. TurnsLeft' /\ EndsWhenDone'
    BY <1>1, <1>6 DEF TurnsLeft, EndsWhenDone
  <1>8. OneStands' /\ FutureTrue'
    BY <1>1 DEF OneStands, FutureTrue, n
  <1>9. WireIsLatest'
    BY <1>1, <1>2, <1>3, <1>4, <1>5 DEF WireIsLatest, n
  <1>10. UnwrittenUnsent'
    BY <1>1, <1>2, <1>3 DEF UnwrittenUnsent, n
  <1>11. AdoptedSettledNone'
    BY <1>1, <1>3 DEF AdoptedSettledNone
  <1> QED  BY <1>7, <1>8, <1>9, <1>10, <1>11

\* A reply is read: it answers the frame that stands.
LEMMA CallStepReply ==
    ASSUME ConnectionInv, NEW f \in Frames, NEW answer \in {"reply", "refusal"},
           ReadReply(f, answer)
    PROVE  CallInv'
  <1> USE DEF ConnectionInv, TypeOK, CallInv
  <1> DEFINE r == f[1]
  <1>1. /\ r \in Requests /\ f[2] = attempt[r] /\ f \in wire
        /\ attempt[r] = refused[r] + 1 /\ refused[r] \in Nat /\ attempt[r] \in Nat
        /\ future[r] \notin {"reply", "refusal"} /\ f \notin adopted
        /\ wire' = wire \ {f}
        /\ UNCHANGED <<stage, attempt, ending, sentOn>>
    BY ConnectionAssumption DEF ReadReply, WireIsLatest, Frames
  <1>2. \A g \in Frames : g[1] \in Requests /\ (g[1] = r /\ g[2] = f[2] => g = f)
    BY DEF Frames
  <1>3. ending[r] \notin {"reply", "refused"}
    BY <1>1 DEF FutureTrue
  <1>4. stage[r] \notin {"idle", "queued", "failed", "granted"}
    BY <1>1 DEF TurnsLeft
  <1>5. \/ UNCHANGED <<future, adopted, refused>>
        \/ /\ refused' = [refused EXCEPT ![r] = IF answer = "refusal" THEN @ + 1 ELSE @]
           /\ \/ future' = [future EXCEPT ![r] = answer] /\ UNCHANGED adopted
              \/ adopted' = adopted \cup {f} /\ UNCHANGED future
    BY DEF ReadReply, DispatchReply, Settle
  <1>6. \A q \in Requests : RetriesOf(q)' = RetriesOf(q)
    BY DEF RetriesOf
  <1>7. \A g \in wire' : g[1] # r
    BY <1>1, <1>2 DEF WireIsLatest
  <1> HIDE DEF r
  <1>8. TurnsLeft' /\ EndsWhenDone'
    BY <1>1, <1>4, <1>5, <1>6 DEF TurnsLeft, EndsWhenDone
  <1>9. OneStands'
    BY <1>1, <1>5 DEF OneStands
  <1>10. FutureTrue'
    BY <1>1, <1>3, <1>5 DEF FutureTrue
  <1>11. WireIsLatest'
    BY <1>1, <1>2, <1>5, <1>7 DEF WireIsLatest
  <1>12. UnwrittenUnsent' /\ AdoptedSettledNone'
    BY <1>1, <1>2, <1>5 DEF UnwrittenUnsent, AdoptedSettledNone, r
  <1> QED  BY <1>8, <1>9, <1>10, <1>11, <1>12

\* Every step keeps what is known of the calls' frames.
LEMMA CallStep == ConnectionInv /\ [Next]_vars => CallInv'
  <1> SUFFICES ASSUME ConnectionInv, [Next]_vars PROVE CallInv'
    OBVIOUS
  <1>1. CASE Connect \/ ReadFails \/ HeartbeatEnds \/ Close
    BY <1>1, CallStepLink
  <1>2. ASSUME NEW r \in Requests,
               \/ Request(r) \/ Grant(r) \/ LeaveQueue(r) \/ Drained(r) \/ DrainFails(r)
               \/ TimerFires(r) \/ ResumeExpired(r) \/ ResumeAnswered(r)
               \/ ResumeRefused(r) \/ Cancel(r)
        PROVE  CallInv'
    BY <1>2, CallStepQuiet
  <1>3. ASSUME NEW r \in Requests, Exchange(r) PROVE CallInv'
    <2>1. CASE Write(r)
      BY <1>3, <2>1, CallStepWrite
    <2>2. CASE ~Write(r)
      BY <1>3, <2>2, CallStepQuiet DEF Exchange
    <2> QED  BY <2>1, <2>2
  <1>4. ASSUME NEW f \in Frames, NEW answer \in {"reply", "refusal"}, ReadReply(f, answer)
        PROVE  CallInv'
    BY <1>4, CallStepReply
  <1>5. CASE UNCHANGED vars
    BY <1>5 DEF vars, callVars, history, ConnectionInv, CallInv, TurnsLeft, EndsWhenDone,
                OneStands, WireIsLatest, UnwrittenUnsent, FutureTrue, AdoptedSettledNone, RetriesOf
  <1> QED  BY <1>1, <1>2, <1>3, <1>4, <1>5 DEF Next

\* Every step keeps a waiting exchange where the end of its connection finds it,
\* and nobody waits on a link that is down.
LEMMA WaitingStep ==
    ConnectionInv /\ [Next]_vars => WaitingIsPending' /\ NobodyWaitsOnDeadLink'
  <1> SUFFICES ASSUME ConnectionInv, [Next]_vars
               PROVE  WaitingIsPending' /\ NobodyWaitsOnDeadLink'
    OBVIOUS
  <1> USE DEF ConnectionInv, TypeOK, GenerationsApart, WaitingIsPending, NobodyWaitsOnDeadLink
  <1>1. CASE Connect
    BY <1>1 DEF Connect, callVars
  <1>2. CASE ReadFails \/ HeartbeatEnds \/ Close
    <2>1. CASE RejectAll
      BY <2>1 DEF RejectAll
    <2>2. CASE ~up /\ UNCHANGED <<up, pending, future, stage>>
      BY <2>2
    <2> QED  BY <1>2, <2>1, <2>2 DEF ReadFails, HeartbeatEnds, Close, Fail
  <1>3. ASSUME NEW r \in Requests,
               \/ Request(r) \/ Grant(r) \/ LeaveQueue(r) \/ Drained(r) \/ DrainFails(r)
               \/ TimerFires(r) \/ ResumeExpired(r) \/ ResumeAnswered(r)
               \/ ResumeRefused(r) \/ Cancel(r)
        PROVE  WaitingIsPending' /\ NobodyWaitsOnDeadLink'
    <2>1. /\ up' = up
          /\ \A q \in Requests :
                /\ q # r => stage'[q] = stage[q] /\ future'[q] = future[q]
                /\ stage'[q] \in {"draining", "awaiting"} =>
                      stage[q] \in {"draining", "awaiting"} /\ future'[q] = future[q]
      BY <1>3 DEF Request, Grant, LeaveQueue, Drained, DrainFails, TimerFires, ResumeExpired,
                  ResumeAnswered, ResumeRefused, Cancel, Finish, linkVars
    <2>2. \/ pending' = pending
          \/ pending' = pending \ {r} /\ stage'[r] \notin {"draining", "awaiting"}
      BY <1>3 DEF Request, Grant, LeaveQueue, Drained, DrainFails, TimerFires, ResumeExpired,
                  ResumeAnswered, ResumeRefused, Cancel, Finish
    <2> QED  BY <2>1, <2>2
  <1>4. ASSUME NEW r \in Requests, Exchange(r)
        PROVE  WaitingIsPending' /\ NobodyWaitsOnDeadLink'
    BY <1>4 DEF Exchange, Finish, MayWrite, Write, linkVars
  <1>5. ASSUME NEW f \in Frames, NEW answer \in {"reply", "refusal"}, ReadReply(f, answer)
        PROVE  WaitingIsPending' /\ NobodyWaitsOnDeadLink'
    <2>1. f[1] \in Requests
      BY DEF Frames
    <2>2. CASE UNCHANGED <<future, pending>>
      BY <1>5, <2>2 DEF ReadReply, linkVars
    <2>3. CASE up /\ DispatchReply(f, answer)
      BY <1>5, <2>1, <2>3 DEF ReadReply, DispatchReply, Settle, Awaited, linkVars
    <2> QED  BY <1>5, <2>2, <2>3 DEF ReadReply
  <1>6. CASE UNCHANGED vars
    BY <1>6 DEF vars, linkVars, callVars
  <1> QED  BY <1>1, <1>2, <1>3, <1>4, <1>5, <1>6 DEF Next

\* A loss is told with the first to notice it, and with nobody else.
LEMMA ToldStep ==
    ConnectionInv /\ [Next]_vars => UpIsUnended' /\ DisconnectToldOnce'
  <1> SUFFICES ASSUME ConnectionInv, [Next]_vars
               PROVE  UpIsUnended' /\ DisconnectToldOnce'
    OBVIOUS
  <1> USE DEF ConnectionInv, TypeOK, GenerationsApart, UpIsUnended, DisconnectToldOnce
  <1>1. CASE Connect
    BY <1>1, ConnectionAssumption DEF Connect, Generations, history
  <1>2. CASE (ReadFails \/ HeartbeatEnds) /\ Fail
    <2>1. /\ generation \in Generations /\ generation' = generation
          /\ up' = FALSE /\ (reader' => reader) /\ (heartbeat' => heartbeat) /\ socket' = socket
      BY <1>2, ConnectionAssumption DEF ReadFails, HeartbeatEnds, Fail, Generations
    <2>2. CASE ~up
      <3>1. told' = told /\ lostBy' = lostBy
        BY <1>2, <2>1, <2>2 DEF Fail
      <3> QED  BY <2>1, <2>2, <3>1 DEF Generations
    <2>3. CASE up
      <3>1. /\ told[generation] = 0
            /\ told' = [told EXCEPT ![generation] = told[generation] + 1]
            /\ lostBy' = [lostBy EXCEPT ![generation] = "loss"]
        BY <1>2, <2>1, <2>3 DEF Fail
      <3> QED  BY <2>1, <2>3, <3>1 DEF Generations
    <2> QED  BY <2>2, <2>3
  <1>3. CASE HeartbeatEnds /\ ~up /\ UNCHANGED <<up, told, lostBy>>
    BY <1>3 DEF HeartbeatEnds
  <1>4. CASE Close
    <2>1. /\ generation \in Generations /\ generation' = generation /\ told' = told
          /\ up' = FALSE /\ reader' = FALSE /\ heartbeat' = FALSE /\ socket' = FALSE
      BY <1>4, ConnectionAssumption DEF Close, Generations
    <2>2. CASE ~up
      <3>1. lostBy' = lostBy
        BY <1>4, <2>1, <2>2 DEF Close
      <3> QED  BY <2>1, <2>2, <3>1 DEF Generations
    <2>3. CASE up
      <3>1. told[generation] = 0 /\ lostBy' = [lostBy EXCEPT ![generation] = "close"]
        BY <1>4, <2>1, <2>3 DEF Close
      <3> QED  BY <2>1, <2>3, <3>1 DEF Generations
    <2> QED  BY <2>2, <2>3
  <1>5. CASE UNCHANGED <<linkVars, told, lostBy>>
    BY <1>5 DEF linkVars
  <1>6. \/ Connect \/ ReadFails \/ HeartbeatEnds \/ Close \/ UNCHANGED <<linkVars, told, lostBy>>
    BY DEF Next, vars, history, Request, Grant, LeaveQueue, Exchange, Drained, DrainFails,
           TimerFires, ResumeExpired, ResumeAnswered, ResumeRefused, Cancel, ReadReply
  <1> QED  BY <1>1, <1>2, <1>3, <1>4, <1>5, <1>6 DEF ReadFails, HeartbeatEnds

\* A frame leaves on the generation its call captured, and what a reply settled is
\* not delivered again.
LEMMA FenceStep ==
    ConnectionInv /\ [Next]_vars => GenerationFence' /\ DeliveredOnce'
  <1> SUFFICES ASSUME ConnectionInv, [Next]_vars
               PROVE  GenerationFence' /\ DeliveredOnce'
    OBVIOUS
  <1>1. DeliveredOnce'
    <2>1. TypeOK' /\ CallInv'
      BY TypeStep, CallStep
    <2>2. \A f \in adopted' : f[1] \in Requests
      BY <2>1 DEF TypeOK, Frames
    <2> QED  BY <2>1, <2>2 DEF CallInv, FutureTrue, AdoptedSettledNone, DeliveredOnce
  <1>2. CASE UNCHANGED <<sentOn, madeOn>>
    <2>1. GenerationFence
      BY DEF ConnectionInv, GenerationsApart
    <2> QED  BY <1>1, <1>2, <2>1 DEF GenerationFence
  <1> USE DEF ConnectionInv, TypeOK, GenerationsApart
  <1>3. ASSUME NEW r \in Requests, Request(r) PROVE GenerationFence'
    <2>1. \A f \in Frames : f[1] \in Requests /\ f[2] \in Nat /\ f[2] > 0
      BY ConnectionAssumption DEF Frames
    <2>2. \A f \in Frames : f[1] = r => sentOn[f] = 0
      BY <1>3, <2>1 DEF Request, CallInv, TurnsLeft, UnwrittenUnsent
    <2>3. \A f \in Frames : f[1] # r => madeOn'[f[1]] = madeOn[f[1]]
      BY <1>3, <2>1 DEF Request
    <2> QED  BY <1>3, <2>1, <2>2, <2>3 DEF Request, history, GenerationFence
  <1>4. ASSUME NEW r \in Requests, Exchange(r), MayWrite(r), Write(r) PROVE GenerationFence'
    <2>1. sentOn' = [sentOn EXCEPT ![<<r, attempt[r] + 1>>] = madeOn[r]] /\ madeOn' = madeOn
      BY <1>4 DEF Exchange, MayWrite, Write
    <2> QED  BY <2>1 DEF GenerationFence
  <1>5. \/ UNCHANGED <<sentOn, madeOn>>
        \/ \E r \in Requests : \/ Request(r)
                               \/ Exchange(r) /\ MayWrite(r) /\ Write(r)
    BY DEF Next, vars, callVars, history, Connect, ReadFails, HeartbeatEnds, Close, Grant,
           LeaveQueue, Exchange, Drained, DrainFails, TimerFires, ResumeExpired,
           ResumeAnswered, ResumeRefused, Cancel, ReadReply
  <1> QED  BY <1>1, <1>2, <1>3, <1>4, <1>5

LEMMA ConnectionStep == ConnectionInv /\ [Next]_vars => ConnectionInv'
  BY TypeStep, CallStep, WaitingStep, ToldStep, FenceStep DEF ConnectionInv, GenerationsApart

LEMMA ConnectionInvHolds == Spec => []ConnectionInv
  BY ConnectionInit, ConnectionStep, PTL DEF Spec

-----------------------------------------------------------------------------
(* Generations *)

\* The connection's state stays within its types: no call writes more frames than
\* its retries allow, for any number of requests, retries and sockets.
THEOREM ConnectionTyped == Spec => []TypeOK
  BY ConnectionInvHolds, PTL DEF ConnectionInv

\* Whatever the order in which the read loop, the heartbeat loop, the owner, timers
\* and callers run: no frame goes out on a later socket than its call was made on, a
\* link that is down leaves nobody waiting, its loss is told exactly once and only if
\* the owner did not close it, and no reply reaches both its caller and the event
\* handler.
THEOREM GenerationsKept == Spec => []GenerationsApart
  BY ConnectionInvHolds, PTL DEF ConnectionInv

-----------------------------------------------------------------------------
(* The contract *)

\* The initial states are the contract's.
LEMMA ContractBegins == Init => Calls!ContractInit
  <1> SUFFICES ASSUME Init PROVE Calls!ContractInit
    OBVIOUS
  <1>1. {r \in Requests : stage[r] \notin {"idle", "done"}} = {}
    BY DEF Init
  <1>2. [r \in Requests |-> attempt[r] - refused[r]] = [r \in Requests |-> 0]
    BY DEF Init
  <1> QED  BY <1>1, <1>2 DEF Init, Calls!ContractInit

\* The calls in progress, as the contract sees them.
OpenCalls == {r \in Requests : stage[r] \notin {"idle", "done"}}

\* The frames of a call that stand, as the contract sees them.
StandingFrames == [r \in Requests |-> attempt[r] - refused[r]]

\* A call's return is an ending of the contract if it is honest.
LEMMA ContractEnds ==
    ASSUME ConnectionInv, NEW r \in Requests, NEW how \in Calls!Endings,
           stage[r] # "done", Finish(r, how), UNCHANGED <<attempt, refused>>,
           Calls!Honest(how, attempt[r] - refused[r])
    PROVE  Calls!ContractNext
  <1>1. ending[r] = "none"
    BY DEF ConnectionInv, CallInv, EndsWhenDone
  <1>2. OpenCalls' = OpenCalls \ {r}
    BY DEF OpenCalls, Finish, ConnectionInv, TypeOK
  <1>3. StandingFrames' = StandingFrames /\ StandingFrames[r] = attempt[r] - refused[r]
    BY DEF StandingFrames
  <1>4. ending' = [ending EXCEPT ![r] = how]
    BY DEF Finish
  <1>5. Calls!End(r, how)
    BY <1>1, <1>2, <1>3, <1>4 DEF Calls!End, OpenCalls, StandingFrames
  <1> QED  BY <1>5 DEF Calls!ContractNext

\* A step that neither begins nor ends a call, writes a frame or reads a refusal is a
\* stutter of the contract.
LEMMA ContractStutters ==
    ASSUME UNCHANGED <<ending, attempt, refused>>,
           \A r \in Requests : (stage'[r] \in {"idle", "done"}) <=> (stage[r] \in {"idle", "done"})
    PROVE  UNCHANGED Calls!contractVars
  <1>1. OpenCalls' = OpenCalls
    BY DEF OpenCalls
  <1>2. StandingFrames' = StandingFrames
    BY DEF StandingFrames
  <1> QED  BY <1>1, <1>2 DEF Calls!contractVars, OpenCalls, StandingFrames

\* Every step is a step of the contract or a stutter.
LEMMA ContractStep ==
    ConnectionInv /\ [Next]_vars => [Calls!ContractNext]_(Calls!contractVars)
  <1> SUFFICES ASSUME ConnectionInv, [Next]_vars
               PROVE  Calls!ContractNext \/ UNCHANGED Calls!contractVars
    OBVIOUS
  <1> USE DEF ConnectionInv, TypeOK
  <1>1. CASE Connect \/ ReadFails \/ HeartbeatEnds \/ Close \/ UNCHANGED vars
    <2>1. UNCHANGED <<ending, attempt, refused>>
      BY <1>1 DEF Connect, ReadFails, HeartbeatEnds, Close, callVars, history, vars
    <2>2. \A r \in Requests : \/ stage'[r] = stage[r]
                              \/ stage'[r] = "failed" /\ stage[r] = "queued"
      BY <1>1 DEF Connect, ReadFails, HeartbeatEnds, Close, Fail, RejectAll, callVars, vars
    <2> QED  BY <2>1, <2>2, ContractStutters
  <1>2. ASSUME NEW r \in Requests, Grant(r) \/ Drained(r) \/ TimerFires(r)
        PROVE  UNCHANGED Calls!contractVars
    <2>1. UNCHANGED <<ending, attempt, refused>>
      BY <1>2 DEF Grant, Drained, TimerFires, history
    <2>2. \A q \in Requests : (stage'[q] \in {"idle", "done"}) <=> (stage[q] \in {"idle", "done"})
      BY <1>2 DEF Grant, Drained, TimerFires
    <2> QED  BY <2>1, <2>2, ContractStutters
  <1>3. ASSUME NEW r \in Requests, Request(r)
        PROVE  Calls!ContractNext
    <2>1. stage[r] = "idle" /\ attempt[r] - refused[r] = 0 /\ ending[r] = "none"
      BY <1>3, ConnectionAssumption DEF Request, CallInv, TurnsLeft, EndsWhenDone
    <2>2. UNCHANGED <<attempt, refused>>
      BY <1>3 DEF Request, history
    <2>3. CASE Finish(r, "notSent")
      BY <2>1, <2>2, <2>3, ContractEnds DEF Calls!Endings, Calls!Honest
    <2>4. CASE stage' = [stage EXCEPT ![r] = "queued"] /\ UNCHANGED ending
      <3>1. OpenCalls' = OpenCalls \cup {r} /\ r \notin OpenCalls
        BY <2>1, <2>4 DEF OpenCalls
      <3>2. StandingFrames' = StandingFrames
        BY <2>2 DEF StandingFrames
      <3>3. Calls!Begin(r)
        BY <2>1, <2>4, <3>1, <3>2 DEF Calls!Begin, OpenCalls, StandingFrames
      <3> QED  BY <3>3 DEF Calls!ContractNext
    <2> QED  BY <1>3, <2>3, <2>4 DEF Request
  <1>4. ASSUME NEW r \in Requests, LeaveQueue(r)
        PROVE  Calls!ContractNext
    <2>1. stage[r] # "done" /\ attempt[r] - refused[r] = 0
      BY <1>4, ConnectionAssumption DEF LeaveQueue, CallInv, TurnsLeft
    <2>2. UNCHANGED <<attempt, refused>> /\ Finish(r, "notSent")
      BY <1>4 DEF LeaveQueue, history
    <2> QED  BY <2>1, <2>2, ContractEnds DEF Calls!Endings, Calls!Honest
  <1>5. ASSUME NEW r \in Requests, Exchange(r)
        PROVE  Calls!ContractNext
    <2>1. /\ stage[r] = "granted" /\ attempt[r] = refused[r]
          /\ attempt[r] \in Nat /\ attempt[r] - refused[r] = 0
          /\ refused' = refused
      BY <1>5, ConnectionAssumption DEF Exchange, CallInv, TurnsLeft
    <2>2. CASE Finish(r, "notSent") /\ UNCHANGED attempt
      BY <2>1, <2>2, ContractEnds DEF Calls!Endings, Calls!Honest
    <2>3. CASE Write(r)
      <3>1. /\ attempt' = [attempt EXCEPT ![r] = attempt[r] + 1]
            /\ stage' = [stage EXCEPT ![r] = "draining"] /\ ending' = ending
        BY <2>3 DEF Write
      <3>2. OpenCalls' = OpenCalls /\ r \in OpenCalls
        BY <2>1, <3>1 DEF OpenCalls
      <3>3. StandingFrames[r] = 0 /\ StandingFrames' = [StandingFrames EXCEPT ![r] = 1]
        <4>1. attempt'[r] - refused'[r] = 1
          BY <2>1, <3>1
        <4>2. \A q \in Requests \ {r} : attempt'[q] - refused'[q] = attempt[q] - refused[q]
          BY <2>1, <3>1
        <4> QED  BY <2>1, <4>1, <4>2, Zenon DEF StandingFrames
      <3>4. Calls!Send(r)
        BY <3>1, <3>2, <3>3 DEF Calls!Send, OpenCalls, StandingFrames
      <3> QED  BY <3>4 DEF Calls!ContractNext
    <2> QED  BY <1>5, <2>2, <2>3 DEF Exchange
  <1>6. ASSUME NEW r \in Requests, DrainFails(r) \/ ResumeExpired(r) \/ Cancel(r)
        PROVE  Calls!ContractNext
    <2>1. stage[r] # "done" /\ UNCHANGED <<attempt, refused>>
      BY <1>6 DEF DrainFails, ResumeExpired, Cancel, history
    <2>2. Finish(r, "unknown") \/ Finish(r, "cancelled")
      BY <1>6 DEF DrainFails, ResumeExpired, Cancel
    <2> QED  BY <2>1, <2>2, ContractEnds DEF Calls!Endings, Calls!Honest
  <1>7. ASSUME NEW r \in Requests, ResumeAnswered(r)
        PROVE  Calls!ContractNext
    <2>1. stage[r] # "done" /\ UNCHANGED <<attempt, refused>>
      BY <1>7 DEF ResumeAnswered, history
    <2>2. CASE future[r] = "reply" /\ Finish(r, "reply")
      <3>1. attempt[r] - refused[r] = 1
        BY <2>2, ConnectionAssumption DEF CallInv, FutureTrue
      <3> QED  BY <2>1, <2>2, <3>1, ContractEnds DEF Calls!Endings, Calls!Honest
    <2>3. CASE Finish(r, "unknown")
      BY <2>1, <2>3, ContractEnds DEF Calls!Endings, Calls!Honest
    <2> QED  BY <1>7, <2>2, <2>3 DEF ResumeAnswered
  <1>8. ASSUME NEW r \in Requests, ResumeRefused(r)
        PROVE  Calls!ContractNext \/ UNCHANGED Calls!contractVars
    <2>1. stage[r] = "awaiting" /\ UNCHANGED <<attempt, refused>> /\ attempt[r] - refused[r] = 0
      BY <1>8, ConnectionAssumption DEF ResumeRefused, history, CallInv, FutureTrue
    <2>2. CASE Finish(r, "refused") \/ Finish(r, "notSent")
      BY <2>1, <2>2, ContractEnds DEF Calls!Endings, Calls!Honest
    <2>3. CASE stage' = [stage EXCEPT ![r] = "queued"] /\ UNCHANGED ending
      <3>1. \A q \in Requests : (stage'[q] \in {"idle", "done"}) <=> (stage[q] \in {"idle", "done"})
        BY <2>1, <2>3
      <3> QED  BY <2>1, <2>3, <3>1, ContractStutters
    <2> QED  BY <1>8, <2>2, <2>3 DEF ResumeRefused
  <1>9. ASSUME NEW f \in Frames, NEW answer \in {"reply", "refusal"}, ReadReply(f, answer)
        PROVE  Calls!ContractNext \/ UNCHANGED Calls!contractVars
    <2>1. UNCHANGED <<stage, ending, attempt>> /\ f \in wire
      BY <1>9 DEF ReadReply
    <2>2. CASE refused' = refused
      BY <2>1, <2>2, ContractStutters
    <2>3. CASE refused' # refused
      <3>1. /\ f[1] \in Requests
            /\ refused[f[1]] \in Nat /\ attempt[f[1]] \in Nat
            /\ attempt[f[1]] = refused[f[1]] + 1
        BY <2>1, ConnectionAssumption DEF Frames, CallInv, WireIsLatest
      <3>2. refused' = [refused EXCEPT ![f[1]] = refused[f[1]] + 1]
        BY <1>9, <2>3, <3>1 DEF ReadReply
      <3> DEFINE r == f[1]
      <3> HIDE DEF r
      <3>3. StandingFrames[r] = 1 /\ StandingFrames' = [StandingFrames EXCEPT ![r] = 0]
        <4>1. attempt[r] - refused[r] = 1 /\ attempt'[r] - refused'[r] = 0
          BY <2>1, <3>1, <3>2 DEF r
        <4>2. \A q \in Requests \ {r} : attempt'[q] - refused'[q] = attempt[q] - refused[q]
          BY <2>1, <3>1, <3>2 DEF r
        <4>3. r \in Requests
          BY <3>1 DEF r
        <4> QED  BY <4>1, <4>2, <4>3, Zenon DEF StandingFrames
      <3>4. OpenCalls' = OpenCalls
        BY <2>1 DEF OpenCalls
      <3>5. Calls!VenueRefuses(r)
        BY <2>1, <3>3, <3>4 DEF Calls!VenueRefuses, OpenCalls, StandingFrames
      <3> QED  BY <3>1, <3>5 DEF Calls!ContractNext, r
    <2> QED  BY <2>2, <2>3
  <1> QED  BY <1>1, <1>2, <1>3, <1>4, <1>5, <1>6, <1>7, <1>8, <1>9 DEF Next

\* request() keeps the contract execution relies on, whatever happens to sockets,
\* timers and the queue: each call ends once, never two of its frames stand at the
\* venue, "notSent" and "refused" are said only when none stands and "reply" only of
\* the one that does.
THEOREM ContractKept == Spec => KeepsContract
  BY ConnectionInvHolds, ContractBegins, ContractStep, PTL DEF Spec, KeepsContract, Calls!Contract

=============================================================================
