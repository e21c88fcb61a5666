-------------------------- MODULE ModelRebuildProofs --------------------------
(***************************************************************************)
(* Proofs about ModelRebuild, for any number of changes, losses and        *)
(* rebuilds: no event handed to the client is lost between the rebuilds    *)
(* that share the buffer, the completeness key tells the truth, and events *)
(* held for a mass status are applied by nothing but its reconciliation.   *)
(*                                                                         *)
(* The argument is about one rebuild that runs beside no other.  As long   *)
(* as the client stays attached and no break is counted, the session has   *)
(* accepted requests since the read began, so no event has been missed     *)
(* since; and the rebuild holds the buffer, so none has been applied       *)
(* either.  The snapshot it reads therefore shows all that was missed or   *)
(* applied, and so does the model from the moment it stands.               *)
(***************************************************************************)
EXTENDS ModelRebuild, TLAPS

-----------------------------------------------------------------------------
(* The inductive invariant *)

Message == [kind : {"event", "snapshot"}, upTo : 0..MaxChanges, id : 0..MaxRebuilds]
RebuildType == [pc : Steps, id : 0..MaxRebuilds, breaks : Nat, upTo : 0..MaxChanges,
                alone : BOOLEAN, loss : 0..MaxLosses]

\* TypeOK in parts, each about the state that changes together.
LinkShape ==
    /\ session \in {"down", "lost", "restoring", "ready"} /\ socket \in BOOLEAN
    /\ changes \in 0..MaxChanges /\ losses \in 0..MaxLosses /\ begun \in 0..MaxRebuilds
FlagShape ==
    /\ attached \in BOOLEAN /\ restorable \in BOOLEAN /\ failed \in BOOLEAN /\ started \in BOOLEAN
    /\ rebuilding \in BOOLEAN /\ awaited \in BOOLEAN /\ trusted \in BOOLEAN
SetShape ==
    /\ model \in SUBSET Changes /\ handed \in SUBSET Changes
    /\ applied \in SUBSET Changes /\ missed \in SUBSET Changes
    /\ breaks \in Nat /\ rebuiltAt \in Nat \cup {-1}
StreamShape ==
    /\ stream \in Seq(Message) /\ held \in Seq(Changes)
    /\ holding \in BOOLEAN /\ (~holding => held = <<>>)
RebuildShape == rebuild \in [Rebuilders -> RebuildType]

\* Nothing is numbered beyond what was made or begun, and no noted count of the
\* breaks is ahead of _breaks.
StreamNumbered ==
    \A i \in 1..Len(stream) : /\ stream[i].kind = "event" => stream[i].upTo \in 1..changes
                              /\ stream[i].id <= begun
EventsNumbered ==
    missed \subseteq 1..changes /\ applied \subseteq 1..changes /\ ToSet(held) \subseteq 1..changes
RebuildsNumbered ==
    /\ rebuiltAt <= breaks
    /\ \A t \in Rebuilders : rebuild[t].breaks <= breaks /\ rebuild[t].id <= begun
Numbered == StreamNumbered /\ EventsNumbered /\ RebuildsNumbered

\* A detached client is handed nothing, and has no restore registered.
DetachedIsDeaf == ~attached => handed = {} /\ ~restorable

\* Rebuild t runs beside no other, and nothing waits for Nautilus.
RunsAlone(t) == rebuild[t].pc # "idle" /\ rebuild[t].alone
AloneIsAlone ==
    \A t \in Rebuilders : RunsAlone(t) =>
        /\ \A u \in Rebuilders : u # t => rebuild[u].pc = "idle"
        /\ ~awaited

\* The snapshots on their way to rebuild t.
Coming(t) == {i \in 1..Len(stream) : stream[i].kind = "snapshot" /\ stream[i].id = rebuild[t].id}

\* A rebuild has asked for its snapshot once.
AskedOnce ==
    \A t \in Rebuilders :
        RunsAlone(t) /\ rebuild[t].pc \in {"outbox", "trader", "asked"} => Coming(t) = {}

\* From the start of the read to its end, a rebuild alone holds the buffer ...
Reads(t) == RunsAlone(t) /\ rebuild[t].pc \in {"asked", "taken", "lists"} /\ attached
ReadHolds ==
    /\ \A t \in Rebuilders : Reads(t) => holding
    /\ RunsAlone("start") => started

\* ... and while no break has come to be counted, its snapshot shows all that was
\* missed and applied.
Unbroken(t) == rebuild[t].breaks = breaks /\ session # "lost"
ReadIsWhole ==
    \A t \in Rebuilders : Reads(t) /\ Unbroken(t) =>
        /\ Accepting
        /\ rebuild[t].pc = "taken" =>
              \A i \in Coming(t) : missed \cup applied \subseteq 1..stream[i].upTo
        /\ rebuild[t].pc = "lists" => missed \cup applied \subseteq 1..rebuild[t].upTo

\* The model that a trusted rebuild left, until the next break.
StandsWhole ==
    trusted /\ attached /\ rebuiltAt = breaks /\ session # "lost" =>
        Accepting /\ missed \cup applied \subseteq model
DetachBroke == trusted /\ ~attached => rebuiltAt < breaks

\* While the mass status of a rebuild that ran alone waits for Nautilus, nothing runs.
AwaitedIsQuiet ==
    awaited /\ trusted =>
        /\ attached /\ holding /\ started
        /\ \A t \in Rebuilders : rebuild[t].pc = "idle"

RebuildInv ==
    /\ LinkShape /\ FlagShape /\ SetShape /\ StreamShape /\ RebuildShape
    /\ Numbered /\ DetachedIsDeaf /\ HandedIsKept
    /\ AloneIsAlone /\ AskedOnce /\ ReadHolds /\ ReadIsWhole
    /\ StandsWhole /\ DetachBroke /\ AwaitedIsQuiet

-----------------------------------------------------------------------------
(* Sequences, and what an action does to the rebuilds *)

LEMMA ToSetOfAppend ==
    ASSUME NEW S, NEW s \in Seq(S), NEW e \in S
    PROVE  ToSet(Append(s, e)) = ToSet(s) \cup {e}
<1> DEFINE a == Append(s, e)
<1>1. /\ a \in Seq(S) /\ Len(a) = Len(s) + 1 /\ Len(s) \in Nat
      /\ a[Len(s) + 1] = e
      /\ \A i \in 1..Len(s) : a[i] = s[i]
    OBVIOUS
<1>2. DOMAIN a = 1..(Len(s) + 1) /\ DOMAIN s = 1..Len(s)
    BY <1>1
<1> HIDE DEF a
<1>3. {a[i] : i \in DOMAIN a} = {s[i] : i \in DOMAIN s} \cup {e}
    BY <1>1, <1>2
<1> QED
    BY <1>3 DEF ToSet, a

LEMMA ToSetOfEmpty == ToSet(<<>>) = {}
BY DEF ToSet

LEMMA ToSetTyped ==
    ASSUME NEW S, NEW s \in Seq(S)
    PROVE  ToSet(s) \in SUBSET S
BY DEF ToSet

LEMMA ShapeIsType ==
    LinkShape /\ FlagShape /\ SetShape /\ StreamShape /\ RebuildShape => TypeOK
BY DEF LinkShape, FlagShape, SetShape, StreamShape, RebuildShape, TypeOK, Message, RebuildType

LEMMA NoRebuildTyped == NoRebuild \in RebuildType /\ NoRebuild.pc = "idle" /\ NoRebuild.breaks = 0
                          /\ NoRebuild.id = 0
BY RebuildAssumption DEF NoRebuild, RebuildType, Steps

\* A rebuild begins: it is alone only if none runs, and no other is alone from now on.
LEMMA BeginEffect ==
    ASSUME RebuildShape, LinkShape, SetShape, awaited' \in BOOLEAN,
           NEW t \in Rebuilders, NEW pc \in Steps \ {"idle"}, Begin(t, pc)
    PROVE  /\ rebuild' \in [Rebuilders -> RebuildType]
           /\ begun' \in 0..MaxRebuilds /\ begun' = begun + 1
           /\ rebuild'[t].pc = pc /\ rebuild'[t].id = begun + 1 /\ rebuild'[t].breaks = breaks
           /\ \A u \in Rebuilders : u # t =>
                 /\ rebuild'[u].pc = rebuild[u].pc /\ rebuild'[u].breaks = rebuild[u].breaks
                 /\ rebuild'[u].id = rebuild[u].id
                 /\ rebuild[u].pc # "idle" => ~rebuild'[u].alone
           /\ rebuild'[t].alone => ~awaited' /\ \A u \in Rebuilders : rebuild[u].pc = "idle"
<1> DEFINE alone == Running = {} /\ ~awaited'
           first == [pc |-> pc, id |-> begun + 1, breaks |-> breaks, upTo |-> 0, alone |-> alone,
                     loss |-> losses]
           other(u) == [rebuild[u] EXCEPT !.alone = @ /\ u \notin Running]
<1>1. begun + 1 \in 0..MaxRebuilds /\ begun' = begun + 1 /\ 0 \in 0..MaxChanges
    BY RebuildAssumption DEF Begin, LinkShape
<1>2. alone \in BOOLEAN
    OBVIOUS
<1> HIDE DEF alone
<1>3. first \in RebuildType /\ first.pc = pc /\ first.id = begun + 1 /\ first.breaks = breaks
      /\ first.alone = alone
    BY <1>1, <1>2 DEF RebuildType, LinkShape, SetShape
<1>4. ASSUME NEW u \in Rebuilders
      PROVE  /\ other(u) \in RebuildType
             /\ other(u).pc = rebuild[u].pc /\ other(u).breaks = rebuild[u].breaks
             /\ other(u).id = rebuild[u].id
             /\ rebuild[u].pc # "idle" => ~other(u).alone
    <2>1. rebuild[u] \in RebuildType
        BY DEF RebuildShape
    <2>2. (rebuild[u].alone /\ u \notin Running) \in BOOLEAN
        OBVIOUS
    <2>3. rebuild[u].pc # "idle" => ~(rebuild[u].alone /\ u \notin Running)
        BY DEF Running
    <2> QED
        BY <2>1, <2>2, <2>3 DEF RebuildType
<1>5. rebuild' = [u \in Rebuilders |-> IF u = t THEN first ELSE other(u)]
    BY DEF Begin, alone
<1>6. alone => ~awaited' /\ \A u \in Rebuilders : rebuild[u].pc = "idle"
    BY DEF alone, Running
<1> HIDE DEF first, other
<1>7. rebuild'[t] = first /\ \A u \in Rebuilders : u # t => rebuild'[u] = other(u)
    BY <1>5
<1>8. rebuild' \in [Rebuilders -> RebuildType]
    BY <1>3, <1>4, <1>5
<1> QED
    BY <1>1, <1>3, <1>4, <1>6, <1>7, <1>8

LEMMA GotoEffect ==
    ASSUME RebuildShape, NEW t \in Rebuilders, NEW pc \in Steps, Goto(t, pc)
    PROVE  /\ rebuild' \in [Rebuilders -> RebuildType]
           /\ rebuild'[t].pc = pc /\ rebuild'[t].id = rebuild[t].id
           /\ rebuild'[t].breaks = rebuild[t].breaks /\ rebuild'[t].alone = rebuild[t].alone
           /\ \A u \in Rebuilders : u # t => rebuild'[u] = rebuild[u]
BY DEF RebuildShape, RebuildType, Goto

LEMMA EndsEffect ==
    ASSUME RebuildShape, NEW t \in Rebuilders, Ends(t)
    PROVE  /\ rebuild' \in [Rebuilders -> RebuildType]
           /\ rebuild'[t] = NoRebuild /\ rebuild'[t].pc = "idle" /\ rebuild'[t].breaks = 0
           /\ rebuild'[t].id = 0
           /\ \A u \in Rebuilders : u # t => rebuild'[u] = rebuild[u]
BY NoRebuildTyped DEF RebuildShape, Ends

LEMMA EmptyTyped == \A S : <<>> \in Seq(S)
OBVIOUS

\* The buffer is released: the events an attached client holds are applied.
LEMMA ReleaseEffect ==
    ASSUME StreamShape, NEW shown, ReleaseBuffer(shown)
    PROVE  /\ holding' = FALSE /\ held' = <<>> /\ awaited' = FALSE /\ rebuilding' = FALSE
           /\ \E E \in SUBSET Changes :
                 /\ E \subseteq ToSet(held) /\ (attached => E = ToSet(held))
                 /\ model' = shown \cup E /\ applied' = applied \cup E
<1>1. ToSet(held) \in SUBSET Changes
    BY ToSetTyped DEF StreamShape
<1> DEFINE E == IF attached THEN ToSet(held) ELSE {}
<1>2. model' = shown \cup E /\ applied' = applied \cup E
    BY DEF ReleaseBuffer
<1>3. E \in SUBSET Changes /\ E \subseteq ToSet(held) /\ (attached => E = ToSet(held))
    BY <1>1
<1>4. holding' = FALSE /\ held' = <<>> /\ awaited' = FALSE /\ rebuilding' = FALSE
    BY DEF ReleaseBuffer
<1> QED
    BY <1>2, <1>3, <1>4

LEMMA MessageTyped == \A m \in Message : m.id \in Nat /\ m.upTo \in Nat
BY RebuildAssumption DEF Message

LEMMA StreamAppend ==
    ASSUME StreamShape, NEW m \in Message, stream' = Append(stream, m)
    PROVE  /\ stream' \in Seq(Message) /\ Len(stream) \in Nat
           /\ Len(stream') = Len(stream) + 1 /\ stream'[Len(stream) + 1] = m
           /\ \A i \in 1..Len(stream) : stream'[i] = stream[i]
BY DEF StreamShape

LEMMA StreamTail ==
    ASSUME StreamShape, stream # <<>>, stream' = Tail(stream)
    PROVE  /\ stream' \in Seq(Message) /\ Len(stream) \in Nat /\ Len(stream) > 0
           /\ Len(stream') = Len(stream) - 1
           /\ Head(stream) = stream[1] /\ stream[1] \in Message
           /\ \A i \in 1..Len(stream') : stream'[i] = stream[i + 1] /\ i + 1 \in 1..Len(stream)
BY DEF StreamShape

\* What a closed socket carried was made.
LEMMA CloseEffect ==
    ASSUME StreamShape, LinkShape, Numbered, CloseSocket
    PROVE  /\ stream' = <<>> /\ Len(stream') = 0
           /\ missed' \subseteq 1..changes
<1>1. ASSUME NEW n \in ToSet(stream), n.kind = "event" PROVE n.upTo \in 1..changes
    BY <1>1 DEF ToSet, StreamShape, Numbered, StreamNumbered
<1> QED
    BY <1>1 DEF CloseSocket, Numbered, EventsNumbered

\* A change made or a break counted leaves the earlier numbers numbered.
LEMMA Growing == ASSUME NEW n \in Nat PROVE 1..n \subseteq 1..(n + 1) /\ n + 1 \in 1..(n + 1)
OBVIOUS

LEMMA ChangesGrow == LinkShape => 1..changes \subseteq Changes /\ changes \in Nat
BY RebuildAssumption DEF LinkShape, Changes

\* The next message, as the read loop finds it.
LEMMA HeadTyped ==
    ASSUME StreamShape, Numbered, stream # <<>>
    PROVE  /\ Head(stream) \in Message /\ Head(stream) = stream[1]
           /\ Head(stream).id <= begun
           /\ Head(stream).kind = "event" => Head(stream).upTo \in 1..changes
BY DEF StreamShape, Numbered, StreamNumbered

\* Deliver() in its two cases.
LEMMA SnapshotEffect ==
    ASSUME RebuildShape, NEW m \in Message,
           rebuild' = [t \in Rebuilders |->
                         IF rebuild[t].pc = "taken" /\ rebuild[t].id = m.id
                         THEN [rebuild[t] EXCEPT !.pc = "lists", !.upTo = m.upTo]
                         ELSE rebuild[t]]
    PROVE  /\ rebuild' \in [Rebuilders -> RebuildType]
           /\ \A u \in Rebuilders :
                 /\ rebuild'[u].id = rebuild[u].id /\ rebuild'[u].breaks = rebuild[u].breaks
                 /\ rebuild'[u].alone = rebuild[u].alone
                 /\ \/ rebuild'[u] = rebuild[u]
                    \/ /\ rebuild[u].pc = "taken" /\ rebuild[u].id = m.id
                       /\ rebuild'[u].pc = "lists" /\ rebuild'[u].upTo = m.upTo
<1>1. ASSUME NEW u \in Rebuilders
      PROVE  /\ rebuild'[u] \in RebuildType
             /\ rebuild'[u].id = rebuild[u].id /\ rebuild'[u].breaks = rebuild[u].breaks
             /\ rebuild'[u].alone = rebuild[u].alone
             /\ \/ rebuild'[u] = rebuild[u]
                \/ /\ rebuild[u].pc = "taken" /\ rebuild[u].id = m.id
                   /\ rebuild'[u].pc = "lists" /\ rebuild'[u].upTo = m.upTo
    <2>1. rebuild[u] \in RebuildType /\ m.upTo \in 0..MaxChanges
        BY DEF RebuildShape, Message
    <2>2. CASE rebuild[u].pc = "taken" /\ rebuild[u].id = m.id
        <3>1. rebuild'[u] = [rebuild[u] EXCEPT !.pc = "lists", !.upTo = m.upTo]
            BY <2>2
        <3> QED
            BY <2>1, <2>2, <3>1 DEF RebuildType, Steps
    <2>3. CASE ~(rebuild[u].pc = "taken" /\ rebuild[u].id = m.id)
        BY <2>1, <2>3
    <2> QED
        BY <2>2, <2>3
<1>2. rebuild' \in [Rebuilders -> RebuildType]
    BY <1>1
<1> QED
    BY <1>1, <1>2

LEMMA ReloadEffect ==
    ASSUME RebuildShape, LinkShape, SetShape, NEW t \in Rebuilders, Reload(t)
    PROVE  /\ rebuild' \in [Rebuilders -> RebuildType]
           /\ begun' \in 0..MaxRebuilds /\ begun' = begun + 1
           /\ rebuild'[t].pc \in {"outbox", "trader"}
           /\ rebuild'[t].id = begun + 1 /\ rebuild'[t].breaks = breaks
           /\ \A u \in Rebuilders : u # t =>
                 /\ rebuild'[u].pc = rebuild[u].pc /\ rebuild'[u].breaks = rebuild[u].breaks
                 /\ rebuild'[u].id = rebuild[u].id
                 /\ rebuild[u].pc # "idle" => ~rebuild'[u].alone
           /\ rebuild'[t].alone => ~awaited' /\ \A u \in Rebuilders : rebuild[u].pc = "idle"
<1>1. PICK pc \in {"outbox", "trader"} : Begin(t, pc)
    BY DEF Reload
<1>2. awaited' \in BOOLEAN /\ pc \in Steps \ {"idle"}
    BY DEF Reload, Steps
<1> QED
    BY <1>1, <1>2, BeginEffect

LEMMA ReadEffect ==
    ASSUME RebuildShape, SetShape, NEW t \in Rebuilders,
           rebuild' = [rebuild EXCEPT ![t].pc = "asked", ![t].breaks = breaks]
    PROVE  /\ rebuild' \in [Rebuilders -> RebuildType]
           /\ rebuild'[t].pc = "asked" /\ rebuild'[t].breaks = breaks
           /\ rebuild'[t].id = rebuild[t].id /\ rebuild'[t].alone = rebuild[t].alone
           /\ \A u \in Rebuilders : u # t => rebuild'[u] = rebuild[u]
BY DEF RebuildShape, RebuildType, Steps, SetShape

-----------------------------------------------------------------------------
(* The shape of the state *)

LEMMA LinkStep == RebuildInv /\ [Next]_vars => LinkShape'
<1> SUFFICES ASSUME RebuildInv, [Next]_vars PROVE LinkShape'
    OBVIOUS
<1>0. LinkShape
    BY DEF RebuildInv
<1>1. CASE Attach
    BY <1>0, <1>1, RebuildAssumption DEF Attach, Begin, HoldBuffer, Running, linkVars, flagVars,
       modelVars, LinkShape
<1>2. CASE Start
    BY <1>0, <1>2, RebuildAssumption DEF Start, Begin, HoldBuffer, Running, linkVars, flagVars,
       modelVars, LinkShape
<1>3. CASE Background
    BY <1>0, <1>3, RebuildAssumption DEF Background, BackgroundMayBegin, Begin, HoldBuffer,
       Running, linkVars, flagVars, modelVars, LinkShape
<1>4. CASE Retry
    BY <1>0, <1>4, RebuildAssumption DEF Retry, Reload, Begin, HoldBuffer, Running, linkVars,
       flagVars, modelVars, LinkShape
<1>5. CASE Change
    BY <1>0, <1>5, RebuildAssumption DEF Change, Event, linkVars, flagVars, modelVars, LinkShape
<1>6. CASE Lose
    <2>1. losses + 1 \in 0..MaxLosses
        BY <1>0, <1>6, RebuildAssumption DEF Lose, LinkShape
    <2>2. socket' \in BOOLEAN
        BY <1>0, <1>6 DEF Lose, CloseSocket, LinkShape
    <2> QED
        BY <1>0, <1>6, <2>1, <2>2 DEF Lose, modelVars, flagVars, LinkShape
<1>7. CASE ModelBroke
    BY <1>0, <1>7, RebuildAssumption DEF ModelBroke, linkVars, flagVars, modelVars, LinkShape
<1>8. CASE Teardown
    BY <1>0, <1>8, RebuildAssumption DEF Teardown, CloseSocket, linkVars, flagVars, modelVars,
       LinkShape
<1>9. CASE BringUp
    BY <1>0, <1>9, RebuildAssumption DEF BringUp, Reload, Begin, HoldBuffer, Running, linkVars,
       flagVars, modelVars, LinkShape
<1>10. CASE BecomeReady
    BY <1>0, <1>10, RebuildAssumption DEF BecomeReady, linkVars, flagVars, modelVars, LinkShape
<1>11. CASE UNCHANGED <<session, socket, changes, losses, begun>>
    BY <1>0, <1>11 DEF LinkShape
<1>12. ASSUME Detach \/ ConnectEnds \/ (\E t \in Rebuilders : OutboxDelivered(t)) \/ (\E t \in
   Rebuilders : TraderRead(t)) \/ (\E t \in Rebuilders : VenueAnswers(t)) \/ (\E t \in Rebuilders
   : Stand(t)) \/ (\E t \in Rebuilders : ReloadEnds(t)) \/ (\E t \in Rebuilders : Fails(t)) \/
   Deliver \/ Reconciled \/ UNCHANGED vars
      PROVE  UNCHANGED <<session, socket, changes, losses, begun>>
    BY <1>12 DEF Detach, ConnectEnds, OutboxDelivered, TraderRead, VenueAnswers, Stand,
       ReloadEnds, Fails, Deliver, Reconciled, vars, linkVars, flagVars, modelVars
<1> QED
    BY <1>1, <1>2, <1>3, <1>4, <1>5, <1>6, <1>7, <1>8, <1>9, <1>10, <1>11, <1>12 DEF Next

LEMMA FlagStep == RebuildInv /\ [Next]_vars => FlagShape'
<1> SUFFICES ASSUME RebuildInv, [Next]_vars PROVE FlagShape'
    OBVIOUS
<1>0. FlagShape
    BY DEF RebuildInv
<1>1. CASE Attach
    BY <1>0, <1>1 DEF Attach, Begin, HoldBuffer, Running, linkVars, flagVars, modelVars, FlagShape
<1>2. CASE Detach
    BY <1>0, <1>2 DEF Detach, Detached, linkVars, flagVars, modelVars, FlagShape
<1>3. CASE ConnectEnds
    BY <1>0, <1>3 DEF ConnectEnds, Ends, Detached, linkVars, flagVars, modelVars, FlagShape
<1>4. CASE Start
    BY <1>0, <1>4 DEF Start, Begin, HoldBuffer, Running, linkVars, flagVars, modelVars, FlagShape
<1>5. CASE Background
    BY <1>0, <1>5 DEF Background, BackgroundMayBegin, Begin, HoldBuffer, Running, linkVars,
       flagVars, modelVars, FlagShape
<1>6. CASE Retry
    BY <1>0, <1>6 DEF Retry, Reload, Begin, HoldBuffer, Running, linkVars, flagVars, modelVars,
       FlagShape
<1>7. ASSUME NEW t \in Rebuilders, TraderRead(t) PROVE FlagShape'
    BY <1>0, <1>7 DEF TraderRead, HoldBuffer, linkVars, flagVars, modelVars, FlagShape
<1>8. ASSUME NEW t \in Rebuilders, Stand(t) PROVE FlagShape'
    BY <1>0, <1>8 DEF Stand, ReleaseBuffer, BreaksOfRead, Goto, Ends, linkVars, flagVars,
       modelVars, FlagShape
<1>9. ASSUME NEW t \in Rebuilders, ReloadEnds(t) PROVE FlagShape'
    BY <1>0, <1>9 DEF ReloadEnds, ReleaseBuffer, Ends, linkVars, flagVars, modelVars, FlagShape
<1>10. ASSUME NEW t \in Rebuilders, Fails(t) PROVE FlagShape'
    BY <1>0, <1>10 DEF Fails, Detached, FailedPass, ReleaseBuffer, Ends, linkVars, flagVars,
       modelVars, FlagShape
<1>11. CASE Reconciled
    BY <1>0, <1>11 DEF Reconciled, ReleaseBuffer, linkVars, flagVars, modelVars, FlagShape
<1>12. CASE BringUp
    BY <1>0, <1>12 DEF BringUp, Reload, Begin, HoldBuffer, Running, linkVars, flagVars, modelVars,
       FlagShape
<1>13. CASE UNCHANGED <<attached, restorable, failed, started, rebuilding, awaited, trusted>>
    BY <1>0, <1>13 DEF FlagShape
<1>14. ASSUME (\E t \in Rebuilders : OutboxDelivered(t)) \/ (\E t \in Rebuilders :
   VenueAnswers(t)) \/ Deliver \/ Change \/ Lose \/ ModelBroke \/ Teardown \/ BecomeReady \/
   UNCHANGED vars
      PROVE  UNCHANGED <<attached, restorable, failed, started, rebuilding, awaited, trusted>>
    BY <1>14 DEF OutboxDelivered, VenueAnswers, Deliver, Change, Lose, ModelBroke, Teardown,
       BecomeReady, vars, linkVars, flagVars, modelVars
<1> QED
    BY <1>1, <1>2, <1>3, <1>4, <1>5, <1>6, <1>7, <1>8, <1>9, <1>10, <1>11, <1>12, <1>13, <1>14 DEF
       Next

LEMMA SetStep == RebuildInv /\ [Next]_vars => SetShape'
<1> SUFFICES ASSUME RebuildInv, [Next]_vars PROVE SetShape'
    OBVIOUS
<1>0. LinkShape /\ SetShape /\ StreamShape /\ RebuildShape /\ Numbered
    BY DEF RebuildInv
<1>1. CASE Attach
    BY <1>0, <1>1 DEF Attach, Begin, HoldBuffer, Running, linkVars, flagVars, modelVars, SetShape
<1>2. CASE Detach
    BY <1>0, <1>2 DEF Detach, Detached, linkVars, flagVars, modelVars, SetShape
<1>3. CASE ConnectEnds
    BY <1>0, <1>3 DEF ConnectEnds, Detached, SetShape
<1>4. ASSUME NEW t \in Rebuilders, Stand(t) PROVE SetShape'
    <2>1. 1..rebuild[t].upTo \in SUBSET Changes /\ rebuild[t].breaks \in Nat
        BY <1>0, RebuildAssumption DEF RebuildShape, RebuildType, Changes
    <2>2. model' \in SUBSET Changes /\ applied' \in SUBSET Changes
        <3>1. CASE ReleaseBuffer(1..rebuild[t].upTo)
            <4>1. PICK E \in SUBSET Changes :
                     model' = 1..rebuild[t].upTo \cup E /\ applied' = applied \cup E
                BY <1>0, <3>1, ReleaseEffect
            <4> QED
                BY <1>0, <2>1, <4>1 DEF SetShape
        <3>2. CASE model' = 1..rebuild[t].upTo /\ applied' = applied
            BY <1>0, <2>1, <3>2 DEF SetShape
        <3> QED
            BY <1>4, <3>1, <3>2 DEF Stand
    <2> QED
        BY <1>0, <1>4, <2>1, <2>2 DEF Stand, BreaksOfRead, SetShape
<1>5. ASSUME NEW t \in Rebuilders, ReloadEnds(t) PROVE SetShape'
    <2>1. PICK E \in SUBSET Changes : model' = model \cup E /\ applied' = applied \cup E
        BY <1>0, <1>5, ReleaseEffect DEF ReloadEnds
    <2> QED
        BY <1>0, <1>5, <2>1 DEF ReloadEnds, SetShape
<1>6. ASSUME NEW t \in Rebuilders, Fails(t) PROVE SetShape'
    <2>1. CASE Detached /\ UNCHANGED <<model, applied>>
        BY <1>0, <1>6, <2>1 DEF Fails, Detached, SetShape
    <2>2. CASE FailedPass(t)
        <3>1. PICK E \in SUBSET Changes : model' = model \cup E /\ applied' = applied \cup E
            BY <1>0, <2>2, ReleaseEffect DEF FailedPass
        <3> QED
            BY <1>0, <1>6, <2>2, <3>1 DEF Fails, FailedPass, SetShape
    <2> QED
        BY <1>6, <2>1, <2>2 DEF Fails
<1>7. CASE Deliver
    <2> DEFINE m == Head(stream)
    <2>1. m.kind = "event" => m.upTo \in Changes
        BY <1>0, <1>7, HeadTyped, ChangesGrow DEF Deliver
    <2>2. CASE m.kind = "event" /\ DeliverEvent(m.upTo)
        BY <1>0, <1>7, <2>1, <2>2 DEF Deliver, DeliverEvent, SetShape
    <2>3. CASE UNCHANGED <<held, handed, model, applied, missed>>
        BY <1>0, <1>7, <2>3 DEF Deliver, SetShape
    <2> QED
        BY <1>7, <2>2, <2>3 DEF Deliver
<1>8. CASE Reconciled
    <2>1. PICK E \in SUBSET Changes : model' = model \cup E /\ applied' = applied \cup E
        BY <1>0, <1>8, ReleaseEffect DEF Reconciled
    <2> QED
        BY <1>0, <1>8, <2>1 DEF Reconciled, SetShape
<1>9. CASE Change
    <2>1. changes + 1 \in Changes
        BY <1>0, <1>9, RebuildAssumption DEF Change, LinkShape, Changes
    <2> QED
        BY <1>0, <1>9, <2>1 DEF Change, modelVars, SetShape
<1>10. CASE Lose
    <2>1. missed' \in SUBSET Changes
        BY <1>0, <1>10, CloseEffect, ChangesGrow DEF Lose, SetShape
    <2> QED
        BY <1>0, <1>10, <2>1 DEF Lose, modelVars, SetShape
<1>11. CASE ModelBroke
    BY <1>0, <1>11 DEF ModelBroke, linkVars, flagVars, modelVars, SetShape
<1>12. CASE Teardown
    <2>1. missed' \in SUBSET Changes
        BY <1>0, <1>12, CloseEffect, ChangesGrow DEF Teardown
    <2> QED
        BY <1>0, <1>12, <2>1 DEF Teardown, modelVars, SetShape
<1>13. CASE UNCHANGED <<model, handed, applied, missed, breaks, rebuiltAt>>
    BY <1>0, <1>13 DEF SetShape
<1>14. ASSUME Start \/ Background \/ Retry \/ (\E t \in Rebuilders : OutboxDelivered(t)) \/ (\E t
   \in Rebuilders : TraderRead(t)) \/ (\E t \in Rebuilders : VenueAnswers(t)) \/ BringUp \/
   BecomeReady \/ UNCHANGED vars
      PROVE  UNCHANGED <<model, handed, applied, missed, breaks, rebuiltAt>>
    BY <1>14 DEF Start, Background, Retry, OutboxDelivered, TraderRead, VenueAnswers, BringUp,
       BecomeReady, vars, linkVars, flagVars, modelVars
<1> QED
    BY <1>1, <1>2, <1>3, <1>4, <1>5, <1>6, <1>7, <1>8, <1>9, <1>10, <1>11, <1>12, <1>13, <1>14 DEF
       Next

LEMMA StreamStep == RebuildInv /\ [Next]_vars => StreamShape'
<1> SUFFICES ASSUME RebuildInv, [Next]_vars PROVE StreamShape'
    OBVIOUS
<1>0. LinkShape /\ StreamShape /\ RebuildShape /\ Numbered
    BY DEF RebuildInv
<1>1. CASE Attach
    BY <1>0, <1>1 DEF Attach, Begin, HoldBuffer, Running, linkVars, flagVars, modelVars,
       StreamShape
<1>2. CASE Detach
    BY <1>0, <1>2, EmptyTyped DEF Detach, Detached, StreamShape
<1>3. CASE ConnectEnds
    <2>1. UNCHANGED stream /\ (UNCHANGED <<holding, held>> \/ Detached)
        BY <1>3 DEF ConnectEnds
    <2> QED
        BY <1>0, <2>1, EmptyTyped DEF Detached, StreamShape
<1>4. CASE Start
    BY <1>0, <1>4 DEF Start, Begin, HoldBuffer, Running, linkVars, flagVars, modelVars,
       StreamShape
<1>5. CASE Background
    BY <1>0, <1>5 DEF Background, BackgroundMayBegin, Begin, HoldBuffer, Running, linkVars,
       flagVars, modelVars, StreamShape
<1>6. CASE Retry
    BY <1>0, <1>6 DEF Retry, Reload, Begin, HoldBuffer, Running, linkVars, flagVars, modelVars,
       StreamShape
<1>7. ASSUME NEW t \in Rebuilders, TraderRead(t) PROVE StreamShape'
    BY <1>0, <1>7 DEF TraderRead, HoldBuffer, linkVars, flagVars, modelVars, StreamShape
<1>8. ASSUME NEW t \in Rebuilders, VenueAnswers(t) PROVE StreamShape'
    <2>1. Snapshot(rebuild[t].id, changes) \in Message
        BY <1>0 DEF Snapshot, Message, LinkShape, RebuildShape, RebuildType
    <2>2. stream' \in Seq(Message)
        BY <1>0, <1>8, <2>1, StreamAppend DEF VenueAnswers
    <2> QED
        BY <1>0, <1>8, <2>2 DEF VenueAnswers, StreamShape
<1>9. ASSUME NEW t \in Rebuilders, Stand(t) PROVE StreamShape'
    <2>1. CASE ReleaseBuffer(1..rebuild[t].upTo)
        BY <1>0, <1>9, <2>1, ReleaseEffect, EmptyTyped DEF Stand, StreamShape
    <2>2. CASE UNCHANGED <<holding, held>>
        BY <1>0, <1>9, <2>2 DEF Stand, StreamShape
    <2> QED
        BY <1>9, <2>1, <2>2 DEF Stand
<1>10. ASSUME NEW t \in Rebuilders, ReloadEnds(t) PROVE StreamShape'
    BY <1>0, <1>10, ReleaseEffect, EmptyTyped DEF ReloadEnds, StreamShape
<1>11. ASSUME NEW t \in Rebuilders, Fails(t) PROVE StreamShape'
    BY <1>0, <1>11, ReleaseEffect, EmptyTyped DEF Fails, FailedPass, Detached, StreamShape
<1>12. CASE Deliver
    <2> DEFINE m == Head(stream)
    <2>1. m.kind = "event" => m.upTo \in Changes
        BY <1>0, <1>12, HeadTyped, ChangesGrow DEF Deliver
    <2>2. stream' \in Seq(Message)
        BY <1>0, <1>12, StreamTail DEF Deliver
    <2>3. held' \in Seq(Changes) /\ (~holding => held' = held)
        <3>1. CASE m.kind = "event" /\ DeliverEvent(m.upTo)
            BY <1>0, <2>1, <3>1 DEF DeliverEvent, StreamShape
        <3>2. CASE held' = held
            BY <1>0, <3>2 DEF StreamShape
        <3> QED
            BY <1>12, <3>1, <3>2 DEF Deliver
    <2> QED
        BY <1>0, <1>12, <2>2, <2>3 DEF Deliver, StreamShape
<1>13. CASE Reconciled
    BY <1>0, <1>13, ReleaseEffect, EmptyTyped DEF Reconciled, StreamShape
<1>14. CASE Change
    <2>1. Event(changes + 1) \in Message
        BY <1>0, <1>14, RebuildAssumption DEF Change, Event, Message, LinkShape
    <2>2. stream' \in Seq(Message)
        BY <1>0, <1>14, <2>1, StreamAppend DEF Change, StreamShape
    <2> QED
        BY <1>0, <1>14, <2>2 DEF Change, StreamShape
<1>15. CASE Lose
    <2>1. stream' \in Seq(Message)
        BY <1>0, <1>15, EmptyTyped DEF Lose, CloseSocket, StreamShape
    <2> QED
        BY <1>0, <1>15, <2>1 DEF Lose, StreamShape
<1>16. CASE Teardown
    BY <1>0, <1>16, EmptyTyped DEF Teardown, CloseSocket, StreamShape
<1>17. CASE BringUp
    <2>1. UNCHANGED stream /\ held' = held /\ (UNCHANGED holding \/ holding' = TRUE)
        BY <1>17 DEF BringUp, Reload, HoldBuffer
    <2> QED
        BY <1>0, <2>1 DEF StreamShape
<1>18. CASE UNCHANGED <<stream, held, holding>>
    BY <1>0, <1>18 DEF StreamShape
<1>19. ASSUME (\E t \in Rebuilders : OutboxDelivered(t)) \/ ModelBroke \/ BecomeReady \/ UNCHANGED
   vars
      PROVE  UNCHANGED <<stream, held, holding>>
    BY <1>19 DEF OutboxDelivered, ModelBroke, BecomeReady, vars, linkVars, flagVars, modelVars
<1> QED
    BY <1>1, <1>2, <1>3, <1>4, <1>5, <1>6, <1>7, <1>8, <1>9, <1>10, <1>11, <1>12, <1>13, <1>14,
       <1>15, <1>16, <1>17, <1>18, <1>19 DEF Next

LEMMA RebuildStep == RebuildInv /\ [Next]_vars => RebuildShape'
<1> SUFFICES ASSUME RebuildInv, [Next]_vars PROVE RebuildShape'
    OBVIOUS
<1>0. LinkShape /\ FlagShape /\ SetShape /\ StreamShape /\ RebuildShape /\ Numbered
    BY DEF RebuildInv
<1>1. CASE Attach
    BY <1>0, <1>1, BeginEffect DEF Attach, FlagShape, RebuildShape, Rebuilders, Steps
<1>2. CASE ConnectEnds
    BY <1>0, <1>2, EndsEffect DEF ConnectEnds, RebuildShape, Rebuilders
<1>3. CASE Start
    BY <1>0, <1>3, BeginEffect DEF Start, FlagShape, RebuildShape, Rebuilders, Steps
<1>4. CASE Background
    BY <1>0, <1>4, BeginEffect DEF Background, FlagShape, RebuildShape, Rebuilders, Steps
<1>5. CASE Retry
    BY <1>0, <1>5, ReloadEffect DEF Retry, RebuildShape, Rebuilders
<1>6. ASSUME NEW t \in Rebuilders, OutboxDelivered(t) PROVE RebuildShape'
    BY <1>0, <1>6, EndsEffect, GotoEffect DEF OutboxDelivered, RebuildShape, Steps
<1>7. ASSUME NEW t \in Rebuilders, TraderRead(t) PROVE RebuildShape'
    BY <1>0, <1>7, ReadEffect DEF TraderRead, RebuildShape
<1>8. ASSUME NEW t \in Rebuilders, VenueAnswers(t) PROVE RebuildShape'
    BY <1>0, <1>8, GotoEffect DEF VenueAnswers, RebuildShape, Steps
<1>9. ASSUME NEW t \in Rebuilders, Stand(t) PROVE RebuildShape'
    BY <1>0, <1>9, EndsEffect, GotoEffect DEF Stand, RebuildShape, Steps
<1>10. ASSUME NEW t \in Rebuilders, ReloadEnds(t) PROVE RebuildShape'
    BY <1>0, <1>10, EndsEffect DEF ReloadEnds, RebuildShape
<1>11. ASSUME NEW t \in Rebuilders, Fails(t) PROVE RebuildShape'
    BY <1>0, <1>11, EndsEffect DEF Fails, RebuildShape
<1>12. CASE Deliver
    BY <1>0, <1>12, HeadTyped, SnapshotEffect DEF Deliver, RebuildShape
<1>13. CASE BringUp
    BY <1>0, <1>13, ReloadEffect DEF BringUp, RebuildShape, Rebuilders
<1>14. CASE UNCHANGED <<rebuild>>
    BY <1>0, <1>14 DEF RebuildShape
<1>15. ASSUME Detach \/ Reconciled \/ Change \/ Lose \/ ModelBroke \/ Teardown \/ BecomeReady \/
   UNCHANGED vars
      PROVE  UNCHANGED <<rebuild>>
    BY <1>15 DEF Detach, Reconciled, Change, Lose, ModelBroke, Teardown, BecomeReady, vars,
       linkVars, flagVars, modelVars
<1> QED
    BY <1>1, <1>2, <1>3, <1>4, <1>5, <1>6, <1>7, <1>8, <1>9, <1>10, <1>11, <1>12, <1>13, <1>14,
       <1>15 DEF Next

-----------------------------------------------------------------------------
(* The numbers *)

LEMMA StreamNumberedStep == RebuildInv /\ [Next]_vars => StreamNumbered'
<1> SUFFICES ASSUME RebuildInv, [Next]_vars PROVE StreamNumbered'
    OBVIOUS
<1>0. LinkShape /\ FlagShape /\ SetShape /\ StreamShape /\ RebuildShape /\ Numbered
    BY DEF RebuildInv
<1>1. CASE Attach
    <2>1. UNCHANGED <<stream, changes>> /\ begun <= begun' /\ begun' \in Nat
        BY <1>0, <1>1 DEF Attach, Begin, LinkShape
    <2>2. \A i \in 1..Len(stream) : stream[i].id \in Nat
        BY <1>0, MessageTyped DEF StreamShape
    <2> QED
        BY <1>0, <2>1, <2>2, RebuildAssumption DEF StreamNumbered, LinkShape, Numbered
<1>2. CASE Start
    <2>1. UNCHANGED <<stream, changes>> /\ begun <= begun' /\ begun' \in Nat
        BY <1>0, <1>2 DEF Start, Begin, LinkShape
    <2>2. \A i \in 1..Len(stream) : stream[i].id \in Nat
        BY <1>0, MessageTyped DEF StreamShape
    <2> QED
        BY <1>0, <2>1, <2>2, RebuildAssumption DEF StreamNumbered, LinkShape, Numbered
<1>3. CASE Background
    <2>1. UNCHANGED <<stream, changes>> /\ begun <= begun' /\ begun' \in Nat
        BY <1>0, <1>3 DEF Background, Begin, LinkShape
    <2>2. \A i \in 1..Len(stream) : stream[i].id \in Nat
        BY <1>0, MessageTyped DEF StreamShape
    <2> QED
        BY <1>0, <2>1, <2>2, RebuildAssumption DEF StreamNumbered, LinkShape, Numbered
<1>4. CASE Retry
    <2>1. UNCHANGED <<stream, changes>> /\ begun <= begun' /\ begun' \in Nat
        BY <1>0, <1>4 DEF Retry, Reload, Begin, LinkShape
    <2>2. \A i \in 1..Len(stream) : stream[i].id \in Nat
        BY <1>0, MessageTyped DEF StreamShape
    <2> QED
        BY <1>0, <2>1, <2>2, RebuildAssumption DEF StreamNumbered, LinkShape, Numbered
<1>5. ASSUME NEW t \in Rebuilders, VenueAnswers(t) PROVE StreamNumbered'
    <2> DEFINE m == Snapshot(rebuild[t].id, changes)
    <2>1. m \in Message /\ m.kind = "snapshot" /\ m.id <= begun
        BY <1>0 DEF Snapshot, Message, LinkShape, RebuildShape, RebuildType, Numbered, RebuildsNumbered
    <2>2. stream' = Append(stream, m) /\ UNCHANGED <<changes, begun>>
        BY <1>5 DEF VenueAnswers
    <2> HIDE DEF m
    <2> QED
        BY <1>0, <2>1, <2>2, StreamAppend DEF StreamNumbered, Numbered
<1>6. CASE Deliver
    <2>1. stream # <<>> /\ stream' = Tail(stream) /\ UNCHANGED <<changes, begun>>
        BY <1>6 DEF Deliver
    <2> QED
        BY <1>0, <2>1, StreamTail DEF StreamNumbered, Numbered
<1>7. CASE Change
    <2> DEFINE m == Event(changes + 1)
    <2>1. /\ m \in Message /\ m.upTo = changes + 1 /\ m.id <= begun
          /\ changes' = changes + 1 /\ changes \in Nat /\ begun' = begun
        BY <1>0, <1>7, RebuildAssumption DEF Event, Message, Change, LinkShape
    <2>2. stream' = Append(stream, m) \/ stream' = stream
        BY <1>7 DEF Change
    <2> HIDE DEF m
    <2>3. \A i \in 1..Len(stream) : /\ stream[i].kind = "event" => stream[i].upTo \in 1..(changes + 1)
                                    /\ stream[i].id <= begun
        BY <1>0, <2>1, Growing DEF StreamNumbered, Numbered
    <2>4. m.upTo \in 1..(changes + 1)
        BY <2>1
    <2>5. CASE stream' = stream
        BY <2>1, <2>3, <2>5 DEF StreamNumbered
    <2>6. CASE stream' = Append(stream, m)
        <3>1. ASSUME NEW i \in 1..Len(stream')
              PROVE  stream'[i] = m \/ (i \in 1..Len(stream) /\ stream'[i] = stream[i])
            BY <1>0, <2>1, <2>6, StreamAppend
        <3> QED
            BY <2>1, <2>3, <2>4, <3>1 DEF StreamNumbered
    <2> QED
        BY <2>2, <2>5, <2>6
<1>8. CASE Lose
    <2>1. UNCHANGED <<changes, begun>> /\ (stream' = stream \/ Len(stream') = 0)
        BY <1>0, <1>8, CloseEffect DEF Lose
    <2> QED
        BY <1>0, <2>1 DEF StreamNumbered, Numbered
<1>9. CASE Teardown
    <2>1. UNCHANGED <<changes, begun>> /\ Len(stream') = 0
        BY <1>0, <1>9, CloseEffect DEF Teardown
    <2> QED
        BY <2>1 DEF StreamNumbered
<1>10. CASE BringUp
    <2>1. UNCHANGED <<stream, changes>> /\ begun <= begun' /\ begun' \in Nat
        BY <1>0, <1>10 DEF BringUp, Reload, Begin, LinkShape
    <2>2. \A i \in 1..Len(stream) : stream[i].id \in Nat
        BY <1>0, MessageTyped DEF StreamShape
    <2> QED
        BY <1>0, <2>1, <2>2, RebuildAssumption DEF StreamNumbered, LinkShape, Numbered
<1>11. CASE UNCHANGED <<stream, changes, begun>>
    BY <1>0, <1>11 DEF StreamNumbered, Numbered
<1>12. ASSUME Detach \/ ConnectEnds \/ (\E t \in Rebuilders : OutboxDelivered(t)) \/ (\E t \in
   Rebuilders : TraderRead(t)) \/ (\E t \in Rebuilders : Stand(t)) \/ (\E t \in Rebuilders :
   ReloadEnds(t)) \/ (\E t \in Rebuilders : Fails(t)) \/ Reconciled \/ ModelBroke \/ BecomeReady
   \/ UNCHANGED vars
      PROVE  UNCHANGED <<stream, changes, begun>>
    BY <1>12 DEF Detach, ConnectEnds, OutboxDelivered, TraderRead, Stand, ReloadEnds, Fails,
       Reconciled, ModelBroke, BecomeReady, vars, linkVars, flagVars, modelVars
<1> QED
    BY <1>1, <1>2, <1>3, <1>4, <1>5, <1>6, <1>7, <1>8, <1>9, <1>10, <1>11, <1>12 DEF Next

LEMMA EventsNumberedStep == RebuildInv /\ [Next]_vars => EventsNumbered'
<1> SUFFICES ASSUME RebuildInv, [Next]_vars PROVE EventsNumbered'
    OBVIOUS
<1>0. LinkShape /\ FlagShape /\ SetShape /\ StreamShape /\ RebuildShape /\ Numbered
    BY DEF RebuildInv
<1>1. CASE Attach
    BY <1>0, <1>1 DEF Attach, HoldBuffer, EventsNumbered, Numbered
<1>2. CASE Detach
    BY <1>0, <1>2, ToSetOfEmpty DEF Detach, Detached, EventsNumbered, Numbered
<1>3. CASE ConnectEnds
    BY <1>0, <1>3, ToSetOfEmpty DEF ConnectEnds, Detached, EventsNumbered, Numbered
<1>4. CASE Start
    BY <1>0, <1>4 DEF Start, HoldBuffer, EventsNumbered, Numbered
<1>5. CASE Background
    BY <1>0, <1>5 DEF Background, HoldBuffer, EventsNumbered, Numbered
<1>6. CASE Retry
    BY <1>0, <1>6 DEF Retry, Reload, HoldBuffer, EventsNumbered, Numbered
<1>7. ASSUME NEW t \in Rebuilders, TraderRead(t) PROVE EventsNumbered'
    BY <1>0, <1>7 DEF TraderRead, HoldBuffer, EventsNumbered, Numbered
<1>8. ASSUME NEW t \in Rebuilders, Stand(t) PROVE EventsNumbered'
    <2>1. UNCHANGED <<changes, missed>>
        BY <1>8 DEF Stand, linkVars
    <2>2. CASE ReleaseBuffer(1..rebuild[t].upTo)
        <3>1. /\ held' = <<>>
              /\ \E E \in SUBSET Changes : E \subseteq ToSet(held) /\ applied' = applied \cup E
            BY <1>0, <2>2, ReleaseEffect
        <3> QED
            BY <1>0, <2>1, <3>1, ToSetOfEmpty DEF EventsNumbered, Numbered
    <2>3. CASE UNCHANGED <<held, applied>>
        BY <1>0, <2>1, <2>3 DEF EventsNumbered, Numbered
    <2> QED
        BY <1>8, <2>2, <2>3 DEF Stand
<1>9. ASSUME NEW t \in Rebuilders, ReloadEnds(t) PROVE EventsNumbered'
    <2>1. UNCHANGED <<changes, missed>>
        BY <1>9 DEF ReloadEnds, linkVars
    <2>2. /\ held' = <<>>
          /\ \E E \in SUBSET Changes : E \subseteq ToSet(held) /\ applied' = applied \cup E
        BY <1>0, <1>9, ReleaseEffect DEF ReloadEnds
    <2> QED
        BY <1>0, <2>1, <2>2, ToSetOfEmpty DEF EventsNumbered, Numbered
<1>10. ASSUME NEW t \in Rebuilders, Fails(t) PROVE EventsNumbered'
    <2>1. UNCHANGED <<changes, missed>>
        BY <1>10 DEF Fails, linkVars
    <2>2. /\ held' = <<>>
          /\ \E E \in SUBSET Changes : E \subseteq ToSet(held) /\ applied' = applied \cup E
        <3>1. CASE Detached /\ UNCHANGED applied
            BY <3>1 DEF Detached
        <3>2. CASE FailedPass(t)
            BY <1>0, <3>2, ReleaseEffect DEF FailedPass
        <3> QED
            BY <1>10, <3>1, <3>2 DEF Fails
    <2> QED
        BY <1>0, <2>1, <2>2, ToSetOfEmpty DEF EventsNumbered, Numbered
<1>11. CASE Deliver
    <2> DEFINE m == Head(stream)
    <2>1. changes' = changes /\ (m.kind = "event" => m.upTo \in 1..changes /\ m.upTo \in Changes)
        BY <1>0, <1>11, HeadTyped, ChangesGrow DEF Deliver
    <2>2. CASE m.kind = "event" /\ DeliverEvent(m.upTo)
        <3>1. ToSet(Append(held, m.upTo)) = ToSet(held) \cup {m.upTo}
            BY <1>0, <2>1, <2>2, ToSetOfAppend DEF StreamShape
        <3> QED
            BY <1>0, <2>1, <2>2, <3>1 DEF DeliverEvent, EventsNumbered, Numbered
    <2>3. CASE UNCHANGED <<held, handed, model, applied, missed>>
        BY <1>0, <2>1, <2>3 DEF EventsNumbered, Numbered
    <2> QED
        BY <1>11, <2>2, <2>3 DEF Deliver
<1>12. CASE Reconciled
    <2>1. UNCHANGED <<changes, missed>>
        BY <1>12 DEF Reconciled, linkVars
    <2>2. /\ held' = <<>>
          /\ \E E \in SUBSET Changes : E \subseteq ToSet(held) /\ applied' = applied \cup E
        BY <1>0, <1>12, ReleaseEffect DEF Reconciled
    <2> QED
        BY <1>0, <2>1, <2>2, ToSetOfEmpty DEF EventsNumbered, Numbered
<1>13. CASE Change
    <2>1. /\ changes' = changes + 1 /\ UNCHANGED <<held, applied>>
          /\ missed' \subseteq missed \cup {changes + 1}
        BY <1>13 DEF Change
    <2> QED
        BY <1>0, <2>1, ChangesGrow, Growing DEF EventsNumbered, Numbered
<1>14. CASE Lose
    <2>1. UNCHANGED <<changes, held, applied>> /\ (missed' = missed \/ missed' \subseteq 1..changes)
        BY <1>0, <1>14, CloseEffect DEF Lose
    <2> QED
        BY <1>0, <2>1 DEF EventsNumbered, Numbered
<1>15. CASE Teardown
    BY <1>0, <1>15, CloseEffect DEF Teardown, EventsNumbered, Numbered
<1>16. CASE BringUp
    BY <1>0, <1>16 DEF BringUp, Reload, HoldBuffer, EventsNumbered, Numbered
<1>17. CASE UNCHANGED <<missed, applied, held, changes>>
    BY <1>0, <1>17 DEF EventsNumbered, Numbered
<1>18. ASSUME (\E t \in Rebuilders : OutboxDelivered(t)) \/ (\E t \in Rebuilders :
   VenueAnswers(t)) \/ ModelBroke \/ BecomeReady \/ UNCHANGED vars
      PROVE  UNCHANGED <<missed, applied, held, changes>>
    BY <1>18 DEF OutboxDelivered, VenueAnswers, ModelBroke, BecomeReady, vars, linkVars, flagVars,
       modelVars
<1> QED
    BY <1>1, <1>2, <1>3, <1>4, <1>5, <1>6, <1>7, <1>8, <1>9, <1>10, <1>11, <1>12, <1>13, <1>14,
       <1>15, <1>16, <1>17, <1>18 DEF Next

LEMMA RebuildsNumberedStep == RebuildInv /\ [Next]_vars => RebuildsNumbered'
<1> SUFFICES ASSUME RebuildInv, [Next]_vars PROVE RebuildsNumbered'
    OBVIOUS
<1>0. LinkShape /\ FlagShape /\ SetShape /\ StreamShape /\ RebuildShape /\ Numbered
    BY DEF RebuildInv
<1>1. CASE Attach
    <2>1. UNCHANGED <<breaks, rebuiltAt>> /\ begun \in Nat /\ begun' \in Nat /\ breaks \in Nat
        BY <1>0, <1>1, RebuildAssumption DEF Attach, Begin, LinkShape, SetShape
    <2>2. /\ begun <= begun'
          /\ \A u \in Rebuilders : /\ rebuild'[u].breaks \in {rebuild[u].breaks, breaks}
                                   /\ rebuild'[u].id \in {rebuild[u].id, begun'}
        BY <1>0, <2>1, <1>1, BeginEffect DEF Attach, FlagShape, LinkShape, Rebuilders, Steps
    <2> QED
        BY <1>0, <2>1, <2>2 DEF RebuildsNumbered, Numbered, RebuildShape, RebuildType
<1>2. CASE Detach
    BY <1>0, <1>2 DEF Detach, Detached, RebuildsNumbered, Numbered, SetShape, RebuildShape, RebuildType
<1>3. CASE ConnectEnds
    <2>1. UNCHANGED <<rebuiltAt, begun>> /\ breaks <= breaks' /\ breaks' \in Nat
        BY <1>0, <1>3 DEF ConnectEnds, Detached, modelVars, SetShape
    <2>2. \A u \in Rebuilders : /\ rebuild'[u].breaks \in {rebuild[u].breaks, 0, breaks}
                                /\ rebuild'[u].id \in {rebuild[u].id, 0}
        BY <1>0, <1>3, EndsEffect DEF ConnectEnds, Steps, Rebuilders
    <2> QED
        BY <1>0, <2>1, <2>2, RebuildAssumption
           DEF RebuildsNumbered, Numbered, RebuildShape, RebuildType, SetShape, LinkShape
<1>4. CASE Start
    <2>1. UNCHANGED <<breaks, rebuiltAt>> /\ begun \in Nat /\ begun' \in Nat /\ breaks \in Nat
        BY <1>0, <1>4, RebuildAssumption DEF Start, Begin, LinkShape, SetShape
    <2>2. /\ begun <= begun'
          /\ \A u \in Rebuilders : /\ rebuild'[u].breaks \in {rebuild[u].breaks, breaks}
                                   /\ rebuild'[u].id \in {rebuild[u].id, begun'}
        BY <1>0, <2>1, <1>4, BeginEffect DEF Start, FlagShape, LinkShape, Rebuilders, Steps
    <2> QED
        BY <1>0, <2>1, <2>2 DEF RebuildsNumbered, Numbered, RebuildShape, RebuildType
<1>5. CASE Background
    <2>1. UNCHANGED <<breaks, rebuiltAt>> /\ begun \in Nat /\ begun' \in Nat /\ breaks \in Nat
        BY <1>0, <1>5, RebuildAssumption DEF Background, Begin, LinkShape, SetShape
    <2>2. /\ begun <= begun'
          /\ \A u \in Rebuilders : /\ rebuild'[u].breaks \in {rebuild[u].breaks, breaks}
                                   /\ rebuild'[u].id \in {rebuild[u].id, begun'}
        BY <1>0, <2>1, <1>5, BeginEffect DEF Background, FlagShape, LinkShape, Rebuilders, Steps
    <2> QED
        BY <1>0, <2>1, <2>2 DEF RebuildsNumbered, Numbered, RebuildShape, RebuildType
<1>6. CASE Retry
    <2>1. UNCHANGED <<breaks, rebuiltAt>> /\ begun \in Nat /\ begun' \in Nat /\ breaks \in Nat
        BY <1>0, <1>6, RebuildAssumption DEF Retry, Reload, Begin, LinkShape, SetShape
    <2>2. /\ begun <= begun'
          /\ \A u \in Rebuilders : /\ rebuild'[u].breaks \in {rebuild[u].breaks, breaks}
                                   /\ rebuild'[u].id \in {rebuild[u].id, begun'}
        <3>1. CASE Reload("retry")
            BY <1>0, <2>1, <3>1, ReloadEffect DEF LinkShape, Rebuilders
        <3>2. CASE UNCHANGED <<rebuild, begun>>
            BY <2>1, <3>2
        <3> QED
            BY <1>6, <3>1, <3>2 DEF Retry
    <2> QED
        BY <1>0, <2>1, <2>2 DEF RebuildsNumbered, Numbered, RebuildShape, RebuildType
<1>7. ASSUME NEW t \in Rebuilders, OutboxDelivered(t) PROVE RebuildsNumbered'
    <2>1. UNCHANGED <<rebuiltAt, begun>> /\ breaks <= breaks' /\ breaks' \in Nat
        BY <1>0, <1>7 DEF OutboxDelivered, modelVars, SetShape
    <2>2. \A u \in Rebuilders : /\ rebuild'[u].breaks \in {rebuild[u].breaks, 0, breaks}
                                /\ rebuild'[u].id \in {rebuild[u].id, 0}
        BY <1>0, <1>7, EndsEffect, GotoEffect DEF OutboxDelivered, Steps, Rebuilders
    <2> QED
        BY <1>0, <2>1, <2>2, RebuildAssumption
           DEF RebuildsNumbered, Numbered, RebuildShape, RebuildType, SetShape, LinkShape
<1>8. ASSUME NEW t \in Rebuilders, TraderRead(t) PROVE RebuildsNumbered'
    <2>1. UNCHANGED <<rebuiltAt, begun>> /\ breaks <= breaks' /\ breaks' \in Nat
        BY <1>0, <1>8 DEF TraderRead, modelVars, SetShape
    <2>2. \A u \in Rebuilders : /\ rebuild'[u].breaks \in {rebuild[u].breaks, 0, breaks}
                                /\ rebuild'[u].id \in {rebuild[u].id, 0}
        BY <1>0, <1>8, ReadEffect DEF TraderRead, Steps, Rebuilders
    <2> QED
        BY <1>0, <2>1, <2>2, RebuildAssumption
           DEF RebuildsNumbered, Numbered, RebuildShape, RebuildType, SetShape, LinkShape
<1>9. ASSUME NEW t \in Rebuilders, VenueAnswers(t) PROVE RebuildsNumbered'
    <2>1. UNCHANGED <<rebuiltAt, begun>> /\ breaks <= breaks' /\ breaks' \in Nat
        BY <1>0, <1>9 DEF VenueAnswers, modelVars, SetShape
    <2>2. \A u \in Rebuilders : /\ rebuild'[u].breaks \in {rebuild[u].breaks, 0, breaks}
                                /\ rebuild'[u].id \in {rebuild[u].id, 0}
        BY <1>0, <1>9, GotoEffect DEF VenueAnswers, Steps, Rebuilders
    <2> QED
        BY <1>0, <2>1, <2>2, RebuildAssumption
           DEF RebuildsNumbered, Numbered, RebuildShape, RebuildType, SetShape, LinkShape
<1>10. ASSUME NEW t \in Rebuilders, Stand(t) PROVE RebuildsNumbered'
    <2>1. rebuiltAt' = rebuild[t].breaks /\ UNCHANGED <<breaks, begun>>
        BY <1>10 DEF Stand, BreaksOfRead
    <2>2. \A u \in Rebuilders : rebuild'[u].breaks \in {rebuild[u].breaks, 0}
                                /\ rebuild'[u].id \in {rebuild[u].id, 0}
        BY <1>0, <1>10, EndsEffect, GotoEffect DEF Stand, Steps
    <2> QED
        BY <1>0, <2>1, <2>2, RebuildAssumption
           DEF RebuildsNumbered, Numbered, RebuildShape, RebuildType, SetShape, LinkShape
<1>11. ASSUME NEW t \in Rebuilders, ReloadEnds(t) PROVE RebuildsNumbered'
    <2>1. UNCHANGED <<rebuiltAt, begun>> /\ breaks <= breaks' /\ breaks' \in Nat
        BY <1>0, <1>11 DEF ReloadEnds, modelVars, SetShape
    <2>2. \A u \in Rebuilders : /\ rebuild'[u].breaks \in {rebuild[u].breaks, 0, breaks}
                                /\ rebuild'[u].id \in {rebuild[u].id, 0}
        BY <1>0, <1>11, EndsEffect DEF ReloadEnds, Steps, Rebuilders
    <2> QED
        BY <1>0, <2>1, <2>2, RebuildAssumption
           DEF RebuildsNumbered, Numbered, RebuildShape, RebuildType, SetShape, LinkShape
<1>12. ASSUME NEW t \in Rebuilders, Fails(t) PROVE RebuildsNumbered'
    <2>1. UNCHANGED <<rebuiltAt, begun>> /\ breaks <= breaks' /\ breaks' \in Nat
        <3>1. UNCHANGED <<rebuiltAt, begun>> /\ (Detached \/ FailedPass(t))
            BY <1>12 DEF Fails
        <3>2. breaks' = breaks \/ breaks' = breaks + 1
            BY <3>1 DEF Detached, FailedPass
        <3> QED
            BY <1>0, <3>1, <3>2 DEF SetShape
    <2>2. \A u \in Rebuilders : /\ rebuild'[u].breaks \in {rebuild[u].breaks, 0, breaks}
                                /\ rebuild'[u].id \in {rebuild[u].id, 0}
        BY <1>0, <1>12, EndsEffect DEF Fails, Steps, Rebuilders
    <2> QED
        BY <1>0, <2>1, <2>2, RebuildAssumption
           DEF RebuildsNumbered, Numbered, RebuildShape, RebuildType, SetShape, LinkShape
<1>13. CASE Deliver
    <2>1. UNCHANGED <<rebuiltAt, begun>> /\ breaks <= breaks' /\ breaks' \in Nat
        <3>1. UNCHANGED <<rebuiltAt, begun, breaks>>
            BY <1>13 DEF Deliver
        <3> QED
            BY <1>0, <3>1 DEF SetShape
    <2>2. \A u \in Rebuilders : /\ rebuild'[u].breaks \in {rebuild[u].breaks, 0, breaks}
                                /\ rebuild'[u].id \in {rebuild[u].id, 0}
        BY <1>0, <1>13, HeadTyped, SnapshotEffect DEF Deliver, Steps, Rebuilders
    <2> QED
        BY <1>0, <2>1, <2>2, RebuildAssumption
           DEF RebuildsNumbered, Numbered, RebuildShape, RebuildType, SetShape, LinkShape
<1>14. CASE ModelBroke
    BY <1>0, <1>14 DEF ModelBroke, RebuildsNumbered, Numbered, SetShape, RebuildShape, RebuildType
<1>15. CASE BringUp
    <2>1. UNCHANGED <<breaks, rebuiltAt>> /\ begun \in Nat /\ begun' \in Nat /\ breaks \in Nat
        BY <1>0, <1>15, RebuildAssumption DEF BringUp, Reload, Begin, LinkShape, SetShape
    <2>2. /\ begun <= begun'
          /\ \A u \in Rebuilders : /\ rebuild'[u].breaks \in {rebuild[u].breaks, breaks}
                                   /\ rebuild'[u].id \in {rebuild[u].id, begun'}
        <3>1. CASE Reload("reload")
            BY <1>0, <2>1, <3>1, ReloadEffect DEF LinkShape, Rebuilders
        <3>2. CASE UNCHANGED <<rebuild, begun>>
            BY <2>1, <3>2
        <3> QED
            BY <1>15, <3>1, <3>2 DEF BringUp
    <2> QED
        BY <1>0, <2>1, <2>2 DEF RebuildsNumbered, Numbered, RebuildShape, RebuildType
<1>16. CASE UNCHANGED <<rebuiltAt, breaks, rebuild, begun>>
    BY <1>0, <1>16 DEF RebuildsNumbered, Numbered
<1>17. ASSUME Reconciled \/ Change \/ Lose \/ Teardown \/ BecomeReady \/ UNCHANGED vars
      PROVE  UNCHANGED <<rebuiltAt, breaks, rebuild, begun>>
    BY <1>17 DEF Reconciled, Change, Lose, Teardown, BecomeReady, vars, linkVars, flagVars,
       modelVars
<1> QED
    BY <1>1, <1>2, <1>3, <1>4, <1>5, <1>6, <1>7, <1>8, <1>9, <1>10, <1>11, <1>12, <1>13, <1>14,
       <1>15, <1>16, <1>17 DEF Next

-----------------------------------------------------------------------------
(* The events handed to the client *)

LEMMA DeafStep == RebuildInv /\ [Next]_vars => DetachedIsDeaf'
<1> SUFFICES ASSUME RebuildInv, [Next]_vars PROVE DetachedIsDeaf'
    OBVIOUS
<1>0. FlagShape /\ DetachedIsDeaf
    BY DEF RebuildInv
<1>1. CASE Attach
    BY <1>0, <1>1 DEF Attach, Begin, HoldBuffer, Running, linkVars, flagVars, modelVars,
       DetachedIsDeaf
<1>2. CASE Detach
    BY <1>0, <1>2 DEF Detach, Detached, linkVars, flagVars, modelVars, DetachedIsDeaf
<1>3. CASE ConnectEnds
    BY <1>0, <1>3 DEF ConnectEnds, Ends, Detached, linkVars, flagVars, modelVars, DetachedIsDeaf
<1>4. ASSUME NEW t \in Rebuilders, Fails(t) PROVE DetachedIsDeaf'
    <2>1. CASE Detached
        BY <2>1 DEF Detached, DetachedIsDeaf
    <2>2. CASE FailedPass(t)
        BY <1>0, <2>2 DEF FailedPass, DetachedIsDeaf
    <2> QED
        BY <1>4, <2>1, <2>2 DEF Fails
<1>5. CASE Deliver
    BY <1>0, <1>5 DEF Deliver, DeliverEvent, flagVars, DetachedIsDeaf
<1>6. CASE UNCHANGED <<attached, handed, restorable>>
    BY <1>0, <1>6 DEF DetachedIsDeaf
<1>7. ASSUME Start \/ Background \/ Retry \/ (\E t \in Rebuilders : OutboxDelivered(t)) \/ (\E t
   \in Rebuilders : TraderRead(t)) \/ (\E t \in Rebuilders : VenueAnswers(t)) \/ (\E t \in
   Rebuilders : Stand(t)) \/ (\E t \in Rebuilders : ReloadEnds(t)) \/ Reconciled \/ Change \/ Lose
   \/ ModelBroke \/ Teardown \/ BringUp \/ BecomeReady \/ UNCHANGED vars
      PROVE  UNCHANGED <<attached, handed, restorable>>
    BY <1>7 DEF Start, Background, Retry, OutboxDelivered, TraderRead, VenueAnswers, Stand,
       ReloadEnds, Reconciled, Change, Lose, ModelBroke, Teardown, BringUp, BecomeReady, vars,
       linkVars, flagVars, modelVars
<1> QED
    BY <1>1, <1>2, <1>3, <1>4, <1>5, <1>6, <1>7 DEF Next

LEMMA HandedStep == RebuildInv /\ [Next]_vars => HandedIsKept'
<1> SUFFICES ASSUME RebuildInv, [Next]_vars PROVE HandedIsKept'
    OBVIOUS
<1>0. LinkShape /\ FlagShape /\ SetShape /\ StreamShape /\ RebuildShape /\ Numbered /\
   DetachedIsDeaf /\ HandedIsKept
    BY DEF RebuildInv
<1>1. CASE Attach
    BY <1>0, <1>1 DEF Attach, HoldBuffer, HandedIsKept
<1>2. CASE Detach
    BY <1>2 DEF Detach, Detached, HandedIsKept
<1>3. CASE ConnectEnds
    BY <1>0, <1>3 DEF ConnectEnds, Detached, HandedIsKept
<1>4. CASE Start
    BY <1>0, <1>4 DEF Start, HoldBuffer, HandedIsKept
<1>5. CASE Background
    BY <1>0, <1>5 DEF Background, HoldBuffer, HandedIsKept
<1>6. CASE Retry
    BY <1>0, <1>6 DEF Retry, Reload, HoldBuffer, HandedIsKept
<1>7. ASSUME NEW t \in Rebuilders, TraderRead(t) PROVE HandedIsKept'
    BY <1>0, <1>7 DEF TraderRead, HoldBuffer, HandedIsKept
<1>8. ASSUME NEW t \in Rebuilders, Stand(t) PROVE HandedIsKept'
    <2>1. CASE ReleaseBuffer(1..rebuild[t].upTo)
        <3>1. held' = <<>> /\ handed' = handed
            BY <1>0, <1>8, <2>1, ReleaseEffect DEF Stand
        <3>2. (attached => applied' = applied \cup ToSet(held)) /\ applied \subseteq applied'
            BY <1>0, <2>1, ReleaseEffect
        <3> QED
            BY <1>0, <3>1, <3>2, ToSetOfEmpty DEF HandedIsKept, DetachedIsDeaf
    <2>2. CASE UNCHANGED <<held, applied>>
        BY <1>0, <1>8, <2>2 DEF Stand, HandedIsKept
    <2> QED
        BY <1>8, <2>1, <2>2 DEF Stand
<1>9. ASSUME NEW t \in Rebuilders, ReloadEnds(t) PROVE HandedIsKept'
    <2>1. held' = <<>> /\ handed' = handed
        BY <1>0, <1>9, ReleaseEffect DEF ReloadEnds
    <2>2. attached => applied' = applied \cup ToSet(held)
        BY <1>0, <1>9, ReleaseEffect DEF ReloadEnds
    <2>3. applied \subseteq applied'
        BY <1>0, <1>9, ReleaseEffect DEF ReloadEnds
    <2> QED
        BY <1>0, <2>1, <2>2, <2>3, ToSetOfEmpty DEF HandedIsKept, DetachedIsDeaf
<1>10. ASSUME NEW t \in Rebuilders, Fails(t) PROVE HandedIsKept'
    <2>1. CASE Detached
        BY <2>1 DEF Detached, HandedIsKept
    <2>2. CASE FailedPass(t)
        <3>1. held' = <<>> /\ handed' = handed
            BY <1>0, <2>2, ReleaseEffect DEF FailedPass
        <3>2. (attached => applied' = applied \cup ToSet(held)) /\ applied \subseteq applied'
            BY <1>0, <2>2, ReleaseEffect DEF FailedPass
        <3> QED
            BY <1>0, <3>1, <3>2, ToSetOfEmpty DEF HandedIsKept, DetachedIsDeaf
    <2> QED
        BY <1>10, <2>1, <2>2 DEF Fails
<1>11. CASE Deliver
    <2> DEFINE m == Head(stream)
    <2>1. m.kind = "event" => m.upTo \in Changes
        BY <1>0, <1>11, HeadTyped, ChangesGrow DEF Deliver
    <2>2. CASE m.kind = "event" /\ DeliverEvent(m.upTo)
        <3>1. ToSet(Append(held, m.upTo)) = ToSet(held) \cup {m.upTo}
            BY <1>0, <2>1, <2>2, ToSetOfAppend DEF StreamShape
        <3> QED
            BY <1>0, <2>2, <3>1 DEF DeliverEvent, HandedIsKept
    <2>3. CASE UNCHANGED <<held, handed, model, applied, missed>>
        BY <1>0, <2>3 DEF HandedIsKept
    <2> QED
        BY <1>11, <2>2, <2>3 DEF Deliver
<1>12. CASE Reconciled
    <2>1. held' = <<>> /\ handed' = handed
        BY <1>0, <1>12, ReleaseEffect DEF Reconciled
    <2>2. attached => applied' = applied \cup ToSet(held)
        BY <1>0, <1>12, ReleaseEffect DEF Reconciled
    <2>3. applied \subseteq applied'
        BY <1>0, <1>12, ReleaseEffect DEF Reconciled
    <2> QED
        BY <1>0, <2>1, <2>2, <2>3, ToSetOfEmpty DEF HandedIsKept, DetachedIsDeaf
<1>13. CASE BringUp
    BY <1>0, <1>13 DEF BringUp, Reload, HoldBuffer, HandedIsKept
<1>14. CASE UNCHANGED <<handed, applied, held>>
    BY <1>0, <1>14 DEF HandedIsKept
<1>15. ASSUME (\E t \in Rebuilders : OutboxDelivered(t)) \/ (\E t \in Rebuilders :
   VenueAnswers(t)) \/ Change \/ Lose \/ ModelBroke \/ Teardown \/ BecomeReady \/ UNCHANGED vars
      PROVE  UNCHANGED <<handed, applied, held>>
    BY <1>15 DEF OutboxDelivered, VenueAnswers, Change, Lose, ModelBroke, Teardown, BecomeReady,
       vars, linkVars, flagVars, modelVars
<1> QED
    BY <1>1, <1>2, <1>3, <1>4, <1>5, <1>6, <1>7, <1>8, <1>9, <1>10, <1>11, <1>12, <1>13, <1>14,
       <1>15 DEF Next

-----------------------------------------------------------------------------
(* Rebuilds that run alone *)

LEMMA AloneStep == RebuildInv /\ [Next]_vars => AloneIsAlone'
<1> SUFFICES ASSUME RebuildInv, [Next]_vars PROVE AloneIsAlone'
    OBVIOUS
<1>0. LinkShape /\ FlagShape /\ SetShape /\ StreamShape /\ RebuildShape /\ Numbered /\
   AloneIsAlone
    BY DEF RebuildInv
<1>1. CASE Attach
    <2>1. /\ rebuild' \in [Rebuilders -> RebuildType]
          /\ \A u \in Rebuilders : RunsAlone(u)' =>
                ~awaited' /\ \A v \in Rebuilders : v # u => rebuild'[v].pc = "idle"
        BY <1>0, <1>1, BeginEffect DEF Attach, FlagShape, Rebuilders, Steps, RunsAlone
    <2> QED
        BY <2>1 DEF AloneIsAlone
<1>2. CASE Detach
    BY <1>0, <1>2 DEF Detach, Detached, AloneIsAlone, RunsAlone
<1>3. CASE ConnectEnds
    <2>1. \A u \in Rebuilders : rebuild'[u].pc # "idle" =>
             rebuild[u].pc # "idle" /\ rebuild'[u].alone = rebuild[u].alone
        BY <1>0, <1>3, EndsEffect DEF ConnectEnds, Steps, Rebuilders
    <2>2. awaited' = awaited \/ awaited' = FALSE
        BY <1>0, <1>3 DEF ConnectEnds, Detached
    <2> QED
        BY <1>0, <2>1, <2>2 DEF AloneIsAlone, RunsAlone
<1>4. CASE Start
    <2>1. /\ rebuild' \in [Rebuilders -> RebuildType]
          /\ \A u \in Rebuilders : RunsAlone(u)' =>
                ~awaited' /\ \A v \in Rebuilders : v # u => rebuild'[v].pc = "idle"
        BY <1>0, <1>4, BeginEffect DEF Start, FlagShape, Rebuilders, Steps, RunsAlone
    <2> QED
        BY <2>1 DEF AloneIsAlone
<1>5. CASE Background
    <2>1. /\ rebuild' \in [Rebuilders -> RebuildType]
          /\ \A u \in Rebuilders : RunsAlone(u)' =>
                ~awaited' /\ \A v \in Rebuilders : v # u => rebuild'[v].pc = "idle"
        BY <1>0, <1>5, BeginEffect DEF Background, FlagShape, Rebuilders, Steps, RunsAlone
    <2> QED
        BY <2>1 DEF AloneIsAlone
<1>6. CASE Retry
    <2>1. CASE Reload("retry")
        <3>1. \A u \in Rebuilders : RunsAlone(u)' =>
                 ~awaited' /\ \A v \in Rebuilders : v # u => rebuild'[v].pc = "idle"
            BY <1>0, <2>1, ReloadEffect DEF Rebuilders, RunsAlone
        <3> QED
            BY <3>1 DEF AloneIsAlone
    <2>2. CASE UNCHANGED <<rebuild, awaited>>
        BY <1>0, <2>2 DEF AloneIsAlone, RunsAlone
    <2> QED
        BY <1>6, <2>1, <2>2 DEF Retry
<1>7. ASSUME NEW t \in Rebuilders, OutboxDelivered(t) PROVE AloneIsAlone'
    <2>1. \A u \in Rebuilders : rebuild'[u].pc # "idle" =>
             rebuild[u].pc # "idle" /\ rebuild'[u].alone = rebuild[u].alone
        BY <1>0, <1>7, EndsEffect, GotoEffect DEF OutboxDelivered, Steps, Rebuilders
    <2>2. awaited' = awaited \/ awaited' = FALSE
        BY <1>0, <1>7 DEF OutboxDelivered
    <2> QED
        BY <1>0, <2>1, <2>2 DEF AloneIsAlone, RunsAlone
<1>8. ASSUME NEW t \in Rebuilders, TraderRead(t) PROVE AloneIsAlone'
    <2>1. \A u \in Rebuilders : rebuild'[u].pc # "idle" =>
             rebuild[u].pc # "idle" /\ rebuild'[u].alone = rebuild[u].alone
        BY <1>0, <1>8, ReadEffect DEF TraderRead, Steps, Rebuilders
    <2>2. awaited' = awaited \/ awaited' = FALSE
        BY <1>0, <1>8 DEF TraderRead
    <2> QED
        BY <1>0, <2>1, <2>2 DEF AloneIsAlone, RunsAlone
<1>9. ASSUME NEW t \in Rebuilders, VenueAnswers(t) PROVE AloneIsAlone'
    <2>1. \A u \in Rebuilders : rebuild'[u].pc # "idle" =>
             rebuild[u].pc # "idle" /\ rebuild'[u].alone = rebuild[u].alone
        BY <1>0, <1>9, GotoEffect DEF VenueAnswers, Steps, Rebuilders
    <2>2. awaited' = awaited \/ awaited' = FALSE
        BY <1>0, <1>9 DEF VenueAnswers
    <2> QED
        BY <1>0, <2>1, <2>2 DEF AloneIsAlone, RunsAlone
<1>10. ASSUME NEW t \in Rebuilders, Stand(t) PROVE AloneIsAlone'
    <2>1. \A u \in Rebuilders : rebuild'[u].pc # "idle" =>
             rebuild[u].pc # "idle" /\ rebuild'[u].alone = rebuild[u].alone
        BY <1>0, <1>10, EndsEffect, GotoEffect DEF Stand, Steps, Rebuilders
    <2>2. awaited' = awaited \/ awaited' = FALSE \/ rebuild'[t].pc = "idle"
        BY <1>0, <1>10, EndsEffect DEF Stand, ReleaseBuffer
    <2>3. rebuild[t].pc # "idle"
        BY <1>10 DEF Stand
    <2> QED
        BY <1>0, <2>1, <2>2, <2>3 DEF AloneIsAlone, RunsAlone
<1>11. ASSUME NEW t \in Rebuilders, ReloadEnds(t) PROVE AloneIsAlone'
    <2>1. \A u \in Rebuilders : rebuild'[u].pc # "idle" =>
             rebuild[u].pc # "idle" /\ rebuild'[u].alone = rebuild[u].alone
        BY <1>0, <1>11, EndsEffect DEF ReloadEnds, Steps, Rebuilders
    <2>2. awaited' = awaited \/ awaited' = FALSE
        BY <1>0, <1>11 DEF ReloadEnds, ReleaseBuffer
    <2> QED
        BY <1>0, <2>1, <2>2 DEF AloneIsAlone, RunsAlone
<1>12. ASSUME NEW t \in Rebuilders, Fails(t) PROVE AloneIsAlone'
    <2>1. \A u \in Rebuilders : rebuild'[u].pc # "idle" =>
             rebuild[u].pc # "idle" /\ rebuild'[u].alone = rebuild[u].alone
        BY <1>0, <1>12, EndsEffect DEF Fails, Steps, Rebuilders
    <2>2. awaited' = awaited \/ awaited' = FALSE
        BY <1>0, <1>12 DEF Fails, Detached, FailedPass, ReleaseBuffer
    <2> QED
        BY <1>0, <2>1, <2>2 DEF AloneIsAlone, RunsAlone
<1>13. CASE Deliver
    <2>1. \A u \in Rebuilders : rebuild'[u].pc # "idle" =>
             rebuild[u].pc # "idle" /\ rebuild'[u].alone = rebuild[u].alone
        BY <1>0, <1>13, HeadTyped, SnapshotEffect DEF Deliver, Steps, Rebuilders
    <2>2. awaited' = awaited \/ awaited' = FALSE
        BY <1>0, <1>13 DEF Deliver
    <2> QED
        BY <1>0, <2>1, <2>2 DEF AloneIsAlone, RunsAlone
<1>14. CASE Reconciled
    BY <1>0, <1>14 DEF Reconciled, ReleaseBuffer, AloneIsAlone, RunsAlone
<1>15. CASE BringUp
    <2>1. CASE Reload("reload")
        <3>1. \A u \in Rebuilders : RunsAlone(u)' =>
                 ~awaited' /\ \A v \in Rebuilders : v # u => rebuild'[v].pc = "idle"
            BY <1>0, <2>1, ReloadEffect DEF Rebuilders, RunsAlone
        <3> QED
            BY <3>1 DEF AloneIsAlone
    <2>2. CASE UNCHANGED <<rebuild, awaited>>
        BY <1>0, <2>2 DEF AloneIsAlone, RunsAlone
    <2> QED
        BY <1>15, <2>1, <2>2 DEF BringUp
<1>16. CASE UNCHANGED <<rebuild, awaited>>
    BY <1>0, <1>16 DEF AloneIsAlone, RunsAlone
<1>17. ASSUME Change \/ Lose \/ ModelBroke \/ Teardown \/ BecomeReady \/ UNCHANGED vars
      PROVE  UNCHANGED <<rebuild, awaited>>
    BY <1>17 DEF Change, Lose, ModelBroke, Teardown, BecomeReady, vars, linkVars, flagVars,
       modelVars
<1> QED
    BY <1>1, <1>2, <1>3, <1>4, <1>5, <1>6, <1>7, <1>8, <1>9, <1>10, <1>11, <1>12, <1>13, <1>14,
       <1>15, <1>16, <1>17 DEF Next

\* A step of rebuild t: any that is alone then is t, and has been alone.
LEMMA OwnStep ==
    ASSUME AloneIsAlone, NEW t \in Rebuilders, rebuild[t].pc # "idle",
           \A u \in Rebuilders : u # t => rebuild'[u] = rebuild[u],
           rebuild'[t].pc = "idle" \/ rebuild'[t].alone = rebuild[t].alone
    PROVE  \A u \in Rebuilders : RunsAlone(u)' => u = t /\ RunsAlone(t)
BY DEF AloneIsAlone, RunsAlone

\* A rebuild begins: any that is alone then is this one.
LEMMA BeginAlone ==
    ASSUME RebuildShape, LinkShape, FlagShape, SetShape,
           NEW t \in Rebuilders, NEW pc \in Steps \ {"idle"}, Begin(t, pc), awaited' \in BOOLEAN
    PROVE  /\ \A u \in Rebuilders : RunsAlone(u)' => u = t
           /\ rebuild'[t].pc = pc /\ rebuild'[t].id = begun + 1
BY BeginEffect DEF RunsAlone

LEMMA ReloadAlone ==
    ASSUME RebuildShape, LinkShape, FlagShape, SetShape, NEW t \in Rebuilders, Reload(t)
    PROVE  /\ \A u \in Rebuilders : RunsAlone(u)' => u = t
           /\ rebuild'[t].pc \in {"outbox", "trader"} /\ rebuild'[t].id = begun + 1
BY ReloadEffect DEF RunsAlone

\* No snapshot of a rebuild that only begins is on its way.
LEMMA FreshIdComes ==
    ASSUME LinkShape, StreamShape, Numbered, UNCHANGED stream,
           NEW u \in Rebuilders, rebuild'[u].id = begun + 1
    PROVE  Coming(u)' = {}
<1>1. ASSUME NEW i \in 1..Len(stream) PROVE stream[i].id # begun + 1
    <2>1. stream[i].id \in Nat /\ stream[i].id <= begun /\ begun \in Nat
        BY MessageTyped, RebuildAssumption DEF StreamShape, LinkShape, Numbered, StreamNumbered
    <2> QED
        BY <2>1
<1> QED
    BY <1>1 DEF Coming

LEMMA AskedStep == RebuildInv /\ [Next]_vars => AskedOnce'
<1> SUFFICES ASSUME RebuildInv, [Next]_vars PROVE AskedOnce'
    OBVIOUS
<1>0. LinkShape /\ FlagShape /\ SetShape /\ StreamShape /\ RebuildShape /\ Numbered /\
   AloneIsAlone /\ AskedOnce
    BY DEF RebuildInv
<1>1. CASE Attach
    <2>1. UNCHANGED stream /\ \A u \in Rebuilders : RunsAlone(u)' => rebuild'[u].id = begun + 1
        BY <1>0, <1>1, BeginAlone DEF Attach, FlagShape, Rebuilders, Steps
    <2> QED
        BY <1>0, <2>1, FreshIdComes DEF AskedOnce
<1>2. CASE ConnectEnds
    <2>1. \A u \in Rebuilders : RunsAlone(u)' /\ rebuild'[u].pc \in {"outbox", "trader", "asked"} =>
             /\ RunsAlone(u) /\ rebuild[u].pc \in {"outbox", "trader", "asked"}
             /\ rebuild'[u].id = rebuild[u].id
        BY <1>0, <1>2, EndsEffect DEF ConnectEnds, Steps, Rebuilders, RunsAlone
    <2>2. UNCHANGED stream
        BY <1>2 DEF ConnectEnds
    <2> QED
        BY <1>0, <2>1, <2>2 DEF AskedOnce, Coming
<1>3. CASE Start
    <2>1. UNCHANGED stream /\ \A u \in Rebuilders : RunsAlone(u)' => rebuild'[u].id = begun + 1
        BY <1>0, <1>3, BeginAlone DEF Start, FlagShape, Rebuilders, Steps
    <2> QED
        BY <1>0, <2>1, FreshIdComes DEF AskedOnce
<1>4. CASE Background
    <2>1. UNCHANGED stream /\ \A u \in Rebuilders : RunsAlone(u)' => rebuild'[u].id = begun + 1
        BY <1>0, <1>4, BeginAlone DEF Background, FlagShape, Rebuilders, Steps
    <2> QED
        BY <1>0, <2>1, FreshIdComes DEF AskedOnce
<1>5. CASE Retry
    <2>1. CASE Reload("retry")
        <3>1. UNCHANGED stream /\ \A u \in Rebuilders : RunsAlone(u)' => rebuild'[u].id = begun + 1
            BY <1>0, <1>5, <2>1, ReloadAlone DEF Retry, Rebuilders
        <3> QED
            BY <1>0, <3>1, FreshIdComes DEF AskedOnce
    <2>2. CASE UNCHANGED <<rebuild, stream>>
        BY <1>0, <2>2 DEF AskedOnce, RunsAlone, Coming
    <2> QED
        BY <1>5, <2>1, <2>2 DEF Retry
<1>6. ASSUME NEW t \in Rebuilders, OutboxDelivered(t) PROVE AskedOnce'
    <2>1. \A u \in Rebuilders : RunsAlone(u)' /\ rebuild'[u].pc \in {"outbox", "trader", "asked"} =>
             /\ RunsAlone(u) /\ rebuild[u].pc \in {"outbox", "trader", "asked"}
             /\ rebuild'[u].id = rebuild[u].id
        BY <1>0, <1>6, EndsEffect, GotoEffect DEF OutboxDelivered, Steps, Rebuilders, RunsAlone
    <2>2. UNCHANGED stream
        BY <1>6 DEF OutboxDelivered
    <2> QED
        BY <1>0, <2>1, <2>2 DEF AskedOnce, Coming
<1>7. ASSUME NEW t \in Rebuilders, TraderRead(t) PROVE AskedOnce'
    <2>1. \A u \in Rebuilders : RunsAlone(u)' /\ rebuild'[u].pc \in {"outbox", "trader", "asked"} =>
             /\ RunsAlone(u) /\ rebuild[u].pc \in {"outbox", "trader", "asked"}
             /\ rebuild'[u].id = rebuild[u].id
        BY <1>0, <1>7, ReadEffect, ZenonT(40) DEF TraderRead, Steps, Rebuilders, RunsAlone
    <2>2. UNCHANGED stream
        BY <1>7 DEF TraderRead
    <2> QED
        BY <1>0, <2>1, <2>2 DEF AskedOnce, Coming
<1>8. ASSUME NEW t \in Rebuilders, VenueAnswers(t) PROVE AskedOnce'
    <2>1. rebuild[t].pc # "idle" /\ rebuild'[t].pc = "taken"
          /\ \A u \in Rebuilders : RunsAlone(u)' => u = t
        BY <1>0, <1>8, GotoEffect, OwnStep DEF VenueAnswers, Steps
    <2> QED
        BY <2>1 DEF AskedOnce
<1>9. ASSUME NEW t \in Rebuilders, Stand(t) PROVE AskedOnce'
    <2>1. \A u \in Rebuilders : RunsAlone(u)' /\ rebuild'[u].pc \in {"outbox", "trader", "asked"} =>
             /\ RunsAlone(u) /\ rebuild[u].pc \in {"outbox", "trader", "asked"}
             /\ rebuild'[u].id = rebuild[u].id
        BY <1>0, <1>9, EndsEffect, GotoEffect DEF Stand, Steps, Rebuilders, RunsAlone
    <2>2. UNCHANGED stream
        BY <1>9 DEF Stand
    <2> QED
        BY <1>0, <2>1, <2>2 DEF AskedOnce, Coming
<1>10. ASSUME NEW t \in Rebuilders, ReloadEnds(t) PROVE AskedOnce'
    <2>1. \A u \in Rebuilders : RunsAlone(u)' /\ rebuild'[u].pc \in {"outbox", "trader", "asked"} =>
             /\ RunsAlone(u) /\ rebuild[u].pc \in {"outbox", "trader", "asked"}
             /\ rebuild'[u].id = rebuild[u].id
        BY <1>0, <1>10, EndsEffect DEF ReloadEnds, Steps, Rebuilders, RunsAlone
    <2>2. UNCHANGED stream
        BY <1>10 DEF ReloadEnds
    <2> QED
        BY <1>0, <2>1, <2>2 DEF AskedOnce, Coming
<1>11. ASSUME NEW t \in Rebuilders, Fails(t) PROVE AskedOnce'
    <2>1. \A u \in Rebuilders : RunsAlone(u)' /\ rebuild'[u].pc \in {"outbox", "trader", "asked"} =>
             /\ RunsAlone(u) /\ rebuild[u].pc \in {"outbox", "trader", "asked"}
             /\ rebuild'[u].id = rebuild[u].id
        BY <1>0, <1>11, EndsEffect DEF Fails, Steps, Rebuilders, RunsAlone
    <2>2. UNCHANGED stream
        BY <1>11 DEF Fails
    <2> QED
        BY <1>0, <2>1, <2>2 DEF AskedOnce, Coming
<1>12. CASE Deliver
    <2>1. stream # <<>> /\ stream' = Tail(stream)
        BY <1>12 DEF Deliver
    <2>2. \A u \in Rebuilders : RunsAlone(u)' /\ rebuild'[u].pc \in {"outbox", "trader", "asked"} =>
             /\ RunsAlone(u) /\ rebuild[u].pc \in {"outbox", "trader", "asked"}
             /\ rebuild'[u].id = rebuild[u].id
        BY <1>0, <1>12, HeadTyped, SnapshotEffect DEF Deliver, RunsAlone
    <2>3. \A u \in Rebuilders : rebuild'[u].id = rebuild[u].id /\ Coming(u) = {} => Coming(u)' = {}
        BY <1>0, <2>1, StreamTail DEF Coming
    <2> QED
        BY <1>0, <2>2, <2>3 DEF AskedOnce
<1>13. CASE Change
    <2>1. UNCHANGED rebuild /\ (stream' = stream \/ stream' = Append(stream, Event(changes + 1)))
        BY <1>13 DEF Change
    <2>2. \A u \in Rebuilders : Coming(u) = {} => Coming(u)' = {}
        <3>1. Event(changes + 1) \in Message /\ Event(changes + 1).kind # "snapshot"
            BY <1>0, <1>13, RebuildAssumption DEF Change, Event, Message, LinkShape
        <3> QED
            BY <1>0, <2>1, <3>1, StreamAppend DEF Coming
    <2> QED
        BY <1>0, <2>1, <2>2 DEF AskedOnce, RunsAlone
<1>14. CASE Lose
    <2>1. UNCHANGED rebuild /\ (stream' = stream \/ Len(stream') = 0)
        BY <1>0, <1>14, CloseEffect DEF Lose
    <2> QED
        BY <1>0, <2>1 DEF AskedOnce, RunsAlone, Coming
<1>15. CASE Teardown
    <2>1. UNCHANGED rebuild /\ Len(stream') = 0
        BY <1>0, <1>15, CloseEffect DEF Teardown
    <2> QED
        BY <2>1 DEF AskedOnce, Coming
<1>16. CASE BringUp
    <2>1. CASE Reload("reload")
        <3>1. UNCHANGED stream /\ \A u \in Rebuilders : RunsAlone(u)' => rebuild'[u].id = begun + 1
            BY <1>0, <1>16, <2>1, ReloadAlone DEF BringUp, Rebuilders
        <3> QED
            BY <1>0, <3>1, FreshIdComes DEF AskedOnce
    <2>2. CASE UNCHANGED <<rebuild, stream>>
        BY <1>0, <2>2 DEF AskedOnce, RunsAlone, Coming
    <2> QED
        BY <1>16, <2>1, <2>2 DEF BringUp
<1>17. CASE UNCHANGED <<rebuild, stream>>
    BY <1>0, <1>17 DEF AskedOnce, RunsAlone, Coming
<1>18. ASSUME Detach \/ Reconciled \/ ModelBroke \/ BecomeReady \/ UNCHANGED vars
      PROVE  UNCHANGED <<rebuild, stream>>
    BY <1>18 DEF Detach, Reconciled, ModelBroke, BecomeReady, vars, linkVars, flagVars, modelVars
<1> QED
    BY <1>1, <1>2, <1>3, <1>4, <1>5, <1>6, <1>7, <1>8, <1>9, <1>10, <1>11, <1>12, <1>13, <1>14,
       <1>15, <1>16, <1>17, <1>18 DEF Next

LEMMA HoldsStep == RebuildInv /\ [Next]_vars => ReadHolds'
<1> SUFFICES ASSUME RebuildInv, [Next]_vars PROVE ReadHolds'
    OBVIOUS
<1>0. LinkShape /\ FlagShape /\ SetShape /\ StreamShape /\ RebuildShape /\ Numbered /\
   AloneIsAlone /\ ReadHolds
    BY DEF RebuildInv
<1>1. CASE Attach
    <2>1. \A u \in Rebuilders : RunsAlone(u)' => u = "connect"
        BY <1>0, <1>1, BeginAlone DEF Attach, FlagShape, Rebuilders, Steps
    <2>2. holding' = TRUE
        BY <1>1 DEF Attach, HoldBuffer
    <2> QED
        BY <2>1, <2>2 DEF ReadHolds, Rebuilders
<1>2. CASE Detach
    BY <1>0, <1>2 DEF Detach, Detached, ReadHolds, Reads, RunsAlone
<1>3. CASE ConnectEnds
    <2>1. /\ \A u \in Rebuilders : RunsAlone(u)' => u = "connect"
          /\ rebuild'["connect"].pc \notin {"asked", "taken", "lists"}
        BY <1>0, <1>3, EndsEffect, OwnStep DEF ConnectEnds, Steps, Rebuilders
    <2>2. UNCHANGED started
        BY <1>3 DEF ConnectEnds, flagVars
    <2> QED
        BY <1>0, <2>1, <2>2 DEF ReadHolds, Reads, Rebuilders
<1>4. CASE Start
    <2>1. \A u \in Rebuilders : RunsAlone(u)' => u = "start"
        BY <1>0, <1>4, BeginAlone DEF Start, FlagShape, Rebuilders, Steps
    <2>2. holding' = TRUE /\ started' = TRUE
        BY <1>4 DEF Start, HoldBuffer
    <2> QED
        BY <2>1, <2>2 DEF ReadHolds, Rebuilders
<1>5. CASE Background
    <2>1. \A u \in Rebuilders : RunsAlone(u)' => u = "background"
        BY <1>0, <1>5, BeginAlone DEF Background, FlagShape, Rebuilders, Steps
    <2>2. holding' = TRUE
        BY <1>5 DEF Background, HoldBuffer
    <2> QED
        BY <2>1, <2>2 DEF ReadHolds, Rebuilders
<1>6. CASE Retry
    <2>1. CASE Reload("retry")
        <3>1. \A u \in Rebuilders : RunsAlone(u)' => u = "retry"
            BY <1>0, <2>1, ReloadAlone DEF Rebuilders
        <3> QED
            BY <2>1, <3>1 DEF ReadHolds, Rebuilders, Reload, HoldBuffer
    <2>2. CASE UNCHANGED <<rebuild, holding, attached, started>>
        BY <1>0, <2>2 DEF ReadHolds, Reads, RunsAlone
    <2> QED
        BY <1>6, <2>1, <2>2 DEF Retry, flagVars
<1>7. ASSUME NEW t \in Rebuilders, OutboxDelivered(t) PROVE ReadHolds'
    <2>1. /\ \A u \in Rebuilders : RunsAlone(u)' => u = t /\ RunsAlone(t)
          /\ rebuild'[t].pc \notin {"asked", "taken", "lists"}
        BY <1>0, <1>7, EndsEffect, GotoEffect, OwnStep DEF OutboxDelivered, Steps
    <2>2. UNCHANGED started
        BY <1>7 DEF OutboxDelivered, flagVars
    <2> QED
        BY <1>0, <2>1, <2>2 DEF ReadHolds, Reads, Rebuilders
<1>8. ASSUME NEW t \in Rebuilders, TraderRead(t) PROVE ReadHolds'
    <2>1. \A u \in Rebuilders : RunsAlone(u)' => u = t /\ RunsAlone(t)
        BY <1>0, <1>8, ReadEffect, OwnStep DEF TraderRead
    <2>2. holding' = TRUE /\ UNCHANGED started
        BY <1>8 DEF TraderRead, HoldBuffer, flagVars
    <2> QED
        BY <1>0, <2>1, <2>2 DEF ReadHolds, Rebuilders
<1>9. ASSUME NEW t \in Rebuilders, VenueAnswers(t) PROVE ReadHolds'
    <2>1. \A u \in Rebuilders : RunsAlone(u)' => u = t /\ RunsAlone(t)
        BY <1>0, <1>9, GotoEffect, OwnStep DEF VenueAnswers, Steps
    <2>2. rebuild[t].pc = "asked" /\ UNCHANGED <<attached, holding, started>>
        BY <1>9 DEF VenueAnswers, flagVars
    <2> QED
        BY <1>0, <2>1, <2>2 DEF ReadHolds, Reads, Rebuilders
<1>10. ASSUME NEW t \in Rebuilders, Stand(t) PROVE ReadHolds'
    <2>1. /\ \A u \in Rebuilders : RunsAlone(u)' => u = t /\ RunsAlone(t)
          /\ rebuild'[t].pc \notin {"asked", "taken", "lists"}
        BY <1>0, <1>10, EndsEffect, GotoEffect, OwnStep DEF Stand, Steps
    <2>2. UNCHANGED started
        BY <1>10 DEF Stand, flagVars
    <2> QED
        BY <1>0, <2>1, <2>2 DEF ReadHolds, Reads, Rebuilders
<1>11. ASSUME NEW t \in Rebuilders, ReloadEnds(t) PROVE ReadHolds'
    <2>1. /\ \A u \in Rebuilders : RunsAlone(u)' => u = t /\ RunsAlone(t)
          /\ rebuild'[t].pc \notin {"asked", "taken", "lists"}
        BY <1>0, <1>11, EndsEffect, OwnStep DEF ReloadEnds, Steps
    <2>2. UNCHANGED started
        BY <1>11 DEF ReloadEnds, flagVars
    <2> QED
        BY <1>0, <2>1, <2>2 DEF ReadHolds, Reads, Rebuilders
<1>12. ASSUME NEW t \in Rebuilders, Fails(t) PROVE ReadHolds'
    <2>1. /\ \A u \in Rebuilders : RunsAlone(u)' => u = t /\ RunsAlone(t)
          /\ rebuild'[t].pc \notin {"asked", "taken", "lists"}
        BY <1>0, <1>12, EndsEffect, OwnStep DEF Fails, Steps
    <2>2. UNCHANGED started
        BY <1>12 DEF Fails, flagVars
    <2> QED
        BY <1>0, <2>1, <2>2 DEF ReadHolds, Reads, Rebuilders
<1>13. CASE Deliver
    <2>1. \A u \in Rebuilders : /\ RunsAlone(u)' => RunsAlone(u)
                                /\ Reads(u)' => Reads(u)
        BY <1>0, <1>13, HeadTyped, SnapshotEffect DEF Deliver, RunsAlone, Reads
    <2>2. UNCHANGED <<holding, started>>
        BY <1>13 DEF Deliver, flagVars
    <2> QED
        BY <1>0, <2>1, <2>2 DEF ReadHolds, Rebuilders
<1>14. CASE Reconciled
    <2>1. \A u \in Rebuilders : ~RunsAlone(u)
        BY <1>0, <1>14 DEF Reconciled, AloneIsAlone
    <2>2. UNCHANGED rebuild
        BY <1>14 DEF Reconciled
    <2> QED
        BY <2>1, <2>2 DEF ReadHolds, Reads, RunsAlone, Rebuilders
<1>15. CASE BringUp
    <2>1. CASE Reload("reload")
        <3>1. \A u \in Rebuilders : RunsAlone(u)' => u = "reload"
            BY <1>0, <2>1, ReloadAlone DEF Rebuilders
        <3> QED
            BY <2>1, <3>1 DEF ReadHolds, Rebuilders, Reload, HoldBuffer
    <2>2. CASE UNCHANGED <<rebuild, holding, attached, started>>
        BY <1>0, <2>2 DEF ReadHolds, Reads, RunsAlone
    <2> QED
        BY <1>15, <2>1, <2>2 DEF BringUp, flagVars
<1>16. CASE UNCHANGED <<rebuild, attached, holding, started>>
    BY <1>0, <1>16 DEF ReadHolds, Reads, RunsAlone
<1>17. ASSUME Change \/ Lose \/ ModelBroke \/ Teardown \/ BecomeReady \/ UNCHANGED vars
      PROVE  UNCHANGED <<rebuild, attached, holding, started>>
    BY <1>17 DEF Change, Lose, ModelBroke, Teardown, BecomeReady, vars, linkVars, flagVars,
       modelVars
<1> QED
    BY <1>1, <1>2, <1>3, <1>4, <1>5, <1>6, <1>7, <1>8, <1>9, <1>10, <1>11, <1>12, <1>13, <1>14,
       <1>15, <1>16, <1>17 DEF Next

-----------------------------------------------------------------------------
(* What the model shows *)

LEMMA ReadStep == RebuildInv /\ [Next]_vars => ReadIsWhole'
<1> SUFFICES ASSUME RebuildInv, [Next]_vars PROVE ReadIsWhole'
    OBVIOUS
<1>0. LinkShape /\ FlagShape /\ SetShape /\ StreamShape /\ RebuildShape /\ Numbered /\
   AloneIsAlone /\ AskedOnce /\ ReadHolds /\ ReadIsWhole
    BY DEF RebuildInv
<1>1. CASE Attach
    <2>1. /\ \A u \in Rebuilders : RunsAlone(u)' => u = "connect"
          /\ rebuild'["connect"].pc = "trader"
        BY <1>0, <1>1, BeginAlone DEF Attach, FlagShape, Rebuilders, Steps
    <2> QED
        BY <2>1 DEF ReadIsWhole, Reads
<1>2. CASE Detach
    BY <1>2 DEF Detach, Detached, ReadIsWhole, Reads
<1>3. CASE ConnectEnds
    <2>1. /\ \A u \in Rebuilders : RunsAlone(u)' => u = "connect"
          /\ rebuild'["connect"].pc \notin {"asked", "taken", "lists"}
        BY <1>0, <1>3, EndsEffect, OwnStep DEF ConnectEnds, Steps, Rebuilders
    <2> QED
        BY <2>1 DEF ReadIsWhole, Reads
<1>4. CASE Start
    <2>1. /\ \A u \in Rebuilders : RunsAlone(u)' => u = "start"
          /\ rebuild'["start"].pc = "asked" /\ Accepting'
        BY <1>0, <1>4, BeginAlone DEF Start, FlagShape, Rebuilders, Steps, Accepting, linkVars
    <2> QED
        BY <2>1 DEF ReadIsWhole, Reads
<1>5. CASE Background
    <2>1. /\ \A u \in Rebuilders : RunsAlone(u)' => u = "background"
          /\ rebuild'["background"].pc = "asked" /\ Accepting'
        BY <1>0, <1>5, BeginAlone DEF Background, FlagShape, Rebuilders, Steps, Accepting, linkVars
    <2> QED
        BY <2>1 DEF ReadIsWhole, Reads
<1>6. CASE Retry
    <2>1. /\ \A u \in Rebuilders : RunsAlone(u)' => u = "retry"
          /\ rebuild'["retry"].pc \notin {"asked", "taken", "lists"}
        BY <1>0, <1>6, ReloadAlone DEF Retry, Rebuilders
    <2> QED
        BY <2>1 DEF ReadIsWhole, Reads
<1>7. ASSUME NEW t \in Rebuilders, OutboxDelivered(t) PROVE ReadIsWhole'
    <2>1. /\ \A u \in Rebuilders : RunsAlone(u)' => u = t
          /\ rebuild'[t].pc \notin {"asked", "taken", "lists"}
        BY <1>0, <1>7, EndsEffect, GotoEffect, OwnStep DEF OutboxDelivered, Steps, Rebuilders
    <2> QED
        BY <2>1 DEF ReadIsWhole, Reads
<1>8. ASSUME NEW t \in Rebuilders, TraderRead(t) PROVE ReadIsWhole'
    <2>1. /\ \A u \in Rebuilders : RunsAlone(u)' => u = t
          /\ rebuild'[t].pc = "asked" /\ Accepting'
        BY <1>0, <1>8, ReadEffect, OwnStep DEF TraderRead, Accepting, linkVars
    <2> QED
        BY <2>1 DEF ReadIsWhole, Reads
<1>9. ASSUME NEW t \in Rebuilders, VenueAnswers(t) PROVE ReadIsWhole'
    <2> DEFINE m == Snapshot(rebuild[t].id, changes)
    <2>1. m \in Message /\ m.upTo = changes
        BY <1>0 DEF Snapshot, Message, LinkShape, RebuildShape, RebuildType
    <2>2. /\ stream' = Append(stream, m) /\ UNCHANGED <<missed, applied>>
          /\ rebuild[t].pc = "asked" /\ Accepting'
        BY <1>9 DEF VenueAnswers, Accepting, linkVars
    <2>3. /\ \A u \in Rebuilders : RunsAlone(u)' => u = t /\ RunsAlone(t)
          /\ rebuild'[t].pc = "taken" /\ rebuild'[t].id = rebuild[t].id
        BY <1>0, <1>9, GotoEffect, OwnStep DEF VenueAnswers, Steps
    <2> HIDE DEF m
    <2>4. ASSUME RunsAlone(t), NEW i \in Coming(t)' PROVE stream'[i].upTo = changes
        <3>1. \A j \in 1..Len(stream) :
                 ~(stream[j].kind = "snapshot" /\ stream[j].id = rebuild[t].id)
            BY <1>0, <2>2, <2>4 DEF AskedOnce, Coming
        <3>2. i \in 1..Len(stream') /\ stream'[i].kind = "snapshot" /\ stream'[i].id = rebuild[t].id
            BY <2>3, <2>4 DEF Coming
        <3>3. i = Len(stream) + 1
            BY <1>0, <2>1, <2>2, <3>1, <3>2, StreamAppend
        <3> QED
            BY <1>0, <2>1, <2>2, <3>3, StreamAppend
    <2>5. missed' \cup applied' \subseteq 1..changes
        BY <1>0, <2>2 DEF Numbered, EventsNumbered
    <2> QED
        BY <2>2, <2>3, <2>4, <2>5 DEF ReadIsWhole, Reads
<1>10. ASSUME NEW t \in Rebuilders, Stand(t) PROVE ReadIsWhole'
    <2>1. /\ \A u \in Rebuilders : RunsAlone(u)' => u = t
          /\ rebuild'[t].pc \notin {"asked", "taken", "lists"}
        BY <1>0, <1>10, EndsEffect, GotoEffect, OwnStep DEF Stand, Steps, Rebuilders
    <2> QED
        BY <2>1 DEF ReadIsWhole, Reads
<1>11. ASSUME NEW t \in Rebuilders, ReloadEnds(t) PROVE ReadIsWhole'
    <2>1. /\ \A u \in Rebuilders : RunsAlone(u)' => u = t
          /\ rebuild'[t].pc \notin {"asked", "taken", "lists"}
        BY <1>0, <1>11, EndsEffect, OwnStep DEF ReloadEnds, Steps, Rebuilders
    <2> QED
        BY <2>1 DEF ReadIsWhole, Reads
<1>12. ASSUME NEW t \in Rebuilders, Fails(t) PROVE ReadIsWhole'
    <2>1. /\ \A u \in Rebuilders : RunsAlone(u)' => u = t
          /\ rebuild'[t].pc \notin {"asked", "taken", "lists"}
        BY <1>0, <1>12, EndsEffect, OwnStep DEF Fails, Steps, Rebuilders
    <2> QED
        BY <2>1 DEF ReadIsWhole, Reads
<1>13. CASE Deliver
    <2> DEFINE m == Head(stream)
    <2>1. /\ stream # <<>> /\ stream' = Tail(stream) /\ m = stream[1] /\ m \in Message
          /\ UNCHANGED <<session, attached, breaks, holding>>
        BY <1>0, <1>13, HeadTyped DEF Deliver, linkVars
    <2>2. \A u \in Rebuilders :
             /\ rebuild'[u].id = rebuild[u].id /\ rebuild'[u].breaks = rebuild[u].breaks
             /\ rebuild'[u].alone = rebuild[u].alone
             /\ \/ rebuild'[u] = rebuild[u]
                \/ /\ m.kind = "snapshot"
                   /\ rebuild[u].pc = "taken" /\ rebuild[u].id = m.id
                   /\ rebuild'[u].pc = "lists" /\ rebuild'[u].upTo = m.upTo
        BY <1>0, <2>1, <1>13, SnapshotEffect DEF Deliver
    <2> SUFFICES ASSUME NEW u \in Rebuilders, Reads(u)', Unbroken(u)'
                 PROVE  /\ Accepting'
                        /\ rebuild'[u].pc = "taken" =>
                              \A i \in Coming(u)' : missed' \cup applied' \subseteq 1..stream'[i].upTo
                        /\ rebuild'[u].pc = "lists" => missed' \cup applied' \subseteq 1..rebuild'[u].upTo
        BY DEF ReadIsWhole
    <2>3. Reads(u) /\ Unbroken(u)
        BY <2>1, <2>2 DEF Reads, RunsAlone, Unbroken
    <2>4. UNCHANGED <<missed, applied>>
        <3>1. attached /\ holding
            BY <1>0, <2>3 DEF ReadHolds, Reads
        <3> QED
            BY <1>13, <3>1 DEF Deliver, DeliverEvent
    <2>5. Accepting'
        BY <1>0, <2>1, <2>3 DEF ReadIsWhole, Accepting
    <2>6. CASE rebuild'[u] = rebuild[u]
        <3>1. \A i \in Coming(u)' : i + 1 \in Coming(u) /\ stream'[i] = stream[i + 1]
            BY <1>0, <2>1, <2>6, StreamTail DEF Coming
        <3>2. rebuild[u].pc = "taken" => \A i \in Coming(u) : missed \cup applied \subseteq 1..stream[i].upTo
            BY <1>0, <2>3 DEF ReadIsWhole
        <3>3. rebuild[u].pc = "lists" => missed \cup applied \subseteq 1..rebuild[u].upTo
            BY <1>0, <2>3 DEF ReadIsWhole
        <3> QED
            BY <2>4, <2>5, <2>6, <3>1, <3>2, <3>3
    <2>7. CASE /\ m.kind = "snapshot" /\ rebuild[u].pc = "taken" /\ rebuild[u].id = m.id
               /\ rebuild'[u].pc = "lists" /\ rebuild'[u].upTo = m.upTo
        <3>1. 1 \in Coming(u)
            BY <1>0, <2>1, <2>7, StreamTail DEF Coming
        <3> QED
            BY <1>0, <2>1, <2>3, <2>4, <2>5, <2>7, <3>1 DEF ReadIsWhole
    <2> QED
        BY <2>2, <2>6, <2>7
<1>14. CASE Reconciled
    <2>1. \A u \in Rebuilders : ~RunsAlone(u)
        BY <1>0, <1>14 DEF Reconciled, AloneIsAlone
    <2>2. UNCHANGED rebuild
        BY <1>14 DEF Reconciled
    <2> QED
        BY <2>1, <2>2 DEF ReadIsWhole, Reads, RunsAlone
<1>15. CASE Change
    <2>1. UNCHANGED <<session, attached, breaks, rebuild, applied>>
        BY <1>15 DEF Change, linkVars, modelVars
    <2>2. \/ Accepting /\ stream' = Append(stream, Event(changes + 1)) /\ UNCHANGED missed
          \/ ~Accepting /\ UNCHANGED stream
        BY <1>15 DEF Change
    <2>3. CASE Accepting
        <3>1. Event(changes + 1) \in Message /\ Event(changes + 1).kind # "snapshot"
            BY <1>0, <1>15, RebuildAssumption DEF Change, Event, Message, LinkShape
        <3>2. \A u \in Rebuilders : \A i \in Coming(u)' : i \in Coming(u) /\ stream'[i] = stream[i]
            BY <1>0, <2>1, <2>2, <2>3, <3>1, StreamAppend DEF Coming
        <3> QED
            BY <1>0, <2>1, <2>2, <2>3, <3>2 DEF ReadIsWhole, Reads, RunsAlone, Unbroken, Accepting
    <2>4. CASE ~Accepting
        BY <1>0, <2>1, <2>4 DEF ReadIsWhole, Reads, RunsAlone, Unbroken
    <2> QED
        BY <2>3, <2>4
<1>16. CASE Lose
    BY <1>16 DEF Lose, ReadIsWhole, Unbroken
<1>17. CASE ModelBroke
    <2>1. UNCHANGED <<attached, rebuild>> /\ (attached => breaks' = breaks + 1)
        BY <1>17 DEF ModelBroke
    <2>2. \A u \in Rebuilders : rebuild[u].breaks <= breaks /\ rebuild[u].breaks \in Nat
        BY <1>0 DEF Numbered, RebuildsNumbered, RebuildShape, RebuildType
    <2>3. breaks \in Nat
        BY <1>0 DEF SetShape
    <2> QED
        BY <2>1, <2>2, <2>3 DEF ReadIsWhole, Reads, Unbroken
<1>18. CASE Teardown
    <2>1. session = "down" /\ UNCHANGED <<session, attached, breaks, rebuild>>
        BY <1>18 DEF Teardown, modelVars
    <2> QED
        BY <1>0, <2>1 DEF ReadIsWhole, Reads, RunsAlone, Unbroken, Accepting
<1>19. CASE BringUp
    <2>1. CASE Reload("reload")
        <3>1. /\ \A u \in Rebuilders : RunsAlone(u)' => u = "reload"
              /\ rebuild'["reload"].pc \notin {"asked", "taken", "lists"}
            BY <1>0, <2>1, ReloadAlone DEF Rebuilders
        <3> QED
            BY <3>1 DEF ReadIsWhole, Reads
    <2>2. CASE UNCHANGED rebuild
        <3>1. \A u \in Rebuilders : rebuild[u].pc \notin {"asked", "taken", "lists"}
            BY <1>19, <2>2 DEF BringUp
        <3> QED
            BY <2>2, <3>1 DEF ReadIsWhole, Reads
    <2> QED
        BY <1>19, <2>1, <2>2 DEF BringUp
<1>20. CASE BecomeReady
    BY <1>0, <1>20 DEF BecomeReady, modelVars, ReadIsWhole, Reads, RunsAlone, Unbroken, Accepting, Coming
<1>21. CASE UNCHANGED <<session, attached, breaks, rebuild, stream, missed, applied>>
    BY <1>0, <1>21 DEF ReadIsWhole, Reads, RunsAlone, Unbroken, Accepting, Coming
<1>22. ASSUME UNCHANGED vars PROVE UNCHANGED <<session, attached, breaks, rebuild, stream, missed, applied>>
    BY <1>22 DEF vars, linkVars, flagVars, modelVars
<1> QED
    BY <1>1, <1>2, <1>3, <1>4, <1>5, <1>6, <1>7, <1>8, <1>9, <1>10, <1>11, <1>12, <1>13, <1>14,
       <1>15, <1>16, <1>17, <1>18, <1>19, <1>20, <1>21, <1>22 DEF Next

LEMMA StandsStep == RebuildInv /\ [Next]_vars => StandsWhole'
<1> SUFFICES ASSUME RebuildInv, [Next]_vars PROVE StandsWhole'
    OBVIOUS
<1>0. LinkShape /\ FlagShape /\ SetShape /\ StreamShape /\ RebuildShape /\ Numbered /\
   AloneIsAlone /\ ReadIsWhole /\ StandsWhole /\ DetachBroke
    BY DEF RebuildInv
<1>1. CASE Attach
    BY <1>0, <1>1 DEF Attach, DetachBroke, SetShape, StandsWhole
<1>2. CASE Detach
    BY <1>2 DEF Detach, Detached, StandsWhole
<1>3. CASE ConnectEnds
    BY <1>0, <1>3 DEF ConnectEnds, Detached, linkVars, StandsWhole, Accepting
<1>4. ASSUME NEW t \in Rebuilders, Stand(t) PROVE StandsWhole'
    <2>1. /\ rebuiltAt' = rebuild[t].breaks /\ trusted' = (rebuild[t].alone /\ attached)
          /\ rebuild[t].pc = "lists" /\ UNCHANGED <<attached, breaks, session, missed>>
        BY <1>4 DEF Stand, BreaksOfRead, linkVars
    <2>2. \E E \in SUBSET Changes : model' = 1..rebuild[t].upTo \cup E /\ applied' = applied \cup E
        <3>1. CASE ReleaseBuffer(1..rebuild[t].upTo)
            BY <1>0, <3>1, ReleaseEffect
        <3>2. CASE model' = 1..rebuild[t].upTo /\ applied' = applied
            <4>1. /\ {} \in SUBSET Changes
                  /\ model' = 1..rebuild[t].upTo \cup {} /\ applied' = applied \cup {}
                BY <3>2
            <4> QED
                BY <4>1
        <3> QED
            BY <1>4, <3>1, <3>2 DEF Stand
    <2> SUFFICES ASSUME trusted', attached', rebuiltAt' = breaks', session' # "lost"
                 PROVE  Accepting' /\ missed' \cup applied' \subseteq model'
        BY DEF StandsWhole
    <2>3. Reads(t) /\ Unbroken(t)
        BY <2>1 DEF Reads, RunsAlone, Unbroken
    <2>4. Accepting /\ missed \cup applied \subseteq 1..rebuild[t].upTo
        BY <1>0, <2>1, <2>3 DEF ReadIsWhole
    <2> QED
        BY <2>1, <2>2, <2>4 DEF Accepting
<1>5. ASSUME NEW t \in Rebuilders, ReloadEnds(t) PROVE StandsWhole'
    <2>1. PICK E \in SUBSET Changes : model' = model \cup E /\ applied' = applied \cup E
        BY <1>0, <1>5, ReleaseEffect DEF ReloadEnds
    <2> QED
        BY <1>0, <1>5, <2>1 DEF ReloadEnds, linkVars, StandsWhole, Accepting
<1>6. ASSUME NEW t \in Rebuilders, Fails(t) PROVE StandsWhole'
    <2>1. CASE Detached
        BY <2>1 DEF Detached, StandsWhole
    <2>2. CASE FailedPass(t)
        <3>1. PICK E \in SUBSET Changes : model' = model \cup E /\ applied' = applied \cup E
            BY <1>0, <2>2, ReleaseEffect DEF FailedPass
        <3> QED
            BY <1>0, <1>6, <2>2, <3>1 DEF Fails, FailedPass, linkVars, StandsWhole, Accepting
    <2> QED
        BY <1>6, <2>1, <2>2 DEF Fails
<1>7. CASE Deliver
    <2>1. UNCHANGED <<trusted, attached, rebuiltAt, breaks, session>>
        BY <1>7 DEF Deliver, linkVars
    <2>2. \/ UNCHANGED <<missed, applied, model>> \/ ~attached
          \/ \E c : missed' = missed /\ model' = model \cup {c} /\ applied' = applied \cup {c}
        BY <1>7 DEF Deliver, DeliverEvent
    <2> QED
        BY <1>0, <2>1, <2>2 DEF StandsWhole, Accepting
<1>8. CASE Reconciled
    <2>1. PICK E \in SUBSET Changes : model' = model \cup E /\ applied' = applied \cup E
        BY <1>0, <1>8, ReleaseEffect DEF Reconciled
    <2> QED
        BY <1>0, <1>8, <2>1 DEF Reconciled, linkVars, StandsWhole, Accepting
<1>9. CASE Change
    <2>1. UNCHANGED <<session, attached, trusted, rebuiltAt, breaks, applied, model>>
        BY <1>9 DEF Change, linkVars, modelVars
    <2>2. Accepting => UNCHANGED missed
        BY <1>9 DEF Change
    <2> QED
        BY <1>0, <2>1, <2>2 DEF StandsWhole, Accepting
<1>10. CASE Lose
    BY <1>10 DEF Lose, StandsWhole
<1>11. CASE ModelBroke
    <2>1. UNCHANGED <<attached, rebuiltAt>> /\ (attached => breaks' = breaks + 1)
        BY <1>11 DEF ModelBroke
    <2>2. rebuiltAt <= breaks /\ breaks \in Nat /\ rebuiltAt \in Int
        BY <1>0 DEF Numbered, RebuildsNumbered, SetShape
    <2> QED
        BY <2>1, <2>2 DEF StandsWhole
<1>12. CASE Teardown
    BY <1>0, <1>12 DEF Teardown, modelVars, StandsWhole, Accepting
<1>13. CASE BringUp
    BY <1>0, <1>13 DEF BringUp, StandsWhole, Accepting
<1>14. CASE BecomeReady
    BY <1>0, <1>14 DEF BecomeReady, linkVars, flagVars, modelVars, StandsWhole, Accepting
<1>15. CASE UNCHANGED <<trusted, attached, rebuiltAt, breaks, session, missed, applied, model>>
    BY <1>0, <1>15 DEF StandsWhole, Accepting
<1>16. ASSUME Start \/ Background \/ Retry \/ (\E t \in Rebuilders : OutboxDelivered(t)) \/ (\E t
   \in Rebuilders : TraderRead(t)) \/ (\E t \in Rebuilders : VenueAnswers(t)) \/ UNCHANGED vars
      PROVE  UNCHANGED <<trusted, attached, rebuiltAt, breaks, session, missed, applied, model>>
    BY <1>16 DEF Start, Background, Retry, OutboxDelivered, TraderRead, VenueAnswers, vars,
       linkVars, flagVars, modelVars
<1> QED
    BY <1>1, <1>2, <1>3, <1>4, <1>5, <1>6, <1>7, <1>8, <1>9, <1>10, <1>11, <1>12, <1>13, <1>14,
       <1>15, <1>16 DEF Next

LEMMA BrokeStep == RebuildInv /\ [Next]_vars => DetachBroke'
<1> SUFFICES ASSUME RebuildInv, [Next]_vars PROVE DetachBroke'
    OBVIOUS
<1>0. LinkShape /\ FlagShape /\ SetShape /\ StreamShape /\ RebuildShape /\ Numbered /\ DetachBroke
    BY DEF RebuildInv
<1>1. CASE Attach
    BY <1>0, <1>1 DEF Attach, Begin, HoldBuffer, Running, linkVars, flagVars, modelVars,
       DetachBroke
<1>2. CASE Detach
    BY <1>0, <1>2 DEF Detach, Detached, DetachBroke, Numbered, RebuildsNumbered, SetShape
<1>3. CASE ConnectEnds
    BY <1>0, <1>3 DEF ConnectEnds, Detached, DetachBroke, Numbered, RebuildsNumbered, SetShape
<1>4. ASSUME NEW t \in Rebuilders, Stand(t) PROVE DetachBroke'
    BY <1>0, <1>4 DEF Stand, DetachBroke
<1>5. ASSUME NEW t \in Rebuilders, Fails(t) PROVE DetachBroke'
    <2>1. CASE Detached
        BY <1>0, <1>5, <2>1 DEF Fails, Detached, DetachBroke, Numbered, RebuildsNumbered, SetShape
    <2>2. CASE FailedPass(t)
        BY <1>0, <1>5, <2>2 DEF Fails, FailedPass, DetachBroke
    <2> QED
        BY <1>5, <2>1, <2>2 DEF Fails
<1>6. CASE ModelBroke
    BY <1>0, <1>6 DEF ModelBroke, DetachBroke, SetShape
<1>7. CASE UNCHANGED <<trusted, attached, rebuiltAt, breaks>>
    BY <1>0, <1>7 DEF DetachBroke
<1>8. ASSUME Start \/ Background \/ Retry \/ (\E t \in Rebuilders : OutboxDelivered(t)) \/ (\E t
   \in Rebuilders : TraderRead(t)) \/ (\E t \in Rebuilders : VenueAnswers(t)) \/ (\E t \in
   Rebuilders : ReloadEnds(t)) \/ Deliver \/ Reconciled \/ Change \/ Lose \/ Teardown \/ BringUp
   \/ BecomeReady \/ UNCHANGED vars
      PROVE  UNCHANGED <<trusted, attached, rebuiltAt, breaks>>
    BY <1>8 DEF Start, Background, Retry, OutboxDelivered, TraderRead, VenueAnswers, ReloadEnds,
       Deliver, Reconciled, Change, Lose, Teardown, BringUp, BecomeReady, vars, linkVars,
       flagVars, modelVars
<1> QED
    BY <1>1, <1>2, <1>3, <1>4, <1>5, <1>6, <1>7, <1>8 DEF Next

LEMMA AwaitedStep == RebuildInv /\ [Next]_vars => AwaitedIsQuiet'
<1> SUFFICES ASSUME RebuildInv, [Next]_vars PROVE AwaitedIsQuiet'
    OBVIOUS
<1>0. LinkShape /\ FlagShape /\ SetShape /\ StreamShape /\ RebuildShape /\ Numbered /\
   AloneIsAlone /\ ReadHolds /\ AwaitedIsQuiet
    BY DEF RebuildInv
<1>1. CASE Attach
    BY <1>0, <1>1 DEF Attach, AwaitedIsQuiet
<1>2. CASE Detach
    BY <1>2 DEF Detach, Detached, AwaitedIsQuiet
<1>3. CASE ConnectEnds
    <2>1. rebuild["connect"].pc # "idle"
        BY <1>3 DEF ConnectEnds
    <2>2. UNCHANGED trusted /\ (awaited' = awaited \/ awaited' = FALSE)
        BY <1>0, <1>3 DEF ConnectEnds, modelVars, Detached
    <2> QED
        BY <1>0, <2>1, <2>2 DEF AwaitedIsQuiet, Rebuilders
<1>4. CASE Start
    BY <1>0, <1>4 DEF Start, AwaitedIsQuiet
<1>5. CASE Background
    BY <1>0, <1>5 DEF Background, BackgroundMayBegin, AwaitedIsQuiet
<1>6. CASE Retry
    BY <1>6 DEF Retry, Reload, AwaitedIsQuiet
<1>7. ASSUME NEW t \in Rebuilders, OutboxDelivered(t) PROVE AwaitedIsQuiet'
    <2>1. rebuild[t].pc # "idle"
        BY <1>7 DEF OutboxDelivered
    <2>2. UNCHANGED trusted /\ (awaited' = awaited \/ awaited' = FALSE)
        BY <1>0, <1>7 DEF OutboxDelivered, modelVars
    <2> QED
        BY <1>0, <2>1, <2>2 DEF AwaitedIsQuiet, Rebuilders
<1>8. ASSUME NEW t \in Rebuilders, TraderRead(t) PROVE AwaitedIsQuiet'
    <2>1. rebuild[t].pc # "idle"
        BY <1>8 DEF TraderRead
    <2>2. UNCHANGED trusted /\ (awaited' = awaited \/ awaited' = FALSE)
        BY <1>0, <1>8 DEF TraderRead, modelVars
    <2> QED
        BY <1>0, <2>1, <2>2 DEF AwaitedIsQuiet, Rebuilders
<1>9. ASSUME NEW t \in Rebuilders, VenueAnswers(t) PROVE AwaitedIsQuiet'
    <2>1. rebuild[t].pc # "idle"
        BY <1>9 DEF VenueAnswers
    <2>2. UNCHANGED trusted /\ (awaited' = awaited \/ awaited' = FALSE)
        BY <1>0, <1>9 DEF VenueAnswers, modelVars
    <2> QED
        BY <1>0, <2>1, <2>2 DEF AwaitedIsQuiet, Rebuilders
<1>10. ASSUME NEW t \in Rebuilders, Stand(t) PROVE AwaitedIsQuiet'
    <2>1. /\ rebuild[t].pc = "lists" /\ trusted' = (rebuild[t].alone /\ attached)
          /\ UNCHANGED <<attached, started>>
        BY <1>10 DEF Stand, flagVars
    <2> SUFFICES ASSUME awaited', trusted'
                 PROVE  /\ attached' /\ holding' /\ started'
                        /\ \A u \in Rebuilders : rebuild'[u].pc = "idle"
        BY DEF AwaitedIsQuiet
    <2>2. RunsAlone(t) /\ Reads(t)
        BY <2>1 DEF RunsAlone, Reads
    <2>3. ~awaited /\ \A u \in Rebuilders : u # t => rebuild[u].pc = "idle"
        BY <1>0, <2>2 DEF AloneIsAlone
    <2>4. t = "start" /\ Ends(t) /\ UNCHANGED holding
        BY <1>10, <2>3 DEF Stand, ReleaseBuffer
    <2>5. \A u \in Rebuilders : rebuild'[u].pc = "idle"
        BY <1>0, <2>3, <2>4, EndsEffect
    <2> QED
        BY <1>0, <2>1, <2>2, <2>4, <2>5 DEF ReadHolds, Reads
<1>11. ASSUME NEW t \in Rebuilders, ReloadEnds(t) PROVE AwaitedIsQuiet'
    <2>1. rebuild[t].pc # "idle"
        BY <1>11 DEF ReloadEnds
    <2>2. UNCHANGED trusted /\ (awaited' = awaited \/ awaited' = FALSE)
        BY <1>0, <1>11 DEF ReloadEnds, modelVars, ReleaseBuffer
    <2> QED
        BY <1>0, <2>1, <2>2 DEF AwaitedIsQuiet, Rebuilders
<1>12. ASSUME NEW t \in Rebuilders, Fails(t) PROVE AwaitedIsQuiet'
    <2>1. rebuild[t].pc # "idle"
        BY <1>12 DEF Fails
    <2>2. UNCHANGED trusted /\ (awaited' = awaited \/ awaited' = FALSE)
        BY <1>0, <1>12 DEF Fails, modelVars, Detached, FailedPass, ReleaseBuffer
    <2> QED
        BY <1>0, <2>1, <2>2 DEF AwaitedIsQuiet, Rebuilders
<1>13. CASE Deliver
    <2>1. UNCHANGED <<awaited, trusted, attached, holding, started>>
        BY <1>13 DEF Deliver, flagVars
    <2>2. \A u \in Rebuilders : rebuild[u].pc = "idle" => rebuild'[u].pc = "idle"
        BY <1>0, <1>13, HeadTyped, SnapshotEffect DEF Deliver
    <2> QED
        BY <1>0, <2>1, <2>2 DEF AwaitedIsQuiet
<1>14. CASE Reconciled
    BY <1>14 DEF Reconciled, ReleaseBuffer, AwaitedIsQuiet
<1>15. CASE BringUp
    <2>1. awaited' = FALSE \/ UNCHANGED <<awaited, holding, rebuild>>
        BY <1>15 DEF BringUp, Reload
    <2>2. UNCHANGED <<trusted, attached, started>>
        BY <1>15 DEF BringUp
    <2> QED
        BY <1>0, <2>1, <2>2 DEF AwaitedIsQuiet
<1>16. CASE UNCHANGED <<awaited, trusted, attached, holding, started, rebuild>>
    BY <1>0, <1>16 DEF AwaitedIsQuiet
<1>17. ASSUME Change \/ Lose \/ ModelBroke \/ Teardown \/ BecomeReady \/ UNCHANGED vars
      PROVE  UNCHANGED <<awaited, trusted, attached, holding, started, rebuild>>
    BY <1>17 DEF Change, Lose, ModelBroke, Teardown, BecomeReady, vars, linkVars, flagVars,
       modelVars
<1> QED
    BY <1>1, <1>2, <1>3, <1>4, <1>5, <1>6, <1>7, <1>8, <1>9, <1>10, <1>11, <1>12, <1>13, <1>14,
       <1>15, <1>16, <1>17 DEF Next

-----------------------------------------------------------------------------
(* The theorems *)

LEMMA InitHolds == Init => RebuildInv
<1> SUFFICES ASSUME Init PROVE RebuildInv
    OBVIOUS
<1>1. LinkShape /\ FlagShape
    <2>1. 0 \in 0..MaxChanges /\ 0 \in 0..MaxLosses /\ 0 \in 0..MaxRebuilds
        BY RebuildAssumption
    <2> QED
        BY <2>1 DEF Init, LinkShape, FlagShape
<1>2. SetShape /\ StreamShape
    BY EmptyTyped DEF Init, SetShape, StreamShape
<1>3. RebuildShape /\ \A t \in Rebuilders : rebuild[t] = NoRebuild
    BY NoRebuildTyped DEF Init, RebuildShape
<1>4. Numbered
    BY <1>3, ToSetOfEmpty, NoRebuildTyped
       DEF Init, Numbered, StreamNumbered, EventsNumbered, RebuildsNumbered
<1>5. DetachedIsDeaf /\ HandedIsKept
    BY DEF Init, DetachedIsDeaf, HandedIsKept
<1>6. \A t \in Rebuilders : ~RunsAlone(t) /\ ~Reads(t)
    BY <1>3, NoRebuildTyped DEF RunsAlone, Reads
<1>7. AloneIsAlone /\ AskedOnce /\ ReadHolds /\ ReadIsWhole
    BY <1>6 DEF AloneIsAlone, AskedOnce, ReadHolds, ReadIsWhole, Rebuilders
<1>8. StandsWhole /\ DetachBroke /\ AwaitedIsQuiet
    BY DEF Init, StandsWhole, DetachBroke, AwaitedIsQuiet
<1> QED
    BY <1>1, <1>2, <1>3, <1>4, <1>5, <1>7, <1>8 DEF RebuildInv

LEMMA StepHolds == RebuildInv /\ [Next]_vars => RebuildInv'
<1> SUFFICES ASSUME RebuildInv, [Next]_vars PROVE RebuildInv'
    OBVIOUS
<1>1. LinkShape' /\ FlagShape' /\ SetShape' /\ StreamShape' /\ RebuildShape'
    BY LinkStep, FlagStep, SetStep, StreamStep, RebuildStep
<1>2. Numbered'
    BY StreamNumberedStep, EventsNumberedStep, RebuildsNumberedStep DEF Numbered
<1>3. DetachedIsDeaf' /\ HandedIsKept'
    BY DeafStep, HandedStep
<1>4. AloneIsAlone' /\ AskedOnce' /\ ReadHolds' /\ ReadIsWhole'
    BY AloneStep, AskedStep, HoldsStep, ReadStep
<1>5. StandsWhole' /\ DetachBroke' /\ AwaitedIsQuiet'
    BY StandsStep, BrokeStep, AwaitedStep
<1> QED
    BY <1>1, <1>2, <1>3, <1>4, <1>5 DEF RebuildInv

LEMMA AlwaysRebuildInv == Spec => []RebuildInv
BY InitHolds, StepHolds, PTL DEF Spec

\* The client's flags, its buffer, its rebuilds and its model keep their types.
THEOREM RebuildTyped == Spec => []TypeOK
<1>1. RebuildInv => TypeOK
    BY ShapeIsType DEF RebuildInv
<1> QED
    BY <1>1, AlwaysRebuildInv, PTL

\* No execution event handed to the attached client is lost between the rebuilds that
\* share _buffer: it is applied to the model or still held.
THEOREM HandedKept == Spec => []HandedIsKept
<1>1. RebuildInv => HandedIsKept
    BY DEF RebuildInv
<1> QED
    BY <1>1, AlwaysRebuildInv, PTL

\* ctrader.venue_positions says complete only of a model that shows every change missed
\* in an outage or applied to it, when the rebuild it stands on ran beside no other.
THEOREM CompleteTellsTruth == Spec => []CompleteIsTrue
<1>1. RebuildInv => CompleteIsTrue
    BY DEF RebuildInv, StandsWhole, CompleteIsTrue, Complete
<1> QED
    BY <1>1, AlwaysRebuildInv, PTL

\* generate_mass_status(): the events held for a mass status are applied by its
\* reconciliation and by nothing else.
THEOREM HeldForNautilus == Spec => HeldUntilReconciled
<1>1. RebuildInv /\ [Next]_vars => [awaited /\ trusted /\ applied' # applied => Reconciled]_vars
    <2> SUFFICES ASSUME RebuildInv, Next, awaited, trusted, applied' # applied PROVE Reconciled
        BY DEF vars
    <2>1. attached /\ holding /\ \A t \in Rebuilders : rebuild[t].pc = "idle"
        BY DEF RebuildInv, AwaitedIsQuiet
    <2>2. ~Attach
        BY <2>1 DEF Attach
    <2>3. ASSUME NEW t \in Rebuilders PROVE ~(Stand(t) \/ ReloadEnds(t) \/ Fails(t))
        BY <2>1 DEF Stand, ReloadEnds, Fails
    <2>4. ~Deliver
        BY <2>1 DEF Deliver, DeliverEvent
    <2>5. ~(Detach \/ ConnectEnds \/ Start \/ Background \/ Retry \/ Change \/ Lose \/ ModelBroke
            \/ Teardown \/ BringUp \/ BecomeReady)
        BY DEF Detach, ConnectEnds, Start, Background, Retry, Change, Lose, ModelBroke, Teardown,
               BringUp, BecomeReady
    <2>6. ASSUME NEW t \in Rebuilders PROVE ~(OutboxDelivered(t) \/ TraderRead(t) \/ VenueAnswers(t))
        BY DEF OutboxDelivered, TraderRead, VenueAnswers
    <2> QED
        BY <2>2, <2>3, <2>4, <2>5, <2>6 DEF Next
<1> QED
    BY <1>1, AlwaysRebuildInv, PTL DEF Spec, HeldUntilReconciled

=============================================================================
