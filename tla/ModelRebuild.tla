----------------------------- MODULE ModelRebuild -----------------------------
(***************************************************************************)
(* Rebuilding the venue model under live execution events (execution.py).  *)
(*                                                                         *)
(* The execution client keeps a model of the account: changed by the       *)
(* broker's events, and rebuilt whole from a snapshot at connect, for      *)
(* Nautilus's mass status, after a reconnect, when that restore is         *)
(* retried, and in the background to settle a bracket.  Events that arrive *)
(* during a rebuild are held in one buffer the rebuilds share.  The cache  *)
(* key ctrader.venue_positions says whether the model is complete.         *)
(*                                                                         *)
(* The account is the set of the numbered changes made to it, each on a    *)
(* position of its own: an event carries one, a snapshot all so far.       *)
(* Everything between two awaits is one action.  Session gives the         *)
(* interface to the link; the account may be shared with the data client,  *)
(* so a detached client's rebuild can live on.                             *)
(***************************************************************************)
EXTENDS Integers, Sequences, SequencesExt, FiniteSets

CONSTANTS
    MaxChanges,   \* bound: changes made to the account
    MaxLosses,    \* bound: losses of the session
    MaxRebuilds   \* bound: rebuilds begun

ASSUME RebuildAssumption == {MaxChanges, MaxLosses, MaxRebuilds} \subseteq Nat

VARIABLES
    session,     \* the session's state, as far as requests and events see it
    socket,      \* its socket is open
    stream,      \* what the venue has sent and the read loop has not read
    changes,     \* changes made to the account so far
    attached,    \* _session is not None, handlers and loss listener registered
    restorable,  \* _reload is registered with the session
    failed,      \* ... and listed among its failed restores
    started,     \* generate_mass_status() was called for this attachment
    rebuild,     \* where each rebuild is
    holding,     \* _buffer is not None; _model_standing is its negation
    held,        \* the events in _buffer
    rebuilding,  \* _rebuilding
    breaks,      \* _breaks
    rebuiltAt,   \* _rebuilt_at_break, -1 for None
    awaited,     \* _awaited_report is not None, its timer running
    model,       \* the changes _book shows
    begun,       \* history: rebuilds begun
    losses,      \* history: losses
    handed,      \* history: events handed to this attachment
    applied,     \* history: events applied to the model in this attachment
    missed,      \* history: changes whose event reached no client
    trusted      \* history: the standing rebuild ran beside no other, attached

linkVars == <<session, socket, losses>>
flagVars == <<restorable, failed, started>>
modelVars == <<rebuilding, breaks, rebuiltAt, model, trusted>>
vars == <<linkVars, stream, changes, attached, flagVars, rebuild, holding, held, awaited,
          modelVars, begun, handed, applied, missed>>

\* The tasks that rebuild: _connect(), generate_mass_status(), _reload() run by a
\* bring-up and by the account's retry, and _load() for a bracket.
Rebuilders == {"connect", "start", "reload", "retry", "background"}
Steps == {"idle", "outbox", "trader", "asked", "taken", "lists", "checkpoint", "finishing"}
Changes == 1..MaxChanges
NoRebuild == [pc |-> "idle", id |-> 0, breaks |-> 0, upTo |-> 0, alone |-> TRUE, loss |-> 0]

Event(c) == [kind |-> "event", upTo |-> c, id |-> 0]
Snapshot(id, c) == [kind |-> "snapshot", upTo |-> c, id |-> id]

TypeOK ==
    /\ session \in {"down", "lost", "restoring", "ready"}
    /\ socket \in BOOLEAN
    /\ stream \in Seq([kind : {"event", "snapshot"}, upTo : 0..MaxChanges, id : 0..MaxRebuilds])
    /\ changes \in 0..MaxChanges
    /\ attached \in BOOLEAN /\ restorable \in BOOLEAN /\ failed \in BOOLEAN /\ started \in BOOLEAN
    /\ rebuild \in [Rebuilders -> [pc : Steps, id : 0..MaxRebuilds, breaks : Nat,
                                   upTo : 0..MaxChanges, alone : BOOLEAN, loss : 0..MaxLosses]]
    /\ holding \in BOOLEAN /\ held \in Seq(Changes)
    /\ ~holding => held = <<>>
    /\ rebuilding \in BOOLEAN /\ awaited \in BOOLEAN /\ trusted \in BOOLEAN
    /\ breaks \in Nat /\ rebuiltAt \in Nat \cup {-1}
    /\ {model, handed, applied, missed} \subseteq SUBSET Changes
    /\ begun \in 0..MaxRebuilds /\ losses \in 0..MaxLosses

Init ==
    /\ session = "ready" /\ socket = TRUE /\ losses = 0
    /\ stream = <<>> /\ changes = 0
    /\ attached = FALSE /\ restorable = FALSE /\ failed = FALSE /\ started = FALSE
    /\ rebuild = [t \in Rebuilders |-> NoRebuild]
    /\ holding = FALSE /\ held = <<>> /\ awaited = FALSE
    /\ rebuilding = FALSE /\ breaks = 0 /\ rebuiltAt = -1 /\ trusted = TRUE
    /\ model = {} /\ handed = {} /\ applied = {} /\ missed = {}
    /\ begun = 0

\* session.request() lets a request through.
Accepting == session \in {"restoring", "ready"}
Running == {t \in Rebuilders : rebuild[t].pc # "idle"}

\* What _write_venue_positions() writes: every step that changes any of this
\* also writes the key.
Complete == rebuiltAt = breaks /\ ~rebuilding

-----------------------------------------------------------------------------
(* The buffer *)

\* Mutant: every rebuild starts with a buffer of its own.
HoldBufferAfresh ==
    /\ holding' = TRUE
    /\ held' = <<>>
    /\ rebuilding' = TRUE

\* _hold_buffer(): "A rebuild that starts while another holds the buffer joins it."
HoldBuffer ==
    /\ holding' = TRUE
    /\ held' = held
    /\ rebuilding' = TRUE

\* _release_buffer(), for a model that shows shown; a detached client drops what
\* it holds, and a second call finds nothing.
ReleaseBuffer(shown) ==
    LET events == IF attached THEN ToSet(held) ELSE {} IN
    /\ holding' = FALSE /\ held' = <<>>
    /\ awaited' = FALSE
    /\ rebuilding' = FALSE
    /\ model' = shown \cup events
    /\ applied' = applied \cup events

\* Task t begins, alone if no other runs or waits for Nautilus; rebuilds that
\* overlap only share the buffer.
Begin(t, pc) ==
    /\ begun < MaxRebuilds
    /\ begun' = begun + 1
    /\ rebuild' = [u \in Rebuilders |->
          IF u = t
          THEN [pc |-> pc, id |-> begun + 1, breaks |-> breaks, upTo |-> 0,
                alone |-> Running = {} /\ ~awaited', loss |-> losses]
          ELSE [rebuild[u] EXCEPT !.alone = @ /\ u \notin Running]]

Goto(t, pc) == rebuild' = [rebuild EXCEPT ![t].pc = pc]
Ends(t) == rebuild' = [rebuild EXCEPT ![t] = NoRebuild]

-----------------------------------------------------------------------------
(* Attaching and detaching the client *)

\* _connect() from _hold_buffer() to its first request; a detach has cancelled
\* the outbox and so ended the waits for it.
Attach ==
    /\ ~attached /\ session = "ready"
    /\ \A t \in Rebuilders : rebuild[t].pc # "outbox"
    /\ rebuild["connect"].pc = "idle"
    /\ UNCHANGED awaited
    /\ Begin("connect", "trader")
    /\ attached' = TRUE /\ started' = FALSE
    /\ HoldBuffer
    /\ handed' = {} /\ applied' = {}
    /\ UNCHANGED <<linkVars, stream, changes, restorable, failed, breaks, rebuiltAt, model, trusted,
                   missed>>

\* _detach(): the held events are dropped, and the model has stopped following.
Detached ==
    /\ attached' = FALSE /\ restorable' = FALSE /\ failed' = FALSE
    /\ awaited' = FALSE
    /\ holding' = FALSE /\ held' = <<>>
    /\ rebuilding' = FALSE
    /\ breaks' = breaks + 1
    /\ handed' = {}

Detach ==
    /\ attached
    /\ Detached
    /\ UNCHANGED <<linkVars, stream, changes, started, rebuild, rebuiltAt, model, trusted, begun,
                   applied, missed>>

\* The rest of _connect(): reference spots and checkpoint, then the restore; it
\* fails, and detaches, if the client was detached meanwhile.
ConnectEnds ==
    /\ rebuild["connect"].pc = "finishing"
    /\ Ends("connect")
    /\ \/ /\ attached
          /\ restorable' = TRUE
          /\ UNCHANGED <<attached, failed, awaited, holding, held, rebuilding, breaks, handed>>
       \/ ~attached /\ Detached
    /\ UNCHANGED <<linkVars, stream, changes, started, rebuiltAt, model, trusted, begun, applied,
                   missed>>

-----------------------------------------------------------------------------
(* The start of each rebuild *)

\* generate_mass_status(), which Nautilus calls once the client is connected.
Start ==
    /\ attached /\ restorable /\ ~started /\ Accepting
    /\ rebuild["start"].pc = "idle"
    /\ UNCHANGED awaited
    /\ Begin("start", "asked")
    /\ started' = TRUE
    /\ HoldBuffer
    /\ UNCHANGED <<linkVars, stream, changes, attached, restorable, failed, breaks, rebuiltAt, model,
                   trusted, handed, applied, missed>>

\* _learn_position() and _settle_from_broker() begin no rebuild beside another.
BackgroundMayBegin == attached /\ ~holding

Background ==
    /\ BackgroundMayBegin /\ Accepting
    /\ rebuild["background"].pc = "idle"
    /\ UNCHANGED awaited
    /\ Begin("background", "asked")
    /\ HoldBuffer
    /\ UNCHANGED <<linkVars, stream, changes, attached, flagVars, breaks, rebuiltAt, model, trusted,
                   handed, applied, missed>>

\* _reload() up to its first await: the outbox still to be delivered, if any, or
\* its first request.
Reload(t) ==
    /\ awaited' = FALSE
    /\ \E pc \in {"outbox", "trader"} : Begin(t, pc)
    /\ HoldBuffer

\* The account's retry loop.
Retry ==
    /\ session = "ready" /\ restorable /\ failed
    /\ rebuild["retry"].pc = "idle"
    /\ Reload("retry")
    /\ UNCHANGED <<linkVars, stream, changes, attached, flagVars, breaks, rebuiltAt, model, trusted,
                   handed, applied, missed>>

OutboxDelivered(t) ==
    /\ rebuild[t].pc = "outbox"
    /\ \/ attached /\ Goto(t, "trader")
       \/ ~attached /\ Ends(t)
    /\ UNCHANGED <<linkVars, stream, changes, attached, flagVars, holding, held, awaited, modelVars,
                   begun, handed, applied, missed>>

-----------------------------------------------------------------------------
(* Reading the broker *)

\* The trader is read: the read of the broker begins, and notes the breaks.
TraderRead(t) ==
    /\ rebuild[t].pc = "trader" /\ Accepting
    /\ rebuild' = [rebuild EXCEPT ![t].pc = "asked", ![t].breaks = breaks]
    /\ HoldBuffer
    /\ UNCHANGED <<linkVars, stream, changes, attached, flagVars, awaited, breaks, rebuiltAt, model,
                   trusted, begun, handed, applied, missed>>

\* External: the venue answers with the snapshot as the account stands.
VenueAnswers(t) ==
    /\ rebuild[t].pc = "asked" /\ Accepting
    /\ stream' = Append(stream, Snapshot(rebuild[t].id, changes))
    /\ Goto(t, "taken")
    /\ UNCHANGED <<linkVars, changes, attached, flagVars, holding, held, awaited, modelVars, begun,
                   handed, applied, missed>>

\* _on_execution_event() and _on_trailing_stop().
DeliverEvent(c) ==
    \/ /\ attached /\ holding
       /\ held' = Append(held, c)
       /\ handed' = handed \cup {c}
       /\ UNCHANGED <<model, applied, missed>>
    \/ /\ attached /\ ~holding
       /\ model' = model \cup {c}
       /\ applied' = applied \cup {c}
       /\ handed' = handed \cup {c}
       /\ UNCHANGED <<held, missed>>
    \/ /\ ~attached
       /\ missed' = missed \cup {c}
       /\ UNCHANGED <<held, handed, model, applied>>

\* The read loop reads the next message, while its socket is open.
Deliver ==
    /\ stream # <<>>
    /\ stream' = Tail(stream)
    /\ LET message == Head(stream) IN
       \/ /\ message.kind = "event"
          /\ DeliverEvent(message.upTo)
          /\ UNCHANGED rebuild
       \/ /\ message.kind = "snapshot"
          /\ rebuild' = [t \in Rebuilders |->
                IF rebuild[t].pc = "taken" /\ rebuild[t].id = message.id
                THEN [rebuild[t] EXCEPT !.pc = "lists", !.upTo = message.upTo]
                ELSE rebuild[t]]
          /\ UNCHANGED <<held, handed, model, applied, missed>>
    /\ UNCHANGED <<linkVars, changes, attached, flagVars, holding, awaited, rebuilding, breaks,
                   rebuiltAt, trusted, begun>>

\* Mutant: a loss during the read is forgotten.
BreaksOfReadNow(t) == breaks

\* The breaks known when the read began.
BreaksOfRead(t) == rebuild[t].breaks

\* _stand() once the order lists are read, and what its caller does before its
\* next await: _load() releases the buffer, generate_mass_status() waits for
\* Nautilus, _reload() sends the mass status and refreshes the checkpoint.
Stand(t) ==
    /\ rebuild[t].pc = "lists"
    /\ rebuiltAt' = BreaksOfRead(t)
    /\ trusted' = (rebuild[t].alone /\ attached)
    /\ LET shown == 1..rebuild[t].upTo IN
       \/ /\ t \in {"connect", "background"}
          /\ ReleaseBuffer(shown)
          /\ IF t = "connect" THEN Goto(t, "finishing") ELSE Ends(t)
       \/ /\ t = "start"
          /\ model' = shown /\ rebuilding' = FALSE
          /\ awaited' = TRUE
          /\ Ends(t)
          /\ UNCHANGED <<holding, held, applied>>
       \/ /\ t \in {"reload", "retry"}
          /\ model' = shown /\ rebuilding' = FALSE
          /\ Goto(t, "checkpoint")
          /\ UNCHANGED <<holding, held, awaited, applied>>
    /\ UNCHANGED <<linkVars, stream, changes, attached, flagVars, breaks, begun, handed, missed>>

\* A retry's result counts for the bring-up it was made in.
FailedAfter(t, ok) ==
    IF t = "reload" THEN ~ok
    ELSE failed /\ ~(ok /\ session = "ready" /\ rebuild[t].loss = losses)

\* _reload() ends well.
ReloadEnds(t) ==
    /\ t \in {"reload", "retry"}
    /\ rebuild[t].pc = "checkpoint"
    /\ ReleaseBuffer(model)
    /\ failed' = (restorable /\ FailedAfter(t, TRUE))
    /\ Ends(t)
    /\ UNCHANGED <<linkVars, stream, changes, attached, restorable, started, breaks, rebuiltAt, trusted,
                   begun, handed, missed>>

\* Mutant: a pass that fails leaves the buffer to the next one.
FailedPassHolds(t) ==
    /\ failed' = (restorable /\ t \in {"reload", "retry"} /\ FailedAfter(t, FALSE))
    /\ UNCHANGED <<attached, restorable, breaks, handed, holding, held, awaited, rebuilding, model,
                   applied>>

\* A mass status or a _reload() that fails releases the buffer all the same.
FailedPass(t) ==
    /\ ReleaseBuffer(model)
    /\ failed' = IF t \in {"reload", "retry"} THEN restorable /\ FailedAfter(t, FALSE) ELSE failed
    /\ UNCHANGED <<attached, restorable, breaks, handed>>

\* A request of the rebuild fails: refused, timed out or lost with its link.  A
\* _connect() that fails detaches the client.
Fails(t) ==
    /\ rebuild[t].pc \in {"trader", "asked", "taken", "lists", "checkpoint", "finishing"}
    /\ \/ t = "connect" /\ Detached /\ UNCHANGED <<model, applied>>
       \/ t # "connect" /\ FailedPass(t)
    /\ Ends(t)
    /\ UNCHANGED <<linkVars, stream, changes, started, rebuiltAt, trusted, begun, missed>>

\* _on_reconciled(), or _reconciliation_waited() when Nautilus does not.
Reconciled ==
    /\ awaited
    /\ ReleaseBuffer(model)
    /\ UNCHANGED <<linkVars, stream, changes, attached, flagVars, rebuild, breaks, rebuiltAt, trusted,
                   begun, handed, missed>>

-----------------------------------------------------------------------------
(* The account and its session *)

Change ==
    /\ changes < MaxChanges
    /\ changes' = changes + 1
    /\ \/ Accepting /\ stream' = Append(stream, Event(changes + 1)) /\ UNCHANGED missed
       \/ ~Accepting /\ missed' = missed \cup {changes + 1} /\ UNCHANGED stream
    /\ UNCHANGED <<linkVars, attached, flagVars, rebuild, holding, held, awaited, modelVars, begun,
                   handed, applied>>

\* The socket ends with what it carried.
CloseSocket ==
    /\ socket' = FALSE
    /\ stream' = <<>>
    /\ missed' = missed \cup {m.upTo : m \in {n \in ToSet(stream) : n.kind = "event"}}

\* The session is lost: the socket failed, or the venue ended our authentication
\* and events stop while replies already sent may still be read.
Lose ==
    /\ Accepting /\ losses < MaxLosses
    /\ losses' = losses + 1
    /\ session' = "lost"
    /\ CloseSocket \/ UNCHANGED <<socket, stream, missed>>
    /\ UNCHANGED <<changes, attached, flagVars, rebuild, holding, held, awaited, modelVars, begun,
                   handed, applied>>

\* _model_broke(), the loss listener.
ModelBroke ==
    /\ session = "lost"
    /\ session' = "down"
    /\ breaks' = IF attached THEN breaks + 1 ELSE breaks
    /\ UNCHANGED <<socket, losses, stream, changes, attached, flagVars, rebuild, holding, held, awaited,
                   rebuilding, rebuiltAt, model, trusted, begun, handed, applied, missed>>

Teardown ==
    /\ session = "down" /\ socket
    /\ CloseSocket
    /\ UNCHANGED <<session, losses, changes, attached, flagVars, rebuild, holding, held, awaited,
                   modelVars, begun, handed, applied>>

\* A new socket, long after what the loss failed has ended; the restores run.
BringUp ==
    /\ session = "down" /\ ~socket
    /\ \A t \in Rebuilders : rebuild[t].pc \in {"idle", "outbox", "finishing"}
    /\ session' = "restoring" /\ socket' = TRUE
    /\ failed' = FALSE
    /\ \/ restorable /\ Reload("reload")
       \/ /\ ~restorable
          /\ UNCHANGED <<rebuild, begun, awaited, holding, held, rebuilding>>
    /\ UNCHANGED <<losses, stream, changes, attached, restorable, started, breaks, rebuiltAt, model,
                   trusted, handed, applied, missed>>

BecomeReady ==
    /\ session = "restoring" /\ rebuild["reload"].pc = "idle"
    /\ session' = "ready"
    /\ UNCHANGED <<socket, losses, stream, changes, attached, flagVars, rebuild, holding, held, awaited,
                   modelVars, begun, handed, applied, missed>>

Next ==
    \/ Attach \/ Detach \/ ConnectEnds
    \/ Start \/ Background \/ Retry
    \/ \E t \in Rebuilders :
          OutboxDelivered(t) \/ TraderRead(t) \/ VenueAnswers(t) \/ Stand(t) \/ ReloadEnds(t) \/ Fails(t)
    \/ Deliver \/ Reconciled
    \/ Change \/ Lose \/ ModelBroke \/ Teardown \/ BringUp \/ BecomeReady

Spec == Init /\ [][Next]_vars

\* Every request is answered or fails (EveryRequestReturns of Connection), the
\* outbox's wait and the wait for Nautilus are timed.
Fairness ==
    /\ WF_vars(Reconciled)
    /\ \A t \in Rebuilders :
          WF_vars(OutboxDelivered(t) \/ TraderRead(t) \/ Stand(t) \/ ReloadEnds(t) \/ Fails(t))

FairSpec == Spec /\ Fairness

-----------------------------------------------------------------------------
(* Properties *)

\* While the key says complete on a ready session, the model shows every change
\* whose event was lost in an outage or applied to it, provided the rebuild it
\* stands on ran beside no other: a loss in the middle of a read, a read that
\* outlives its authentication, a failed rebuild or a detach is never glossed over.
CompleteIsTrue ==
    session = "ready" /\ attached /\ Complete /\ trusted => missed \cup applied \subseteq model

\* No event is lost between the rebuilds that share the buffer: whatever was
\* handed to the attached client is applied or still held.
HandedIsKept == handed \subseteq applied \cup ToSet(held)

\* generate_mass_status() holds the execution events until Nautilus has reconciled
\* the mass status: no other rebuild applies them first.
HeldUntilReconciled ==
    [][awaited /\ trusted /\ applied' # applied => Reconciled]_vars

\* The buffer is released whatever fails: held events do not wait for ever.
BufferReleased == holding ~> ~holding

\* Execution events held for a mass status wait for Nautilus to reconcile it, and for no
\* longer than that: whatever fails, the buffer is released.
HeldThenReleased == HeldUntilReconciled /\ BufferReleased

\* _load(): "Execution events that arrive meanwhile are applied once it stands, in
\* order."  Violated by rebuilds that overlap: the first to end releases the
\* buffer, events are applied to the model, and the other then stands with a
\* snapshot older than they are.
AppliedStaysApplied ==
    session = "ready" /\ attached /\ Running = {} /\ Complete => applied \subseteq model

=============================================================================
