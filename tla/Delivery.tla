------------------------------- MODULE Delivery -------------------------------
(***************************************************************************)
(* Handing the model's news to Nautilus in order (execution.py).           *)
(*                                                                         *)
(* Nautilus queues an order event and applies it two loop passes later,    *)
(* but a report or an activity at once.  The client tracks each event it   *)
(* sent until Nautilus applied it (or a timer gives it up), and holds a    *)
(* report behind it, with everything after the report, in an outbox that   *)
(* a task delivers.  A command's own answer made meanwhile waits there     *)
(* too.  A detach drops the held records but not the answers; a reconnect  *)
(* waits for the delivery before it reads the broker.                      *)
(*                                                                         *)
(* What is delivered is numbered in the order it was made.  Everything     *)
(* between two awaits is one action.                                       *)
(***************************************************************************)
EXTENDS Integers, Sequences, SequencesExt, FiniteSets

CONSTANTS
    MaxMade,       \* bound: records and answers made
    MaxDetaches,   \* bound: detaches
    MaxReloads     \* bound: reconnects

ASSUME DeliveryAssumption == {MaxMade, MaxDetaches, MaxReloads} \subseteq Nat

VARIABLES
    made,        \* records and answers made so far
    outbox,      \* _outbox
    unapplied,   \* _unapplied: the events tracked
    task,        \* _outbox_task
    wake,        \* _wake: whose future it is, the task's or a cancelled delivery's
    dying,       \* a cancelled delivery has not run its finally yet
    attached,    \* _session is not None, the published events are listened to
    reload,      \* _reload(): not running, waiting for the delivery, or past it
    mark,        \* what was made before the reload
    queue,       \* external: the events Nautilus has not taken yet
    seen,        \* external: what Nautilus took, in its order
    refused,     \* external: events it took and did not apply
    answers,     \* history: the answers to commands made
    loose,       \* history: events in Nautilus's queue at a detach
    detaches, reloads

nautilus == <<queue, seen, refused>>
vars == <<made, outbox, unapplied, task, wake, dying, attached, reload, mark, nautilus,
          answers, loose, detaches, reloads>>

\* An order event of the node's own, a report or an activity, a log line or a wait, and
\* the answer to a command.
RecordKinds == {"event", "report", "notice"}
Item(kind) == [id |-> made + 1, kind |-> kind]
Ids(items) == {items[i].id : i \in DOMAIN items}

TypeOK ==
    /\ made \in 0..MaxMade
    /\ outbox \in Seq([id : 1..MaxMade, kind : RecordKinds \cup {"answer"}])
    /\ unapplied \subseteq 1..MaxMade
    /\ task \in {"none", "started", "waiting", "woken"}
    /\ wake \in {"none", "task", "old"}
    /\ dying \in BOOLEAN /\ attached \in BOOLEAN
    /\ reload \in {"none", "waiting", "pass"} /\ mark \in 0..MaxMade
    /\ queue \in Seq(1..MaxMade) /\ seen \in Seq(1..MaxMade)
    /\ {refused, answers, loose} \subseteq SUBSET (1..MaxMade)
    /\ detaches \in 0..MaxDetaches /\ reloads \in 0..MaxReloads

Init ==
    /\ made = 0 /\ outbox = <<>> /\ unapplied = {}
    /\ task = "none" /\ wake = "none" /\ dying = FALSE
    /\ attached = TRUE /\ reload = "none" /\ mark = 0
    /\ queue = <<>> /\ seen = <<>> /\ refused = {}
    /\ answers = {} /\ loose = {}
    /\ detaches = 0 /\ reloads = 0

-----------------------------------------------------------------------------
(* Tracking the events sent *)

\* _applied_at_once()
AppliedAtOnce(item) == item.kind = "report"

\* _settled(): the event is among its order's events in the cache.
Settled(id) == id \in ToSet(seen) \ refused

\* _check_unapplied(): what is left of the events tracked.
StillUnapplied == {id \in unapplied : ~Settled(id)}

\* Mutant: the last event forgotten wakes nobody.
ForgetUnwoken(left) ==
    /\ unapplied' = left
    /\ UNCHANGED task

\* _forget(): a delivery that waits is woken by the first event forgotten.
Forget(left) ==
    /\ unapplied' = left
    /\ task' = IF task = "waiting" /\ wake = "task" /\ left # unapplied THEN "woken" ELSE task

\* super()._send_order_event(): Nautilus queues the event.
Sends(item) == queue' = Append(queue, item.id)

-----------------------------------------------------------------------------
(* Making a record, or an answer *)

\* Mutant: only a report is held back, behind an event or not.
HeldWithoutOutbox(item) == AppliedAtOnce(item) /\ StillUnapplied # {}

\* Whether _handle_records() puts the record in the outbox.
IsHeld(item) == outbox # <<>> \/ (AppliedAtOnce(item) /\ StillUnapplied # {})

\* _handle_record()
HandleRecord(item) ==
    /\ queue' = IF item.kind = "event" THEN Append(queue, item.id) ELSE queue
    /\ seen' = IF item.kind = "report" THEN Append(seen, item.id) ELSE seen
    /\ UNCHANGED <<outbox, refused>>

\* One record of _handle_records(); the model makes some while detached too, from the
\* answer to a request of before.
Make(kind) ==
    LET item == Item(kind)
        left == IF AppliedAtOnce(item) THEN StillUnapplied ELSE unapplied
        track == IF kind = "event" THEN {item.id} ELSE {}
    IN
    /\ made < MaxMade
    /\ made' = made + 1
    /\ \/ /\ IsHeld(item)
          /\ outbox' = Append(outbox, item)
          /\ IF task = "none" THEN task' = "started" /\ unapplied' = left ELSE Forget(left)
          /\ UNCHANGED nautilus
       \/ /\ ~IsHeld(item)
          /\ HandleRecord(item)
          /\ unapplied' = left \cup track
          /\ UNCHANGED task
    /\ UNCHANGED <<wake, dying, attached, reload, mark, answers, loose, detaches, reloads>>

\* _send_order_event() for the answer to a command, outside the delivery.
Answer ==
    LET item == Item("answer") IN
    /\ made < MaxMade
    /\ made' = made + 1
    /\ answers' = answers \cup {item.id}
    /\ \/ /\ outbox # <<>>
          /\ outbox' = Append(outbox, item)
          /\ UNCHANGED <<unapplied, queue>>
       \/ /\ outbox = <<>>
          /\ Sends(item)
          /\ unapplied' = unapplied \cup {item.id}
          /\ UNCHANGED outbox
    /\ UNCHANGED <<task, wake, dying, attached, reload, mark, seen, refused, loose, detaches,
                   reloads>>

-----------------------------------------------------------------------------
(* The delivery *)

\* What one turn of _deliver_outbox() takes once nothing is unapplied: up to a report
\* behind an event it sent itself.
IsEvent(item) == item.kind \in {"event", "answer"}
Turn ==
    LET blocked == {i \in DOMAIN outbox : /\ AppliedAtOnce(outbox[i])
                                          /\ \E j \in 1..(i - 1) : IsEvent(outbox[j])}
        last == CHOOSE n \in 0..Len(outbox) :
                    /\ \A i \in blocked : n < i
                    /\ n = Len(outbox) \/ n + 1 \in blocked
    IN SubSeq(outbox, 1, last)
\* The ids of the items at some places of a list, in the list's order.
IdsAt(items, places) ==
    LET rank(i) == Cardinality({k \in places : k <= i}) IN
    [n \in 1..Cardinality(places) |-> items[CHOOSE i \in places : rank(i) = n].id]
Events(items) == IdsAt(items, {i \in DOMAIN items : IsEvent(items[i])})
Reports(items) == IdsAt(items, {i \in DOMAIN items : AppliedAtOnce(items[i])})

\* The task takes its turn, and ends or waits for the events it sent.
TakesTurn(turn) ==
    LET rest == SubSeq(outbox, Len(turn) + 1, Len(outbox))
        sent == Events(turn)
    IN
    /\ outbox' = rest
    /\ queue' = queue \o sent
    /\ seen' = seen \o Reports(turn)
    /\ unapplied' = ToSet(sent)
    /\ task' = IF rest = <<>> THEN "none" ELSE "waiting"
    /\ wake' = IF rest = <<>> THEN "none" ELSE "task"

\* _deliver_outbox() from its start, or from a wake, to its next wait or its end.
Deliver ==
    /\ task \in {"started", "woken"}
    /\ \/ /\ StillUnapplied # {}
          /\ unapplied' = StillUnapplied
          /\ task' = "waiting" /\ wake' = "task"
          /\ UNCHANGED <<outbox, queue, seen>>
       \/ StillUnapplied = {} /\ TakesTurn(Turn)
    /\ UNCHANGED <<made, dying, attached, reload, mark, refused, answers, loose, detaches, reloads>>

\* The finally clauses of a cancelled delivery, which may run after another started.
OldEnds ==
    /\ dying
    /\ dying' = FALSE
    /\ wake' = IF wake = "old" THEN "none" ELSE wake
    /\ UNCHANGED <<made, outbox, unapplied, task, attached, reload, mark, nautilus, answers, loose,
                   detaches, reloads>>

-----------------------------------------------------------------------------
(* Nautilus *)

\* External: Nautilus takes the next event and applies it, or refuses it; either is
\* published, and _on_order_event_published() forgets one it finds applied.
NautilusTakes(ok) ==
    /\ queue # <<>>
    /\ queue' = Tail(queue)
    /\ seen' = Append(seen, Head(queue))
    /\ refused' = IF ok THEN refused ELSE refused \cup {Head(queue)}
    /\ IF ok /\ attached THEN Forget(unapplied \ {Head(queue)}) ELSE UNCHANGED <<unapplied, task>>
    /\ UNCHANGED <<made, outbox, wake, dying, attached, reload, mark, answers, loose, detaches,
                   reloads>>

\* _expire(): its timer runs behind the passes in which Nautilus takes the event.
Expire(id) ==
    /\ id \in unapplied \ ToSet(queue)
    /\ Forget(unapplied \ {id})
    /\ UNCHANGED <<made, outbox, wake, dying, attached, reload, mark, nautilus, answers, loose,
                   detaches, reloads>>

-----------------------------------------------------------------------------
(* Detaching and reconnecting *)

\* Mutant: everything held is dropped.
KeptAtDetachNothing(items) == <<>>

\* What a detach still sends, untracked: the answers to commands.
KeptAtDetach(items) == IdsAt(items, {i \in DOMAIN items : items[i].kind = "answer"})

\* The outbox's part of _detach().
Detach ==
    /\ attached /\ detaches < MaxDetaches
    /\ detaches' = detaches + 1
    /\ attached' = FALSE
    /\ queue' = queue \o KeptAtDetach(outbox)
    /\ loose' = loose \cup ToSet(queue')
    /\ outbox' = <<>> /\ unapplied' = {}
    /\ task' = "none"
    /\ dying' = (dying \/ task \in {"waiting", "woken"})
    /\ wake' = IF wake = "task" THEN "old" ELSE wake
    /\ UNCHANGED <<made, reload, mark, seen, refused, answers, reloads>>

\* _connect(); its reads outlast the few passes a cancelled task needs to end.
Attach ==
    /\ ~attached /\ ~dying /\ reload # "waiting"
    /\ attached' = TRUE
    /\ reload' = "none"
    /\ UNCHANGED <<made, outbox, unapplied, task, wake, dying, mark, nautilus, answers, loose,
                   detaches, reloads>>

\* _reload() up to its wait for the delivery.
ReloadStarts ==
    /\ attached /\ reload = "none" /\ reloads < MaxReloads
    /\ reloads' = reloads + 1
    /\ mark' = made
    /\ reload' = IF task = "none" THEN "pass" ELSE "waiting"
    /\ UNCHANGED <<made, outbox, unapplied, task, wake, dying, attached, nautilus, answers, loose,
                   detaches>>

\* The delivery it waits for ended, or was cancelled by a detach; then the reload ends.
\* A delivery that starts right after it is not waited for.
ReloadGoesOn ==
    /\ reload = "waiting"
    /\ task = "none"
    /\ reload' = IF attached THEN "pass" ELSE "none"
    /\ UNCHANGED <<made, outbox, unapplied, task, wake, dying, attached, mark, nautilus, answers,
                   loose, detaches, reloads>>

\* External to this module: the pass, its mass status and the release of the buffer.
ReloadEnds ==
    /\ reload = "pass"
    /\ reload' = "none"
    /\ UNCHANGED <<made, outbox, unapplied, task, wake, dying, attached, mark, nautilus, answers,
                   loose, detaches, reloads>>

-----------------------------------------------------------------------------
Next ==
    \/ \E kind \in RecordKinds : Make(kind)
    \/ Answer
    \/ Deliver
    \/ OldEnds
    \/ \E ok \in BOOLEAN : NautilusTakes(ok)
    \/ \E id \in unapplied : Expire(id)
    \/ Detach
    \/ Attach
    \/ ReloadStarts
    \/ ReloadGoesOn
    \/ ReloadEnds

Spec == Init /\ [][Next]_vars

\* The loop runs its tasks and timers, Nautilus its queue.
Fairness ==
    /\ WF_vars(Deliver) /\ WF_vars(OldEnds)
    /\ WF_vars(\E ok \in BOOLEAN : NautilusTakes(ok))
    /\ WF_vars(\E id \in unapplied : Expire(id))
    /\ WF_vars(ReloadGoesOn)

FairSpec == Spec /\ Fairness

-----------------------------------------------------------------------------
(* Properties *)

\* Nautilus learns of things in the order the client made them: no report overtakes an
\* event and no event a report held before it (_handle_records(), _send_order_event()).
\* An event that was in Nautilus's queue at a detach is no longer tracked: a record made
\* before Nautilus takes it may overtake that one.
InOrder ==
    \A i, j \in DOMAIN seen : (i < j /\ seen[j] \notin loose) => seen[i] < seen[j]

\* Whatever the outbox holds has a delivery, and one that waits will be woken: _wake is
\* its own future and an event is tracked.  The finally of a delivery a detach cancelled
\* takes neither from the delivery that replaced it.
NothingStranded ==
    /\ outbox # <<>> => task # "none"
    /\ task = "waiting" => (wake = "task" /\ unapplied # {})

\* The answer to a command is never lost, by a detach neither: Nautilus has it, queues
\* it, or it waits in the outbox ("no reconciliation restores them", _detach()).
AnswersKept == answers \subseteq ToSet(seen) \cup ToSet(queue) \cup Ids(outbox)

\* What the model said before the reconnect reaches Nautilus before the pass's reports
\* (_reload()).
ReloadAfterOutbox == reload = "pass" => \A i \in DOMAIN outbox : outbox[i].id > mark

\* Nothing Nautilus is told is overtaken or stranded: it is taken in the order it was made,
\* what waits has a delivery that will be woken, and a reload's reports come last.
ToldInOrder == InOrder /\ NothingStranded /\ ReloadAfterOutbox

\* However Nautilus treats the events sent, the outbox is delivered in the end.
OutboxDelivered == []<>(outbox = <<>>)

=============================================================================
