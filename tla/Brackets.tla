------------------------------- MODULE Brackets -------------------------------
(***************************************************************************)
(* The node's bracket on one position: its two protective legs, their      *)
(* cancels and modifies, and the amends that carry them (execution.py,     *)
(* operations.py).                                                         *)
(*                                                                         *)
(* An entry carries its levels as distances, so the broker sets them near  *)
(* the asked prices.  Until one correcting amend has set them exactly, the *)
(* bracket is pending and carries the commands on its legs; afterwards a   *)
(* command is an amend of its own.  The amends of a position go one at a   *)
(* time, each is tried a few times, and its answer may be late or lost     *)
(* with the connection.                                                    *)
(*                                                                         *)
(* A price is a small number, a level the broker does not hold is 0.  The  *)
(* broker's messages come in order, each applied as it is read; VenueSync  *)
(* has events that overtake an answer.  Everything between two awaits is   *)
(* one action.                                                             *)
(***************************************************************************)
EXTENDS Integers, Sequences, SequencesExt, FiniteSets

CONSTANTS
    AmendAttempts,      \* _AMEND_ATTEMPTS
    CorrectionRounds,   \* _CORRECTION_ROUNDS
    MaxCommands,        \* bound: cancels and modifies
    MaxMoves,           \* bound: moves by a trader, amends refused or not taken whole, failed reads
    MaxTimeouts,        \* bound: requests whose answer is late
    MaxLosses           \* bound: lost connections

ASSUME BracketsAssumption ==
    /\ {AmendAttempts, CorrectionRounds} \subseteq Nat \ {0}
    /\ {MaxCommands, MaxMoves, MaxTimeouts, MaxLosses} \subseteq Nat

Level == {"SL", "TP"}
Asked == 1      \* the price asked for each level
Near == 2       \* where the broker sets it from the distance
Other == 3      \* the price of a modify or of a trader's move
Prices == {Asked, Near, Other}
Levels == [Level -> {0} \cup Prices]
None == [l \in Level |-> 0]
NoPromise == -1

VARIABLES
    broker,    \* external: the position at the broker, its levels, and (history) those a
               \* trader touched
    stream,    \* external: the broker's messages not read yet
    link,      \* "up", or "down" until the reconnect's pass
    entry,     \* the entry's request: "sent", "answered", "refused", "unknown"
    node,      \* the client: the record NewNode
    counts     \* history: what the bounds bound

vars == <<broker, stream, link, entry, node, counts>>

-----------------------------------------------------------------------------
(* The client's state *)

\* The position as the venue model shows it (PositionView).
NoView == [state |-> "none", levels |-> None, alive |-> [l \in Level |-> TRUE],
           accepted |-> [l \in Level |-> FALSE]]
Protected(view) == view.levels # None

\* PendingBracket; unanswered is None while heldRound is 0, else the levels of the lost
\* amend of that round (`is`, not `==`).
NewBracket == [pending |-> TRUE, requested |-> [l \in Level |-> Asked], cancels |-> {},
               modified |-> {}, correcting |-> FALSE, rounds |-> 0, unanswered |-> None,
               heldRound |-> 0, answerLost |-> FALSE, retry |-> FALSE]

\* One amend: what it is for, and the levels it removes and moves.
Amend(kind, round, cancels, moves) ==
    [kind |-> kind, round |-> round, cancels |-> cancels, moves |-> moves]
NoAmend == Amend("none", 0, {}, None)
NotSending == [amend |-> NoAmend, levels |-> None, attempt |-> 0, lost |-> FALSE, sent |-> FALSE]

NewNode == [
    view |-> NoView,
    bracket |-> NewBracket,
    queue |-> <<>>,               \* the amends waiting for the position's lock
    sending |-> NotSending,       \* the one that holds it
    rebuild |-> "none",           \* _settle_from_broker(): "none", "asked", "reading"
    held |-> <<>>,                \* the messages its buffer holds
    aliveBefore |-> {},           \* the legs alive as it began
    holds |-> {},                 \* the rounds a release timer is armed for
    wait |-> "none",              \* the wait for the protective order
    \* External: Nautilus's orders, and the commands it waits on.
    orders |-> [l \in Level |-> [status |-> "submitted", price |-> Asked]],
    asked |-> [l \in Level |-> {}],
    promised |-> [l \in Level |-> NoPromise],   \* history: what was answered done
    blind |-> FALSE,                            \* history: an amend's answer is still lost
    stale |-> FALSE,                            \* history: an amend was made up, or a bracket
                                                \* found done, meanwhile
    untold |-> {},                              \* history: see LegsShowBroker
    wronged |-> {}]                             \* history: refusals of what the broker holds

\* A bracket just submitted; an instance may begin with some of its bounds used up.
Submitted ==
    /\ broker = [state |-> "none", levels |-> None, touched |-> {}]
    /\ stream = <<>>
    /\ link = "up"
    /\ entry = "sent"
    /\ node = NewNode

Nothing == [commands |-> 0, moves |-> 0, timeouts |-> 0, losses |-> 0]
Init == Submitted /\ counts = Nothing

OpenOrders == {"submitted", "accepted"}

-----------------------------------------------------------------------------
(* What the client tells Nautilus of a leg *)

\* External: Nautilus closes the order, whatever it waited on.
Ends(n, l, status) ==
    IF n.orders[l].status \notin OpenOrders THEN n
    ELSE [n EXCEPT !.orders[l].status = status, !.asked[l] = {},
                   !.promised[l] = IF status = "canceled" /\ \E c \in n.asked[l] : c.kind = "cancel"
                                   THEN 0 ELSE NoPromise]

\* _leg_updated(), or a level the model tells moved.
Updated(n, l, price) ==
    [n EXCEPT !.orders[l].price = price,
              !.asked[l] = {c \in @ : c.kind # "modify"},
              !.promised[l] = IF \E c \in n.asked[l] : c.kind = "modify" /\ c.price = price
                              THEN price ELSE @]

\* _cancel_rejected() and _modify_rejected() of a command for price, 0 for a cancel; it is
\* wrong if the broker holds that price, set by an amend and not by a trader.
Rejected(n, l, price) ==
    LET refused == {c \in n.asked[l] : (c.kind = "cancel") = (price = 0)}
        wrong == /\ broker.state = "open" /\ l \notin broker.touched
                 /\ n.orders[l].status \in OpenOrders
                 /\ price # 0 \/ n.view.accepted[l]
                 /\ broker.levels[l] = price
    IN [n EXCEPT !.asked[l] = @ \ refused,
                 !.wronged = IF ~wrong THEN @
                             ELSE @ \cup {[carried |-> n.bracket.pending, lost |-> n.blind,
                                           shown |-> n.view.levels[l] = price]}]

\* f(n, l) for each level of ls, in order.
ForEach(f(_, _), n, ls) == FoldLeft(f, n, SelectSeq(<<"SL", "TP">>, LAMBDA l : l \in ls))

-----------------------------------------------------------------------------
(* The venue model, as VenueBook details it *)

\* cancel_leg(): a live leg whose level the broker does not hold.
CancelLeg(n, l) ==
    IF n.view.alive[l] /\ n.view.levels[l] = 0
    THEN Ends([n EXCEPT !.view.alive[l] = FALSE], l, "canceled") ELSE n

\* One level as the broker states it: its leg is accepted, moved or cancelled.
Takes(n, l, price) ==
    LET was == n.view.levels[l]
        next == [n EXCEPT !.view.levels[l] = price] IN
    IF ~n.view.alive[l] THEN next
    ELSE IF price = 0
    THEN IF was = 0 THEN next ELSE Ends([next EXCEPT !.view.alive[l] = FALSE], l, "canceled")
    ELSE IF ~n.view.accepted[l]
    THEN [next EXCEPT !.view.accepted[l] = TRUE,
                      !.orders[l].status = IF @ = "submitted" THEN "accepted" ELSE @]
    ELSE IF was # price THEN Updated(next, l, price) ELSE next

TakesLevels(n, levels) == ForEach(LAMBDA m, l : Takes(m, l, levels[l]), n, Level)

\* reject_legs(): the broker refused the levels of the live legs it never accepted.
RejectLegs(n) ==
    ForEach(LAMBDA m, l : Ends([m EXCEPT !.view.alive[l] = FALSE], l, "rejected"), n,
            {l \in Level : n.view.alive[l] /\ ~n.view.accepted[l]})

\* reject_entry(): the legs of an entry the broker refused go with it.
RejectEntry(n) == ForEach(LAMBDA m, l : Ends(m, l, "canceled"), n, Level)

\* protection_timed_out(): the live legs the broker holds no level for.
Unprotected(v) ==
    {l \in Level : v.state = "open" /\ v.alive[l] /\ (~Protected(v) \/ ~v.accepted[l])}

\* The position closes: the leg that filled, if one did, and the rest cancelled.
Closes(n, filled) ==
    [ForEach(LAMBDA m, l : Ends(m, l, IF l = filled THEN "filled" ELSE "canceled"), n,
             {l \in Level : n.view.alive[l]})
     EXCEPT !.view.state = "closed", !.view.levels = None, !.view.alive = [l \in Level |-> FALSE]]

-----------------------------------------------------------------------------
(* Ending and settling the bracket *)

Forgotten(n) == [n EXCEPT !.bracket.pending = FALSE, !.bracket.retry = FALSE]

\* _end_bracket()
EndBracket(n) ==
    IF ~n.bracket.pending THEN n
    ELSE Forgotten(ForEach(LAMBDA m, l : Rejected(m, l, n.bracket.requested[l]), n,
                           n.bracket.modified \ n.bracket.cancels))

\* _end_closed_bracket()
EndClosedBracket(n) == IF n.bracket.answerLost THEN Forgotten(n) ELSE EndBracket(n)

\* _bracket_done()
BracketDone(n) ==
    LET b == n.bracket
        kept == {l \in Level : n.view.alive[l] /\ n.view.levels[l] # 0}
        cancelled == ForEach(CancelLeg, Forgotten(n), b.cancels)
        told == ForEach(LAMBDA m, l : Updated(m, l, n.view.levels[l]), cancelled,
                        {l \in b.modified \ b.cancels : n.view.levels[l] # 0})
    IN [told EXCEPT !.stale = @ \/ n.blind \/ n.sending.lost, !.promised = [l \in Level |->
            IF l \in kept \ b.cancels THEN n.view.levels[l] ELSE told.promised[l]]]

\* Mutant: nothing says where the levels stay.
BracketRefusedSilently(n) ==
    LET b == n.bracket IN
    Forgotten(ForEach(LAMBDA m, l : Rejected(m, l, IF l \in b.cancels THEN 0 ELSE b.requested[l]),
                      n, b.cancels \cup b.modified))

\* _bracket_refused(): what it carries is refused, and every leg says where it stands.
BracketRefused(n) ==
    LET b == n.bracket
        refuse(m, l) == Rejected(m, l, IF l \in b.cancels THEN 0 ELSE b.requested[l])
        says(m, l) == Updated(m, l, n.view.levels[l])
        refused == Forgotten(ForEach(refuse, n, b.cancels \cup b.modified))
    IN ForEach(says, refused, {l \in Level : n.view.alive[l] /\ n.view.levels[l] # 0})

\* _wanted_levels()
Wanted(n) ==
    [l \in Level |-> IF l \in n.bracket.cancels THEN 0
                     ELSE IF n.view.alive[l] THEN n.bracket.requested[l]
                     ELSE n.view.levels[l]]


\* _hold_unanswered()
HoldUnanswered(n, round) == [n EXCEPT !.holds = @ \cup {round}]

\* _settle_brackets(): a bracket whose position closed ends, one whose levels stand is
\* done, a lost amend is waited for, and any other gets a round, a rebuild or a refusal.
Settle(n) ==
    LET b == n.bracket
        v == n.view
        wanted == Wanted(n)
        starts == [n EXCEPT !.bracket.correcting = TRUE]
    IN CASE ~b.pending \/ b.correcting -> n
         [] v.state = "closed" -> EndClosedBracket(n)
         [] v.state = "none" \/ ~Protected(v) -> n
         [] wanted = v.levels -> BracketDone(n)
         [] b.heldRound # 0 /\ wanted = b.unanswered -> n
         [] b.rounds < CorrectionRounds ->
                [starts EXCEPT !.bracket.rounds = @ + 1,
                               !.queue = Append(@, Amend("correct", b.rounds + 1, {}, None))]
         [] b.answerLost -> IF b.retry THEN n ELSE [starts EXCEPT !.rebuild = "asked"]
         [] OTHER -> BracketRefused(n)

-----------------------------------------------------------------------------
(* What each amend does once it has its outcome *)

\* _correct(); held says that its answer was lost.
Corrected(n, outcome, round, levels) ==
    LET over == [n EXCEPT !.bracket.correcting = FALSE]
        lost == outcome = "unknown"
        settled == Settle([over EXCEPT !.bracket.answerLost = lost,
                                       !.bracket.unanswered = IF lost THEN levels ELSE None,
                                       !.bracket.heldRound = IF lost THEN round ELSE 0])
        b == settled.bracket
    IN IF outcome = "refused" THEN BracketRefused(over)
       ELSE IF b.heldRound = round /\ ~b.correcting /\ b.pending
       THEN HoldUnanswered(settled, round) ELSE settled

\* _set_missing_levels(); refused, the legs without a level are rejected.
MissingSet(n, outcome) ==
    IF outcome # "refused" THEN Settle(n)
    ELSE LET unsaid == {l \in Level : n.bracket.pending /\ n.view.accepted[l]} IN
         RejectLegs(EndBracket([n EXCEPT !.untold = @ \cup unsaid]))

\* _answer_cancels()
AnswerCancel(n, l) == IF n.view.levels[l] # 0 THEN Rejected(n, l, 0) ELSE CancelLeg(n, l)

\* _answer_move(), by the model when nothing was sent, else by the answer.
AnswerMove(n, l, wanted, held) ==
    IF held # wanted THEN Rejected(n, l, wanted) ELSE Updated(n, l, n.view.levels[l])

\* _amend_legs(); ended are the moves whose leg ended before the lock was had.
LegsAmended(n, outcome, amend, ended, held) ==
    LET m == ForEach(LAMBDA o, l : Rejected(o, l, amend.moves[l]), n, ended)
        moves == {l \in Level : amend.moves[l] # 0} \ ended
        refuse(o, l) == Rejected(o, l, amend.moves[l])
        move(o, l) == AnswerMove(o, l, amend.moves[l], held[l])
    IN CASE outcome = "unknown" -> m
         [] outcome = "refused" -> ForEach(refuse, m, amend.cancels \cup moves)
         [] outcome = "answered" -> ForEach(move, ForEach(AnswerCancel, m, amend.cancels), moves)

\* The moves left out of the levels sent: their leg had ended when the lock was had.
EndedMoves(amend, levels) == {l \in Level : amend.moves[l] \notin {0, levels[l]}}

\* What follows an amend: its outcome, the levels it asked for and those answered.
Continue(n, amend, outcome, levels, held, ended) ==
    CASE amend.kind = "correct" -> Corrected(n, outcome, amend.round, levels)
      [] amend.kind = "missing" -> MissingSet(n, outcome)
      [] amend.kind = "legs" -> LegsAmended(n, outcome, amend, ended, held)

-----------------------------------------------------------------------------
(* Sending an amend *)

\* levels_of(), as the amend has the lock.
LevelsOf(n, amend) ==
    CASE amend.kind = "correct" -> Wanted(n)
      [] amend.kind = "missing" ->
            [l \in Level |-> IF l \in amend.cancels \ n.bracket.cancels
                             THEN n.bracket.requested[l] ELSE n.view.levels[l]]
      [] amend.kind = "legs" ->
            [l \in Level |-> IF l \in amend.cancels THEN 0
                             ELSE IF amend.moves[l] # 0 /\ n.view.alive[l] THEN amend.moves[l]
                             ELSE n.view.levels[l]]

\* _amend() once the amends before it are answered: refused, nothing to send, or sent.
AmendStarts ==
    /\ node.queue # <<>> /\ node.sending = NotSending
    /\ LET amend == Head(node.queue)
           n == [node EXCEPT !.queue = Tail(@), !.stale = @ \/ node.blind]
           levels == LevelsOf(n, amend)
           ended == EndedMoves(amend, levels)
       IN node' = IF n.view.state # "open" THEN Continue(n, amend, "refused", levels, levels, {})
                  ELSE IF levels = n.view.levels
                  THEN Continue(n, amend, "answered", levels, levels, ended)
                  ELSE [n EXCEPT !.sending = [amend |-> amend, levels |-> levels, attempt |-> 1,
                                              lost |-> FALSE, sent |-> FALSE]]
    /\ UNCHANGED <<broker, stream, link, entry, counts>>

\* Mutant: a later attempt's refusal or failure stands for the lost one.
AmendEndsAsLast(n, outcome, held) ==
    Continue([n EXCEPT !.sending = NotSending], n.sending.amend, outcome, n.sending.levels, held,
             EndedMoves(n.sending.amend, n.sending.levels))

\* The amend ends; a refusal says nothing of an attempt that was lost before it
\* (_send_amend()).
AmendEnds(n, outcome, held) ==
    LET s == n.sending
        known == IF outcome # "answered" /\ s.lost THEN "unknown" ELSE outcome
        over == [n EXCEPT !.sending = NotSending, !.blind = @ \/ known = "unknown"]
    IN Continue(over, s.amend, known, s.levels, held, EndedMoves(s.amend, s.levels))

\* An attempt that ends without an answer: again, or given up.
AttemptEnds(n) ==
    IF n.sending.attempt < AmendAttempts
    THEN [n EXCEPT !.sending.attempt = @ + 1, !.sending.sent = FALSE]
    ELSE AmendEnds(n, "refused", None)
AttemptLost(n) == AttemptEnds([n EXCEPT !.sending.lost = TRUE])

Waiting == node.sending # NotSending /\ ~node.sending.sent

\* External: the broker takes the amend, all of it or one level, and answers with its
\* levels, keeps its own, or refuses; an amend that changes nothing is answered.
Message(kind, levels) == [kind |-> kind, levels |-> levels, leg |-> "none"]
AmendSent ==
    /\ Waiting /\ link = "up"
    /\ node' = [node EXCEPT !.sending.sent = TRUE]
    /\ \/ /\ broker.state = "open"
          /\ broker' = [broker EXCEPT !.levels = node.sending.levels]
          /\ stream' = Append(stream, Message("answer", broker'.levels))
          /\ UNCHANGED counts
       \/ /\ counts.moves < MaxMoves /\ node.sending.levels # broker.levels
          /\ counts' = [counts EXCEPT !.moves = @ + 1]
          /\ \/ /\ broker.state = "open"
                /\ \E l \in Level :
                        broker' = [broker EXCEPT !.levels[l] = node.sending.levels[l]]
                /\ stream' = Append(stream, Message("answer", broker'.levels))
             \/ /\ stream' = Append(stream, Message("refusal", None))
                /\ UNCHANGED broker
       \/ /\ broker.state # "open"
          /\ stream' = Append(stream, Message("refusal", None))
          /\ UNCHANGED <<broker, counts>>
    /\ UNCHANGED <<link, entry>>

\* An attempt that never left, the connection down.
AmendNotSent ==
    /\ Waiting /\ link = "down"
    /\ node' = AttemptEnds(node)
    /\ UNCHANGED <<broker, stream, link, entry, counts>>

\* The answer does not come in time: if it comes, it comes late.
AmendTimesOut ==
    /\ node.sending.sent /\ counts.timeouts < MaxTimeouts
    /\ counts' = [counts EXCEPT !.timeouts = @ + 1]
    /\ node' = AttemptLost(node)
    /\ stream' = [i \in DOMAIN stream |->
                    IF stream[i].kind \in {"answer", "refusal"}
                    THEN [stream[i] EXCEPT !.kind = IF @ = "answer" THEN "late" ELSE "nothing"]
                    ELSE stream[i]]
    /\ UNCHANGED <<broker, link, entry>>

-----------------------------------------------------------------------------
(* The entry *)

\* _open(): its request is refused, or gets no answer.
EntryRefused ==
    /\ entry = "sent" /\ broker.state = "none"
    /\ entry' = "refused"
    /\ node' = RejectEntry(EndBracket(node))
    /\ UNCHANGED <<broker, stream, link, counts>>

EntryUnknown ==
    /\ entry = "sent" /\ counts.timeouts < MaxTimeouts
    /\ counts' = [counts EXCEPT !.timeouts = @ + 1]
    /\ entry' = "unknown"
    /\ UNCHANGED <<broker, stream, link, node>>

\* External: the broker fills the entry.
EntryFills ==
    /\ entry \in {"sent", "unknown"} /\ broker.state = "none" /\ link = "up"
    /\ broker' = [broker EXCEPT !.state = "open"]
    /\ stream' = Append(stream, Message("filled", None))
    /\ entry' = "answered"
    /\ UNCHANGED <<link, node, counts>>

\* The wait for the protective order ends: protection_timed_out() and the first part of
\* _set_missing_levels().
ProtectionWaited ==
    /\ node.wait = "armed"
    /\ LET missing == Unprotected(node.view)
           waited == [node EXCEPT !.wait = "over"]
           \* No amend stands behind these cancels: a late protective order may bring the level.
           cancelled == [ForEach(CancelLeg, waited, node.bracket.cancels)
                         EXCEPT !.promised = node.promised]
           refused == MissingSet(waited, "refused")
       IN node' = IF missing = {} THEN waited
                  ELSE IF ~node.bracket.pending THEN refused
                  ELSE IF missing \subseteq node.bracket.cancels THEN cancelled
                  ELSE [cancelled EXCEPT !.queue = Append(@, Amend("missing", 0, missing, None))]
    /\ UNCHANGED <<broker, stream, link, entry, counts>>

-----------------------------------------------------------------------------
(* The commands *)

MayAsk(l) == node.orders[l].status \in OpenOrders /\ ~\E c \in node.asked[l] : c.kind = "cancel"
Ask(n, l, kind, price) ==
    [n EXCEPT !.asked[l] = @ \cup {[kind |-> kind, price |-> price]}, !.promised[l] = NoPromise]

\* _cancel() of the legs ls: carried by the bracket, sent in one amend, or refused.
Cancel(ls) ==
    /\ counts.commands < MaxCommands /\ \A l \in ls : MayAsk(l)
    /\ counts' = [counts EXCEPT !.commands = @ + 1]
    /\ LET n == ForEach(LAMBDA m, l : Ask(m, l, "cancel", 0), node, ls)
           live == {l \in ls : n.view.alive[l]}
           rest == ForEach(LAMBDA m, l : Rejected(m, l, 0), n, ls \ live)
       IN node' = IF n.bracket.pending THEN Settle([n EXCEPT !.bracket.cancels = @ \cup ls])
                  ELSE IF live = {} THEN rest
                  ELSE [rest EXCEPT !.queue = Append(@, Amend("legs", 0, live, None))]
    /\ UNCHANGED <<broker, stream, link, entry>>

\* _modify() of leg l.
Modify(l, price) ==
    /\ counts.commands < MaxCommands /\ MayAsk(l) /\ node.asked[l] = {}
    /\ counts' = [counts EXCEPT !.commands = @ + 1]
    /\ LET n == Ask(node, l, "modify", price) IN
       node' = IF n.bracket.pending
               THEN Settle([n EXCEPT !.bracket.requested[l] = price,
                                     !.bracket.modified = @ \cup {l}])
               ELSE IF ~n.view.alive[l] THEN Rejected(n, l, price)
               ELSE [n EXCEPT !.queue = Append(@, Amend("legs", 0, {}, [None EXCEPT ![l] = price]))]
    /\ UNCHANGED <<broker, stream, link, entry>>

-----------------------------------------------------------------------------
(* Settling a bracket from the broker *)

\* _settle_from_broker() asks for the snapshot.
RebuildAsks ==
    /\ node.rebuild = "asked" /\ link = "up"
    /\ node' = [node EXCEPT !.rebuild = "reading",
                            !.aliveBefore = {l \in Level : node.view.alive[l]}]
    /\ stream' = Append(stream, Message(IF broker.state = "open" THEN "snapshot" ELSE "gone",
                                        broker.levels))
    /\ UNCHANGED <<broker, link, entry, counts>>

\* A message of the position is applied to the model.
Applied(n, message) ==
    CASE message.kind = "filled" -> [n EXCEPT !.view.state = "open", !.wait = "armed"]
      [] message.kind \in {"protected", "moved", "late"} -> TakesLevels(n, message.levels)
      [] message.kind = "closed" -> Closes(n, message.leg)

\* _release_buffer() of a failed rebuild: what it held is applied, in order.
ReleaseHeld(n) == [FoldLeft(Applied, n, n.held) EXCEPT !.held = <<>>]

\* _retry_settle(): the rebuild failed, and a timer tries again.
RetrySettle(n) ==
    [ReleaseHeld(n) EXCEPT !.rebuild = "none", !.bracket.correcting = FALSE,
                           !.bracket.retry = n.bracket.pending]

\* A lost amend's answer is still to be read.
LateIn(messages) == \E i \in DOMAIN messages : messages[i].kind \in {"late", "nothing"}

RebuildFails ==
    /\ \/ node.rebuild = "asked" /\ link = "down"
       \/ node.rebuild = "reading" /\ link = "up" /\ counts.moves < MaxMoves
    /\ counts' = [counts EXCEPT !.moves = IF link = "up" THEN @ + 1 ELSE @]
    /\ stream' = SelectSeq(stream, LAMBDA m : m.kind \notin {"snapshot", "gone"})
    /\ node' = RetrySettle([node EXCEPT !.blind = @ /\ (link = "up" => LateIn(stream'))])
    /\ UNCHANGED <<broker, link, entry>>

\* The timers: of a failed rebuild, and of a lost amend held.
Retried ==
    /\ node.bracket.retry
    /\ node' = Settle([node EXCEPT !.bracket.retry = FALSE])
    /\ UNCHANGED <<broker, stream, link, entry, counts>>

Released(round) ==
    /\ round \in node.holds
    /\ LET n == [node EXCEPT !.holds = @ \ {round}] IN
       node' = IF n.bracket.pending /\ n.bracket.heldRound = round
               THEN Settle([n EXCEPT !.bracket.unanswered = None, !.bracket.heldRound = 0]) ELSE n
    /\ UNCHANGED <<broker, stream, link, entry, counts>>

\* The rebuilt model: it takes the broker's levels without an event, and a leg whose
\* level is gone is dead.
Loaded(n, levels) ==
    [n EXCEPT !.view.levels = levels,
              !.view.alive = [l \in Level |->
                    n.view.alive[l] /\ (levels[l] # 0 \/ ~n.view.accepted[l])],
              !.bracket.unanswered = None, !.bracket.heldRound = 0, !.blind = FALSE]

\* _answer_as_held(): a leg the rebuild ended is cancelled, a standing one is told, or
\* its command sent, all in one amend.
AnswerAsHeld(n, ended) ==
    LET b == n.bracket
        standing == {l \in node.aliveBefore \ ended : n.view.alive[l] /\ n.view.levels[l] # 0}
        cancels == standing \cap b.cancels
        moved == {l \in (standing \ cancels) \cap b.modified : n.view.levels[l] # b.requested[l]}
        says == {l \in standing \ (cancels \cup moved) :
                    l \in b.modified \/ n.view.levels[l] # n.orders[l].price}
        ends == [ForEach(LAMBDA m, l : Ends(m, l, "canceled"), n, ended)
                 EXCEPT !.untold = @ \cup {l \in cancels \cup moved :
                                             n.view.levels[l] # n.orders[l].price}]
        told == ForEach(LAMBDA m, l : Updated(m, l, n.view.levels[l]), ends, says)
        moves == [l \in Level |-> IF l \in moved THEN b.requested[l] ELSE 0]
    IN IF cancels \cup moved = {} THEN told
       ELSE [told EXCEPT !.queue = Append(@, Amend("legs", 0, cancels, moves))]

\* The rebuild stands.  Of what it held only a close is newer than the snapshot, and it
\* answers the legs; else the bracket is answered as the broker holds them.
RebuildStands(message) ==
    LET n == [node EXCEPT !.rebuild = "none", !.held = <<>>, !.bracket.correcting = FALSE]
        closes == SelectSeq(node.held, LAMBDA m : m.kind = "closed")
        gone == message.kind = "gone"
        loaded == IF gone THEN n ELSE Loaded(n, message.levels)
        ended == {l \in node.aliveBefore : ~loaded.view.alive[l]}
    IN IF closes # <<>> THEN Forgotten(Applied(loaded, Head(closes)))
       ELSE IF ~loaded.bracket.pending THEN loaded
       ELSE AnswerAsHeld(Forgotten(loaded), ended)

-----------------------------------------------------------------------------
(* The broker's messages *)

\* The next message is read: applied to the model, held by a rebuild, or the outcome of
\* the amend under way.
Read ==
    /\ stream # <<>>
    /\ stream' = Tail(stream)
    /\ LET message == Head(stream)
           n == node
           blind == node.blind /\ LateIn(Tail(stream))
       IN node' = CASE message.kind = "nothing" -> [n EXCEPT !.blind = blind]
                    [] message.kind \in {"snapshot", "gone"} -> RebuildStands(message)
                    [] message.kind = "refusal" -> AmendEnds(n, "refused", None)
                    [] message.kind = "answer" ->
                          AmendEnds(Settle(TakesLevels(n, message.levels)),
                                    "answered", message.levels)
                    [] n.rebuild = "reading" -> [n EXCEPT !.held = Append(@, message)]
                    [] message.kind = "late" -> Settle(Applied([n EXCEPT !.blind = blind], message))
                    [] OTHER -> Settle(Applied(n, message))
    /\ UNCHANGED <<broker, link, entry, counts>>

\* External: the broker sets the levels the entry carried.
BrokerProtects ==
    /\ link = "up" /\ broker.state = "open" /\ broker.levels = None /\ counts.moves = 0
    /\ \A l \in Level : ~node.view.accepted[l] /\ node.view.alive[l]
    /\ broker' = [broker EXCEPT !.levels = [l \in Level |-> Near]]
    /\ stream' = Append(stream, Message("protected", broker'.levels))
    /\ UNCHANGED <<link, entry, node, counts>>

\* External: a trader moves or removes a level.
TraderMoves(l, price) ==
    /\ link = "up" /\ broker.state = "open" /\ broker.levels[l] \notin {0, price}
    /\ counts.moves < MaxMoves
    /\ counts' = [counts EXCEPT !.moves = @ + 1]
    /\ broker' = [broker EXCEPT !.levels[l] = price, !.touched = @ \cup {l}]
    /\ stream' = Append(stream, Message("moved", broker'.levels))
    /\ UNCHANGED <<link, entry, node>>

\* External: the position closes, by a leg or not, the connection up or down.
BrokerCloses(leg) ==
    /\ broker.state = "open" /\ (leg = "none" \/ (leg \in Level /\ broker.levels[leg] # 0))
    /\ broker' = [broker EXCEPT !.state = "closed", !.levels = None]
    /\ stream' = IF link = "down" THEN stream
                 ELSE Append(stream, [Message("closed", None) EXCEPT !.leg = leg])
    /\ UNCHANGED <<link, entry, node, counts>>

-----------------------------------------------------------------------------
(* A lost connection *)

\* What was not read is lost, the amend's answer with it, and a rebuild fails.
Loses ==
    /\ link = "up" /\ counts.losses < MaxLosses
    /\ counts' = [counts EXCEPT !.losses = @ + 1]
    /\ link' = "down"
    /\ stream' = <<>>
    /\ LET n == IF node.rebuild = "reading" THEN RetrySettle(node) ELSE node IN
       node' = IF n.sending.sent THEN AttemptLost(n) ELSE n
    /\ entry' = IF entry = "sent" THEN "unknown" ELSE entry
    /\ UNCHANGED broker

\* External: Nautilus reconciles the pass's report of a leg.
Reconciled(n, l) ==
    IF broker.state # "open" \/ broker.levels[l] = 0
    THEN [Ends(n, l, "canceled") EXCEPT !.promised[l] = NoPromise]
    ELSE IF n.orders[l].status \notin OpenOrders THEN n
    ELSE LET a == [n EXCEPT !.orders[l].status = "accepted"] IN
         IF n.orders[l].price # broker.levels[l] THEN Updated(a, l, broker.levels[l]) ELSE a

\* _reload(), in one step: the model as the broker holds it, a leg whose level has not
\* come reported cancelled, and a bracket whose position closed meanwhile ended.
Reconnects ==
    /\ link = "down"
    /\ link' = "up"
    /\ LET open == broker.state = "open"
           n == IF broker.state = "none" THEN node
                ELSE ForEach(Reconciled, node, Level)
           alive == [l \in Level |-> n.view.alive[l] /\ open /\ broker.levels[l] # 0]
           stood == [n EXCEPT !.view = [state |-> broker.state, levels |-> broker.levels,
                                        alive |-> IF broker.state = "none" THEN @.alive ELSE alive,
                                        accepted |-> [l \in Level |-> broker.levels[l] # 0]],
                              !.bracket.unanswered = None, !.bracket.heldRound = 0,
                              !.blind = FALSE]
       IN node' = Settle(IF broker.state = "closed" THEN EndClosedBracket(stood) ELSE stood)
    /\ UNCHANGED <<broker, stream, entry, counts>>

-----------------------------------------------------------------------------
Next ==
    \/ AmendStarts
    \/ AmendSent
    \/ AmendNotSent
    \/ AmendTimesOut
    \/ ProtectionWaited
    \/ EntryRefused
    \/ EntryUnknown
    \/ EntryFills
    \/ \E ls \in SUBSET Level \ {{}} : Cancel(ls)
    \/ \E l \in Level : Modify(l, Other)
    \/ RebuildAsks
    \/ RebuildFails
    \/ Retried
    \/ \E round \in node.holds : Released(round)
    \/ Read
    \/ BrokerProtects
    \/ \E l \in Level, price \in {0, Other} : TraderMoves(l, price)
    \/ \E leg \in Level \cup {"none"} : BrokerCloses(leg)
    \/ Loses
    \/ Reconnects

Spec == Init /\ [][Next]_vars

-----------------------------------------------------------------------------
(* Properties *)

TypeOK ==
    /\ broker.state \in {"none", "open", "closed"} /\ broker.levels \in Levels
    /\ link \in {"up", "down"} /\ entry \in {"sent", "answered", "refused", "unknown"}
    /\ node.view.levels \in Levels
    /\ node.bracket.rounds \in 0..CorrectionRounds
    /\ node.sending.attempt \in 0..AmendAttempts

\* A cancel or a modify is never refused while the broker holds what it asked for: a
\* refusal or a failure of a later attempt, or a rebuild, says nothing about an amend that
\* was applied (_send_amend(), _settle_from_broker(), _end_closed_bracket()).
\* Left out are the commands a pending bracket carries when the bracket is refused
\* (_bracket_refused(), _end_bracket()) in two cases: an earlier amend's answer is still
\* lost, or the broker set that leg's level and not the other's, as the model shows.
RefusalIsTrue == \A w \in node.wronged : w.carried /\ (w.lost \/ w.shown)

\* The same with the two cases.  docs/execution.md:68 says of a lost amend that "a later
\* refusal or failure is not reported as a refusal", and :188 that "whether the level moved
\* is read from the broker's answer"; the refusal of a bracket looks at neither.
NoneRefusedWhenHeld == node.wronged = {}

\* Whatever was answered as done stands at the broker: the amends of a position go one
\* at a time and each starts from what the ones before it left (_amend()).
AmendsNeverUndone ==
    (broker.state = "open" /\ ~node.bracket.pending) =>
        \A l \in Level \ broker.touched :
            (node.asked[l] = {} /\ node.promised[l] # NoPromise) =>
                broker.levels[l] = node.promised[l]

\* The same, where no amend was made up and no bracket found done while an earlier
\* attempt's answer was lost.
AnsweredStands == node.stale \/ AmendsNeverUndone

\* The answer a command gets is true and stays so: none is refused that the broker holds
\* (but for the two cases of RefusalIsTrue), and none accepted is undone by an amend of a
\* later attempt, round or command (but after a lost answer, as AnsweredStands says).
AnswersTrue == RefusalIsTrue /\ AnsweredStands

Quiet ==
    /\ link = "up" /\ stream = <<>> /\ broker.state = "open" /\ node.view.state = "open"
    /\ ~node.bracket.pending /\ node.rebuild = "none"
    /\ node.queue = <<>> /\ node.sending = NotSending

\* Once everything sent is answered, a leg that is open in Nautilus and waits for no modify
\* shows the price its level has at the broker, whichever way the bracket ended
\* (_bracket_done(), _bracket_refused(), _answer_as_held()).  Left out (untold) is a leg
\* whose command a rebuild sends on, as nothing tells where its level had moved if that is
\* refused, and one accepted before the amend for its missing level was refused, as that
\* ends the bracket and says nothing of it.
LegsShowBroker ==
    Quiet => \A l \in Level \ node.untold :
                (/\ node.orders[l].status = "accepted"
                 /\ ~\E c \in node.asked[l] : c.kind = "modify")
                => node.orders[l].price = broker.levels[l]


=============================================================================
