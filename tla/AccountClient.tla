---------------------------- MODULE AccountClient ----------------------------
(***************************************************************************)
(* The account's one session, shared by the clients of a node              *)
(* (common/account.py): connect() and disconnect() under the lifecycle     *)
(* lock, the bring-up with its pre-connection and its token refresh, and   *)
(* the client that replaces it once its event loop is closed.              *)
(*                                                                         *)
(* A session is a number.  What it does by itself is in Session and        *)
(* TokenRefresh: here it becomes ready, is lost, or refreshes its pair.  A *)
(* token pair is its version number, as in TokenRefresh.                   *)
(***************************************************************************)
EXTENDS Naturals, Sequences, FiniteSets, SequencesExt

CONSTANTS
    Clients,       \* the Nautilus clients of a node
    MaxSessions,   \* bound: sessions built
    MaxCancels,    \* bound: calls cancelled
    MaxPairs,      \* bound: pairs the venue issues
    MaxLoops       \* bound: event loops of the process

ASSUME AccountAssumption ==
    /\ IsFiniteSet(Clients)
    /\ "nobody" \notin Clients
    /\ {MaxSessions, MaxCancels, MaxPairs, MaxLoops} \subseteq Nat

VARIABLES
    account,    \* the cached client's state: the record NewAccount
    connects,      \* each client's connect() or disconnect()
    holds,      \* the clients whose connect() returned and that gave nothing back
    known,      \* the account client each Nautilus client was built with
    sessions,   \* external: what became of the sessions
    venue,      \* external: the newest pair, and the exchange on the pre-connection
    process,    \* the event loop that runs, and which account client is cached
    history     \* cancels so far, users nobody will release, a pair given up

accountVars == <<account, connects, holds, known, sessions, venue, process, history>>

NoSession == 0
Nobody == "nobody"
NewAccount(held) == [
    users |-> 0, session |-> NoSession, attached |-> NoSession, retry |-> NoSession,
    reloading |-> FALSE, reference |-> FALSE, pair |-> held,
    lock |-> Nobody, queue |-> <<>>, loop |-> 0]
NoConnect == [kind |-> "none", stage |-> "idle", session |-> NoSession]
NoExchange == [stage |-> "none", pair |-> 0]

AccountInit ==
    /\ account = NewAccount(0)
    /\ connects = [c \in Clients |-> NoConnect]
    /\ holds = {}
    /\ known = [c \in Clients |-> 1]
    /\ sessions = [built |-> 0, running |-> {}, ready |-> FALSE]
    /\ venue = [issued |-> 0, exchange |-> NoExchange]
    /\ process = [loop |-> 1, client |-> 1]
    /\ history = [cancels |-> 0, leaked |-> 0, forfeited |-> FALSE]

External == UNCHANGED <<known, process>>
At(c, stages) == connects[c].stage \in stages
Goes(c, stage) == connects' = [connects EXCEPT ![c].stage = stage]
Ended(c) == connects' = [connects EXCEPT ![c] = NoConnect]
Released(a) == [a EXCEPT !.lock = Nobody]

-----------------------------------------------------------------------------
(* The lock *)

\* _other_loop_error(): the client was replaced, or something of it is left on another loop.
LeftUnclean == account.session # NoSession \/ account.users > 0 \/ account.lock # Nobody
OtherLoopError(c) ==
    \/ known[c] # process.client
    \/ account.loop \notin {0, process.loop} /\ LeftUnclean

\* connect() up to its lock.
ConnectCalled(c) ==
    /\ At(c, {"idle"}) /\ c \notin holds /\ ~OtherLoopError(c)
    /\ sessions.built < MaxSessions
    /\ account' = [account EXCEPT !.queue = Append(@, c)]
    /\ connects' = [connects EXCEPT ![c] = [NoConnect EXCEPT !.kind = "connect", !.stage = "queued"]]
    /\ External /\ UNCHANGED <<holds, sessions, venue, history>>

\* A client's _disconnect(): it gives its hold up, then calls disconnect().
DisconnectCalled(c) ==
    /\ At(c, {"idle"}) /\ c \in holds
    /\ holds' = holds \ {c}
    /\ account' = [account EXCEPT !.queue = Append(@, c)]
    /\ connects' = [connects EXCEPT ![c] = [NoConnect EXCEPT !.kind = "disconnect", !.stage = "queued"]]
    /\ External /\ UNCHANGED <<sessions, venue, history>>

Locked(c) == [account EXCEPT !.queue = Tail(@), !.lock = c]
Free(c) == account.lock = Nobody /\ account.queue # <<>> /\ Head(account.queue) = c

-----------------------------------------------------------------------------
(* _stop() *)

\* Mutant: a cancelled _stop() leaves its session.
CancelledWindingLeaves(s) == sessions

\* session.stop() has no await before the session is down: see Session.
StopSession(s) == [sessions EXCEPT !.running = @ \ {s}, !.ready = FALSE]

\* The finally of _stop(): the session is stopped even if the wait for its tasks is cut.
CancelledWinding(s) == StopSession(s)

\* _stop(), from the step that takes the session off the client: its tasks are cancelled
\* and waited for, then the session is stopped.
Stops(c, a, s) ==
    LET tasks == a.reloading \/ a.retry # NoSession
    IN /\ account' = [a EXCEPT !.session = NoSession, !.attached = NoSession,
                               !.retry = NoSession, !.reloading = FALSE]
       /\ connects' = [connects EXCEPT ![c].stage = IF tasks THEN "winding" ELSE "stopping",
                                 ![c].session = s]
       /\ sessions' = IF tasks THEN sessions ELSE StopSession(s)

TasksEnd(c) ==
    /\ At(c, {"winding"}) /\ Goes(c, "stopping")
    /\ sessions' = StopSession(connects[c].session)
    /\ External /\ UNCHANGED <<account, holds, venue, history>>

StopEnds(c) ==
    /\ At(c, {"stopping"}) /\ Ended(c) /\ account' = Released(account)
    /\ External /\ UNCHANGED <<holds, sessions, venue, history>>

-----------------------------------------------------------------------------
(* connect() and disconnect() under the lock *)

\* A failed or cancelled attempt: nothing counted, and what it built is stopped.
Fails(c) ==
    IF connects[c].stage \in {"waiting", "loading"}
    THEN Stops(c, account, connects[c].session)
    ELSE account' = Released(account) /\ Ended(c) /\ UNCHANGED sessions

\* The bring-up, or the wait for a session already up, is over.
Counted(c, a) ==
    /\ account' = Released([a EXCEPT !.users = @ + 1])
    /\ holds' = holds \cup {c} /\ Ended(c)

ConnectGoesOn(c) ==
    /\ At(c, {"queued"}) /\ connects[c].kind = "connect" /\ Free(c)
    /\ LET a == Locked(c) IN
       \/ /\ a.users > 0 /\ sessions.ready /\ Counted(c, a)
       \/ /\ a.users > 0 /\ ~sessions.ready
          /\ account' = a /\ Goes(c, "joining") /\ UNCHANGED holds
       \/ /\ a.users = 0
          /\ account' = [a EXCEPT !.loop = process.loop]
          /\ Goes(c, "listing") /\ UNCHANGED holds
    /\ External /\ UNCHANGED <<sessions, venue, history>>

DisconnectGoesOn(c) ==
    /\ At(c, {"queued"}) /\ connects[c].kind = "disconnect" /\ Free(c)
    /\ LET a == [Locked(c) EXCEPT !.users = IF @ = 0 THEN 0 ELSE @ - 1] IN
       \/ /\ account.users = 1 /\ Stops(c, a, a.session)
       \/ /\ account.users # 1 /\ account' = Released(a) /\ Ended(c) /\ UNCHANGED sessions
    /\ External /\ UNCHANGED <<holds, venue, history>>

-----------------------------------------------------------------------------
(* The bring-up: the account list over the pre-connection *)

\* _build_session() and start(): a session of its own, from the pair held.
BuildSession(s) == [built |-> s, running |-> sessions.running \cup {s}, ready |-> FALSE]

\* It is attached before it starts, once the account is resolved.
Resolved(c) ==
    LET s == sessions.built + 1 IN
    /\ sessions' = BuildSession(s)
    /\ account' = [account EXCEPT !.session = s, !.attached = s]
    /\ connects' = [connects EXCEPT ![c].stage = "waiting", ![c].session = s]

\* _list_accounts(): the list, or a rejected token that is refreshed.
Listed(c) ==
    /\ At(c, {"listing", "relisting"})
    /\ \/ Resolved(c) /\ UNCHANGED venue
       \/ /\ At(c, {"listing"}) /\ venue.issued < MaxPairs
          /\ Goes(c, "refreshing")
          /\ venue' = [venue EXCEPT !.exchange = [stage |-> "asked", pair |-> account.pair]]
          /\ UNCHANGED <<account, sessions>>
    /\ External /\ UNCHANGED <<holds, history>>

\* External: the venue exchanges its newest pair once, and refuses any other.
VenueExchanges ==
    /\ venue.exchange.stage = "asked"
    /\ venue' = IF venue.exchange.pair = venue.issued
                THEN [issued |-> venue.issued + 1,
                      exchange |-> [stage |-> "answered", pair |-> venue.issued + 1]]
                ELSE [venue EXCEPT !.exchange.stage = "refused"]
    /\ External /\ UNCHANGED <<account, connects, holds, sessions, history>>

\* _refresh_over(): the reply, in time or late; a refusal that is late is not heard.
Refreshed(c) ==
    /\ \/ At(c, {"refreshing", "late"}) /\ venue.exchange.stage = "answered"
       \/ At(c, {"refreshing"}) /\ venue.exchange.stage = "refused"
    /\ venue' = [venue EXCEPT !.exchange = NoExchange]
    /\ IF venue.exchange.stage = "answered"
       THEN /\ account' = [account EXCEPT !.pair = venue.exchange.pair]
            /\ Goes(c, "relisting") /\ UNCHANGED sessions
            /\ history' = [history EXCEPT !.forfeited = FALSE]
       ELSE Fails(c) /\ UNCHANGED history
    /\ External /\ UNCHANGED holds

\* The refresh is not answered in time: its connection stays open for the late reply.
RefreshTimesOut(c) ==
    /\ At(c, {"refreshing"}) /\ Goes(c, "late")
    /\ External /\ UNCHANGED <<account, holds, sessions, venue, history>>

\* The pre-connection is closed: a request the venue has still to process is processed
\* all the same, its reply lost.
Closed == venue' = [issued |-> IF /\ venue.exchange.stage = "asked"
                                  /\ venue.exchange.pair = venue.issued
                               THEN venue.issued + 1 ELSE venue.issued,
                    exchange |-> NoExchange]
GivesUp(c) == history.forfeited \/ (At(c, {"refreshing", "late"})
                                    /\ venue.exchange.stage \in {"asked", "answered"})

\* A request refused or not sent, a timeout, the deadline of the bring-up, or the pending
\* wait for a session whose authentication was rejected.
AttemptFails(c) ==
    /\ At(c, {"listing", "relisting", "refreshing", "late", "waiting", "loading", "joining"})
    /\ Fails(c) /\ Closed
    /\ history' = [history EXCEPT !.forfeited = GivesUp(c)]
    /\ External /\ UNCHANGED holds

-----------------------------------------------------------------------------
(* The bring-up: the session *)

\* _wait_ready(), then the reference data the first time; for a later user, _join().
ReadyFound(c) ==
    /\ At(c, {"waiting", "joining"}) /\ sessions.ready
    /\ LET up == [account EXCEPT !.retry = connects[c].session] IN
       \/ At(c, {"joining"}) /\ Counted(c, account)
       \/ At(c, {"waiting"}) /\ account.reference /\ Counted(c, up)
       \/ /\ At(c, {"waiting"}) /\ ~account.reference
          /\ Goes(c, "loading") /\ UNCHANGED <<account, holds>>
    /\ External /\ UNCHANGED <<sessions, venue, history>>

\* _load_reference_data(): kept whole, once its last answer is there.
ReferenceLoaded(c) ==
    /\ At(c, {"loading"}) /\ sessions.ready
    /\ Counted(c, [account EXCEPT !.reference = TRUE, !.retry = connects[c].session])
    /\ External /\ UNCHANGED <<sessions, venue, history>>

-----------------------------------------------------------------------------
(* Cancellation *)

\* The call's task is cancelled at an await: in the queue it leaves the lock's waiters; a
\* disconnect() cancelled there has released nobody.
Cancelled(c) ==
    /\ ~At(c, {"idle"}) /\ history.cancels < MaxCancels
    /\ \/ /\ At(c, {"queued"})
          /\ account' = [account EXCEPT !.queue = Remove(@, c)]
          /\ Ended(c) /\ UNCHANGED <<sessions, venue>>
       \/ /\ At(c, {"listing", "relisting", "refreshing", "late", "waiting", "loading",
                    "joining"})
          /\ Fails(c) /\ Closed
       \/ /\ At(c, {"winding"}) /\ Goes(c, "stopping")
          /\ sessions' = CancelledWinding(connects[c].session) /\ UNCHANGED <<account, venue>>
       \/ /\ At(c, {"stopping"}) /\ Ended(c) /\ account' = Released(account)
          /\ UNCHANGED <<sessions, venue>>
    /\ history' = [cancels |-> history.cancels + 1,
                   leaked |-> history.leaked
                       + (IF At(c, {"queued"}) /\ connects[c].kind = "disconnect" THEN 1 ELSE 0),
                   forfeited |-> GivesUp(c)]
    /\ External /\ UNCHANGED holds

-----------------------------------------------------------------------------
(* External: the session, and the process *)

SessionChanges ==
    /\ sessions.running # {}
    /\ sessions' = [sessions EXCEPT !.ready = ~@]
    /\ External /\ UNCHANGED <<account, connects, holds, venue, history>>

\* It refreshes its tokens and tells _on_tokens_refreshed(), or loses the reply.
SessionRefreshes(kept) ==
    /\ sessions.running # {} /\ venue.issued < MaxPairs /\ account.pair = venue.issued
    /\ venue' = [venue EXCEPT !.issued = @ + 1]
    /\ account' = IF kept THEN [account EXCEPT !.pair = venue.issued + 1] ELSE account
    /\ history' = [history EXCEPT !.forfeited = ~kept]
    /\ External /\ UNCHANGED <<connects, holds, sessions>>

\* _on_symbol_changed() starts a reload task; it ends.
Reloads ==
    /\ \/ account.session # NoSession /\ ~account.reloading
          /\ account' = [account EXCEPT !.reloading = TRUE]
       \/ account.reloading /\ account' = [account EXCEPT !.reloading = FALSE]
    /\ External /\ UNCHANGED <<connects, holds, sessions, venue, history>>

\* The node's event loop is closed, whatever ran on it; a new node has clients of its own.
LoopCloses ==
    /\ process.loop < MaxLoops
    /\ process' = [process EXCEPT !.loop = @ + 1]
    /\ connects' = [c \in Clients |-> NoConnect] /\ holds' = {}
    /\ account' = [account EXCEPT !.queue = <<>>]
    /\ sessions' = [sessions EXCEPT !.running = {}, !.ready = FALSE]
    /\ Closed
    /\ history' = [history EXCEPT !.leaked = 0,
                                  !.forfeited = @ \/ venue.exchange.stage \in {"asked", "answered"}]
    /\ UNCHANGED known

\* _successor(): only the newest pair is carried over, of what is followed here.
Successor == NewAccount(account.pair)

\* get_cached_ctrader_account_client(): a client whose loop is closed is replaced.
LookUp(c) ==
    /\ At(c, {"idle"}) /\ c \notin holds
    /\ IF account.loop \notin {0, process.loop}
       THEN /\ account' = Successor
            /\ process' = [process EXCEPT !.client = @ + 1]
            /\ known' = [known EXCEPT ![c] = process.client + 1]
       ELSE /\ known[c] # process.client
            /\ known' = [known EXCEPT ![c] = process.client] /\ UNCHANGED <<account, process>>
    /\ UNCHANGED <<connects, holds, sessions, venue, history>>

AccountNext ==
    \/ \E c \in Clients :
          \/ ConnectCalled(c) \/ DisconnectCalled(c) \/ ConnectGoesOn(c) \/ DisconnectGoesOn(c)
          \/ Listed(c) \/ Refreshed(c) \/ RefreshTimesOut(c) \/ AttemptFails(c)
          \/ ReadyFound(c) \/ ReferenceLoaded(c) \/ TasksEnd(c) \/ StopEnds(c)
          \/ Cancelled(c) \/ LookUp(c)
    \/ VenueExchanges \/ SessionChanges \/ Reloads \/ LoopCloses
    \/ \E kept \in BOOLEAN : SessionRefreshes(kept)

AccountSpec == AccountInit /\ [][AccountNext]_accountVars

-----------------------------------------------------------------------------
(* Properties *)

\* No session runs on with nothing left to reach it, and no user is without one: a session
\* runs only for the users counted, for the bring-up that built it, or until the _stop()
\* that took it has waited for its tasks, and never beside a second one.  With no call under
\* way, the users counted have a session, with the subscriptions attached and its restores
\* retried; they are the clients that connected, but for a disconnect() cancelled before it
\* held the lock.  The pair the next session starts from is the venue's newest, unless a
\* reply was given up.
SessionOwned ==
    LET stage(s) == {connects[c].stage : c \in {d \in Clients : connects[d].session = s}}
        releasing == {c \in Clients : At(c, {"queued"}) /\ connects[c].kind = "disconnect"}
        here == account.loop \in {0, process.loop}
    IN /\ \A s \in sessions.running :
             IF account.session = s THEN account.users > 0 \/ stage(s) \cap {"waiting", "loading"} # {}
             ELSE "winding" \in stage(s)
       /\ Cardinality(sessions.running) <= 1
       /\ (here /\ account.lock = Nobody) =>
             /\ account.users = Cardinality(holds) + Cardinality(releasing) + history.leaked
             /\ (account.users > 0) = (account.session # NoSession)
             /\ account.attached = account.session /\ account.retry = account.session
             /\ sessions.running = {account.session} \ {NoSession}
       /\ account.pair # venue.issued => history.forfeited \/ venue.exchange.stage = "answered"

=============================================================================
