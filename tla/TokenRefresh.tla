---------------------------- MODULE TokenRefresh ----------------------------
(***************************************************************************)
(* The token pair of a session (common/session.py): refreshed before the   *)
(* account authenticates, for a rejected authentication, or by the         *)
(* proactive loop of a ready session.  A refresh token is single-use, so a *)
(* reply that is lost after the venue processed its request takes the only *)
(* working pair with it; the code therefore adopts late replies and keeps  *)
(* the socket open for them.                                               *)
(*                                                                         *)
(* A pair is its version number: the venue exchanges version v, once, for  *)
(* v + 1.  The venue answers in any order.  Session models the supervisor  *)
(* around this.                                                            *)
(***************************************************************************)
EXTENDS Naturals

CONSTANTS
    MaxWrites,       \* bound: refresh requests written in a behaviour
    MaxConnections,  \* bound: connections opened in a behaviour
    None             \* no answer yet

ASSUME RefreshAssumption ==
    MaxWrites \in Nat /\ MaxConnections \in Nat /\ None \notin Nat

VARIABLES
    pair,        \* _access_token and _refresh_token
    issued,      \* the venue's newest pair
    settled,     \* _refresh_settled
    pairTaken,   \* _pair_taken
    due,         \* the access token is within the margin of its expiry
    recent,      \* _last_refresh_at is within the minimum interval
    linkUp,      \* the connection's _connected
    lost,        \* _lost
    ready,       \* _ready, set exactly in state READY
    phase,       \* where the supervisor is
    reason,      \* why it refreshes: a token "due", or "rejected"
    retried,     \* the account authentication is the second one
    authSent,    \* _account_auth_sent
    tokenSent,   \* the pair the account authentication in flight carries
    authToken,   \* the pair the account session was authenticated with
    loop,        \* _refresh_loop(): no task, watching, or refreshing
    calls,       \* the refresh_tokens() call of the supervisor and of the loop
    writes,      \* refresh requests written so far; each is its number
    wire,        \* requests the venue has not processed, on the open socket
    stray,       \* those whose socket is gone
    replies,     \* replies under way on the open socket
    connections, \* connections opened so far
    forfeited,   \* history: an awaited reply was given up, no pair taken since
    overtaken    \* history: a pair was adopted under the authentication in flight

tokenVars == <<pair, settled, pairTaken, due, forfeited>>
authVars == <<reason, retried, authSent, tokenSent, authToken, overtaken>>
venueVars == <<issued, stray>>
vars == <<tokenVars, recent, linkUp, lost, ready, phase, authVars, loop, calls, writes, wire,
          venueVars, replies, connections>>

Callers == {"bringUp", "loop"}
Versions == 0..MaxWrites
Phases == {"down", "app", "refreshing", "lateWait", "account", "up", "holding"}
NoCall == [stage |-> "idle", token |-> 0, id |-> 0, earlier |-> FALSE, answer |-> None]

\* The request was refused: the venue issued no pair for it.
Refusal == 0

TypeOK ==
    /\ pair \in Versions /\ issued \in Versions
    /\ settled \in BOOLEAN /\ pairTaken \in BOOLEAN
    /\ due \in BOOLEAN /\ recent \in BOOLEAN
    /\ linkUp \in BOOLEAN /\ lost \in BOOLEAN /\ ready \in BOOLEAN
    /\ phase \in Phases
    /\ reason \in {"due", "rejected"}
    /\ retried \in BOOLEAN /\ authSent \in BOOLEAN
    /\ tokenSent \in Versions /\ authToken \in Versions
    /\ loop \in {"none", "watching", "refreshing"}
    /\ calls \in [Callers -> [stage: {"idle", "queued", "sent", "failed"}, token: Versions,
                              id: Versions, earlier: BOOLEAN, answer: Versions \cup {None}]]
    /\ writes \in Versions
    /\ wire \subseteq [id: Versions, token: Versions]
    /\ stray \subseteq [id: Versions, token: Versions]
    /\ replies \subseteq [id: Versions, version: Versions]
    /\ connections \in 0..MaxConnections
    /\ forfeited \in BOOLEAN /\ overtaken \in BOOLEAN

Init ==
    /\ pair = 0 /\ issued = 0
    /\ settled = TRUE /\ pairTaken = FALSE
    /\ due \in BOOLEAN /\ recent = FALSE
    /\ linkUp = FALSE /\ lost = FALSE /\ ready = FALSE
    /\ phase = "down"
    /\ reason = "due" /\ retried = FALSE /\ authSent = FALSE
    /\ tokenSent = 0 /\ authToken = 0
    /\ loop = "none"
    /\ calls = [c \in Callers |-> NoCall]
    /\ writes = 0
    /\ wire = {} /\ stray = {} /\ replies = {}
    /\ connections = 0
    /\ forfeited = FALSE /\ overtaken = FALSE

-----------------------------------------------------------------------------
(* refresh_tokens() *)

\* _refresh_delay() <= 0.
RefreshDue == due /\ ~recent

BeginRefresh(who) ==
    /\ recent' = TRUE
    /\ calls' = [calls EXCEPT ![who] = [NoCall EXCEPT !.stage = "queued", !.token = pair]]

\* The request is written, and written() runs in the same step.
WriteRefresh(who) ==
    /\ calls[who].stage = "queued" /\ linkUp
    /\ writes < MaxWrites
    /\ writes' = writes + 1
    /\ wire' = wire \cup {[id |-> writes + 1, token |-> calls[who].token]}
    /\ calls' = [calls EXCEPT ![who].stage = "sent", ![who].id = writes + 1,
                              ![who].earlier = ~settled]
    /\ settled' = FALSE
    /\ UNCHANGED <<pair, pairTaken, due, forfeited, recent, linkUp, lost, ready, phase, authVars,
                   loop, venueVars, replies, connections>>

\* External: the venue exchanges its newest pair, and refuses any other.
VenueIssues(f) == f.token = issued

VenueProcesses(f) ==
    /\ f \in wire
    /\ wire' = wire \ {f}
    /\ \/ /\ VenueIssues(f)
          /\ issued' = issued + 1
          /\ replies' = replies \cup {[id |-> f.id, version |-> issued + 1]}
       \/ \* It may also refuse for its rate limit.
          /\ replies' = replies \cup {[id |-> f.id, version |-> Refusal]}
          /\ UNCHANGED issued
    /\ UNCHANGED <<tokenVars, recent, linkUp, lost, ready, phase, authVars, loop, calls, writes,
                   stray, connections>>

\* A request that left on a socket since closed may still be processed.
VenueProcessesStray(f) ==
    /\ f \in stray
    /\ stray' = stray \ {f}
    /\ issued' = IF VenueIssues(f) THEN issued + 1 ELSE issued
    /\ UNCHANGED <<tokenVars, recent, linkUp, lost, ready, phase, authVars, loop, calls, writes,
                   wire, replies, connections>>

TakePair(version) ==
    /\ pair' = version
    /\ settled' = TRUE
    /\ pairTaken' = TRUE
    /\ due' = FALSE
    /\ forfeited' = FALSE

\* _on_late_refresh_reply(), for a reply nobody awaits any more.
AdoptLate(version) ==
    \/ /\ version = Refusal \/ settled
       /\ UNCHANGED <<tokenVars, lost, overtaken>>
    \/ /\ version # Refusal /\ ~settled
       /\ TakePair(version)
       /\ lost' = (lost \/ ready)
       /\ overtaken' = (overtaken \/ phase = "account")

\* The read loop dispatches a reply: to the call that awaits it, or as an event.
ReadReply(rep) ==
    /\ rep \in replies /\ linkUp
    /\ replies' = replies \ {rep}
    /\ LET awaiting == {c \in Callers : calls[c].stage = "sent" /\ calls[c].id = rep.id} IN
       \/ /\ awaiting # {}
          /\ calls' = [c \in Callers |->
                          IF c \in awaiting THEN [calls[c] EXCEPT !.answer = rep.version]
                          ELSE calls[c]]
          /\ UNCHANGED <<tokenVars, lost, overtaken>>
       \/ /\ awaiting = {}
          /\ AdoptLate(rep.version)
          /\ UNCHANGED calls
    /\ UNCHANGED <<recent, linkUp, ready, phase, reason, retried, authSent, tokenSent, authToken,
                   loop, writes, wire, venueVars, connections>>

\* Mutant: a refusal settles the refresh, an earlier one's reply or not.
SettledAfterRefusalAlways(who) == TRUE

\* A refusal leaves an earlier refresh without a reply adoptable.
SettledAfterRefusal(who) == settled \/ ~calls[who].earlier

\* How a call ends, and what it leaves in the token state.
Accepted(who) ==
    /\ calls[who].stage = "sent" /\ calls[who].answer \notin {None, Refusal}
    /\ TakePair(calls[who].answer)
    /\ calls' = [calls EXCEPT ![who] = NoCall]

Refused(who) ==
    /\ calls[who].stage = "sent" /\ calls[who].answer = Refusal
    /\ settled' = SettledAfterRefusal(who)
    /\ calls' = [calls EXCEPT ![who] = NoCall]
    /\ UNCHANGED <<pair, pairTaken, due, forfeited>>

\* wait_for() times out, an answer that came in the same turn included.
TimedOut(who) ==
    /\ calls[who].stage = "sent"
    /\ calls' = [calls EXCEPT ![who] = NoCall]
    /\ UNCHANGED tokenVars

NeverSent(who) ==
    /\ calls[who].stage = "queued"
    /\ calls' = [calls EXCEPT ![who] = NoCall]
    /\ UNCHANGED tokenVars

ConnectionError(who) ==
    /\ calls[who].stage = "failed"
    /\ calls' = [calls EXCEPT ![who] = NoCall]
    /\ UNCHANGED tokenVars

-----------------------------------------------------------------------------
(* The connection *)

\* Requests without an answer fail with their connection.
FailCalls ==
    calls' = [c \in Callers |->
                 IF calls[c].stage = "queued" \/ (calls[c].stage = "sent" /\ calls[c].answer = None)
                 THEN [NoCall EXCEPT !.stage = "failed"]
                 ELSE calls[c]]

\* The socket ends: what it carried stays with the venue, if it got there.
LoseSocket ==
    /\ linkUp' = FALSE
    /\ stray' = stray \cup wire
    /\ wire' = {}
    /\ replies' = {}

\* _give_up_refresh_reply().
GiveUpReply ==
    /\ settled' = TRUE
    /\ forfeited' = (forfeited \/ ~settled)

\* _teardown_connection().
Teardown ==
    /\ phase' = "down"
    /\ ready' = FALSE
    /\ GiveUpReply
    /\ LoseSocket
    /\ FailCalls
    /\ UNCHANGED <<pair, pairTaken, due, issued, connections, writes>>

\* A call that can go on runs in the next turn of the event loop, long before a
\* socket opens.
NoCallIsReady == \A c \in Callers : calls[c].stage # "failed" /\ calls[c].answer = None

Connect ==
    /\ phase = "down" /\ connections < MaxConnections
    /\ NoCallIsReady
    /\ connections' = connections + 1
    /\ phase' = "app"
    /\ linkUp' = TRUE
    /\ lost' = FALSE
    /\ authSent' = FALSE /\ retried' = FALSE /\ overtaken' = FALSE
    /\ UNCHANGED <<tokenVars, recent, ready, reason, tokenSent, authToken, loop, calls, writes, wire,
                   venueVars, replies>>

\* The socket fails under the session.
Disconnected ==
    /\ linkUp
    /\ LoseSocket
    /\ FailCalls
    /\ ready' = FALSE
    /\ lost' = TRUE
    /\ UNCHANGED <<tokenVars, recent, phase, authVars, loop, issued, writes, connections>>

\* The venue cancels the application connection; the socket is still open.
ApplicationCancelled ==
    /\ linkUp
    /\ ready' = FALSE
    /\ lost' = TRUE
    /\ UNCHANGED <<tokenVars, recent, linkUp, phase, authVars, loop, calls, writes, wire, venueVars,
                   replies, connections>>

\* The venue drops the account session or invalidates its token, perhaps because
\* it was refreshed; the application connection lives on.
AccountEnded ==
    /\ linkUp /\ authSent
    /\ ready' = FALSE
    /\ lost' = TRUE
    /\ UNCHANGED <<tokenVars, recent, linkUp, phase, authVars, loop, calls, writes, wire, venueVars,
                   replies, connections>>

\* stop(); a later start() connects again.
Stop ==
    /\ phase # "down"
    /\ phase' = "down"
    /\ ready' = FALSE
    /\ lost' = TRUE
    /\ GiveUpReply
    /\ LoseSocket
    /\ calls' = [c \in Callers |-> NoCall]
    /\ loop' = "none"
    /\ UNCHANGED <<pair, pairTaken, due, recent, authVars, issued, writes, connections>>

-----------------------------------------------------------------------------
(* Bring-up: _authenticate() *)

SendAccountAuth ==
    /\ phase' = "account"
    /\ authSent' = TRUE
    /\ tokenSent' = pair'

\* Application authentication succeeded: refresh first a token that is due.
AppAuthenticated ==
    /\ phase = "app" /\ linkUp
    /\ \/ /\ RefreshDue
          /\ pairTaken' = FALSE
          /\ reason' = "due"
          /\ BeginRefresh("bringUp")
          /\ phase' = "refreshing"
          /\ UNCHANGED <<pair, authSent, tokenSent>>
       \/ /\ ~RefreshDue
          /\ UNCHANGED <<pair, pairTaken, reason, recent, calls>>
          /\ SendAccountAuth
    /\ UNCHANGED <<settled, due, forfeited, linkUp, lost, ready, retried, authToken, overtaken, loop,
                   writes, wire, venueVars, replies, connections>>

\* Any other error out of _authenticate(), a loss at its end included.
BringUpFails ==
    /\ phase \in {"app", "account"}
    /\ Teardown
    /\ UNCHANGED <<recent, lost, authVars, loop>>

BringUpContinues ==
    /\ SendAccountAuth
    /\ retried' = (reason = "rejected")
    /\ UNCHANGED <<linkUp, ready, wire, stray, replies>>

\* The supervisor's refresh returns.
BringUpRefreshed ==
    /\ phase = "refreshing"
    /\ \/ Accepted("bringUp") /\ BringUpContinues
       \/ reason = "due" /\ (Refused("bringUp") \/ NeverSent("bringUp")) /\ BringUpContinues
       \/ /\ TimedOut("bringUp")
          /\ phase' = "lateWait"
          /\ UNCHANGED <<retried, authSent, tokenSent, linkUp, ready, wire, stray, replies>>
    /\ UNCHANGED <<recent, lost, reason, authToken, overtaken, loop, writes, issued, connections>>

\* The refresh fails the bring-up: its error reaches _supervise(), which closes
\* the socket.  A refusal was an answer, so it settles what it may first.
BringUpRefreshFails ==
    /\ phase = "refreshing"
    /\ LET call == calls["bringUp"] IN
       \/ call.stage = "failed"
       \/ reason = "rejected" /\ call.stage = "queued"
       \/ reason = "rejected" /\ call.stage = "sent" /\ call.answer = Refusal
    /\ phase' = "down"
    /\ ready' = FALSE
    /\ settled' = TRUE
    /\ forfeited' = (forfeited \/ ~(settled \/ (/\ calls["bringUp"].answer = Refusal
                                                /\ SettledAfterRefusal("bringUp"))))
    /\ LoseSocket
    /\ calls' = [calls EXCEPT !["bringUp"] = NoCall]
    /\ UNCHANGED <<pair, pairTaken, due, recent, lost, authVars, loop, writes, issued, connections>>

\* _wait_for_late_pair() ends: by the pair, by _lost, or by its timeout.
LateWaitEnds ==
    /\ phase = "lateWait"
    /\ \/ /\ pairTaken \/ (~lost /\ reason = "due")
          /\ UNCHANGED <<tokenVars, calls, issued, connections, writes>>
          /\ BringUpContinues
       \/ /\ ~pairTaken
          /\ lost \/ reason = "rejected"
          /\ Teardown
          /\ UNCHANGED <<retried, authSent, tokenSent>>
    /\ UNCHANGED <<recent, lost, reason, authToken, overtaken, loop>>

\* The venue accepts the account authentication; a known loss fails it after all.
AccountAccepted ==
    /\ phase = "account" /\ linkUp /\ ~lost
    /\ phase' = "up"
    /\ ready' = TRUE
    /\ authToken' = tokenSent
    /\ loop' = IF loop = "none" THEN "watching" ELSE loop
    /\ UNCHANGED <<tokenVars, recent, linkUp, lost, reason, retried, authSent, tokenSent, overtaken,
                   calls, writes, wire, venueVars, replies, connections>>

\* A first rejection for the token: try the pair adopted meanwhile, or refresh.
AccountRejected ==
    /\ phase = "account" /\ linkUp /\ ~retried
    /\ \/ /\ pair # tokenSent
          /\ UNCHANGED <<pair, pairTaken, reason, recent, calls>>
          /\ SendAccountAuth
          /\ retried' = TRUE
       \/ /\ pair = tokenSent /\ ~recent
          /\ pairTaken' = FALSE
          /\ reason' = "rejected"
          /\ BeginRefresh("bringUp")
          /\ phase' = "refreshing"
          /\ UNCHANGED <<pair, retried, authSent, tokenSent>>
    /\ UNCHANGED <<settled, due, forfeited, linkUp, lost, ready, authToken, overtaken, loop, writes,
                   wire, venueVars, replies, connections>>

\* The loss of a ready session: its socket is held while a reply is awaited.
LossSeen ==
    /\ phase = "up" /\ lost
    /\ \/ settled /\ Teardown
       \/ /\ ~settled
          /\ phase' = "holding"
          /\ UNCHANGED <<tokenVars, linkUp, ready, calls, writes, wire, venueVars, replies,
                         connections>>
    /\ UNCHANGED <<recent, lost, authVars, loop>>

HoldEnds ==
    /\ phase = "holding"
    /\ Teardown
    /\ UNCHANGED <<recent, lost, authVars, loop>>

-----------------------------------------------------------------------------
(* The proactive loop *)

LoopRefreshes ==
    /\ loop = "watching" /\ RefreshDue /\ ready
    /\ loop' = "refreshing"
    /\ BeginRefresh("loop")
    /\ UNCHANGED <<tokenVars, linkUp, lost, ready, phase, authVars, writes, wire, venueVars, replies,
                   connections>>

\* Mutant: the new pair waits for the venue to end the old session.
LostAfterLoopNever == lost

\* The loop re-authenticates with the pair it took, unless a loss does already.
LostAfterLoop == TRUE

LoopRefreshed ==
    /\ loop = "refreshing"
    /\ \/ Accepted("loop") /\ loop' = "watching" /\ lost' = LostAfterLoop
       \/ (Refused("loop") \/ ConnectionError("loop")) /\ loop' = "none" /\ UNCHANGED lost
       \/ (TimedOut("loop") \/ NeverSent("loop")) /\ loop' = "watching" /\ UNCHANGED lost
    /\ UNCHANGED <<recent, linkUp, ready, phase, authVars, writes, wire, venueVars, replies,
                   connections>>

\* Time: a token nears its expiry, the minimum interval passes.
TokenAges ==
    /\ ~due
    /\ due' = TRUE
    /\ UNCHANGED <<pair, settled, pairTaken, forfeited, recent, linkUp, lost, ready, phase, authVars,
                   loop, calls, writes, wire, venueVars, replies, connections>>

IntervalPasses ==
    /\ recent
    /\ recent' = FALSE
    /\ UNCHANGED <<tokenVars, linkUp, lost, ready, phase, authVars, loop, calls, writes, wire,
                   venueVars, replies, connections>>

Next ==
    \/ \E who \in Callers : WriteRefresh(who)
    \/ \E f \in wire : VenueProcesses(f)
    \/ \E f \in stray : VenueProcessesStray(f)
    \/ \E rep \in replies : ReadReply(rep)
    \/ Connect \/ Disconnected \/ ApplicationCancelled \/ AccountEnded \/ Stop
    \/ AppAuthenticated \/ BringUpFails \/ BringUpRefreshed \/ BringUpRefreshFails
    \/ LateWaitEnds \/ AccountAccepted \/ AccountRejected \/ LossSeen \/ HoldEnds
    \/ LoopRefreshes \/ LoopRefreshed
    \/ TokenAges \/ IntervalPasses

Spec == Init /\ [][Next]_vars

-----------------------------------------------------------------------------
(* Properties *)

\* While _refresh_settled is set the session holds the venue's newest pair and no
\* request still under way can spend it, unless an awaited reply was given up
\* with its connection: over late, refused and overlapping refreshes, the only
\* working pair is never dropped silently.
SettledPairIsNewest ==
    settled /\ ~forfeited => pair = issued /\ \A f \in wire : f.token # pair

\* _refresh_settled is clear only on a connection that can still answer: with the
\* socket closed nothing is awaited, so no later hold or late reply concerns it.
AwaitedOnlyWhileConnected == phase = "down" => settled /\ wire = {} /\ replies = {}

\* A ready session that is not about to reconnect is authenticated with the pair
\* it holds, unless the pair was adopted while the venue was accepting an older
\* one (the venue ends such a session itself).
AuthenticatedWithHeldPair == ready /\ ~lost => authToken = pair \/ overtaken

=============================================================================
