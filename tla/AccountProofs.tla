---------------------------- MODULE AccountProofs ----------------------------
(***************************************************************************)
(* Theorems about the token pair of a session (TokenRefresh) and about the *)
(* session the clients of an account share (AccountClient), for any number *)
(* of requests, connections, clients, sessions, cancellations and event    *)
(* loops.                                                                  *)
(***************************************************************************)
EXTENDS TokenRefresh, AccountClient, TLAPS, FiniteSetTheorems

-----------------------------------------------------------------------------
(* TokenRefresh: the inductive invariant *)

\* The two refresh_tokens() calls belong to their tasks and never overlap: the loop's is
\* over before the next connection opens, since it can go on as soon as its own failed.
CallsApart ==
    /\ calls["bringUp"].stage # "idle" <=> phase = "refreshing"
    /\ calls["loop"].stage # "idle" <=> loop = "refreshing"
    /\ loop = "refreshing" => phase \in {"up", "holding", "down"}
    /\ \A c \in Callers : calls[c].stage # "sent" => calls[c].answer = None
    /\ ready => phase \in {"up", "holding"}

\* With the connection torn down nothing is under way; only a call that can go on is left.
DownIsQuiet ==
    phase = "down" =>
        /\ ~linkUp
        /\ AwaitedOnlyWhileConnected
        /\ \A c \in Callers : calls[c].stage \in {"idle", "failed"} \/ calls[c].answer # None

\* Requests carry pairs the session held, each issued before the request was written.
TokensHeld ==
    /\ pair <= issued /\ issued <= writes
    /\ \A c \in Callers : calls[c].token <= pair
    /\ \A f \in wire \cup stray : f.token <= pair /\ f.token < f.id /\ f.id <= writes

\* A request is on the wire, or answered by a reply under way, or its answer was read.
AnsweredOnce ==
    /\ \A f, g \in wire : f.id = g.id => f = g
    /\ \A r, s \in replies : r.id = s.id => r = s
    /\ \A f \in wire, r \in replies : f.id # r.id
    /\ \A r \in replies : r.id <= writes
    /\ \A c \in Callers : calls[c].stage = "sent" =>
          /\ calls[c].id <= writes
          /\ calls[c].answer # None => \A f \in wire \cup replies : f.id # calls[c].id

\* A pair on its way to the session is the venue's newest, and no other is on its way.
PairUnderWay ==
    /\ \A r \in replies : r.version # Refusal => r.version = issued /\ pair < issued
    /\ \A r, s \in replies : r.version # Refusal /\ s.version # Refusal => r = s
    /\ \A c \in Callers : calls[c].answer \notin {None, Refusal} =>
          /\ calls[c].answer = issued /\ pair < issued
          /\ \A r \in replies : r.version = Refusal

Spent(f) == f.token # issued

\* A settled session holds the newest pair, and nothing under way can spend it.
SettledHolds ==
    settled /\ ~forfeited => pair = issued /\ \A f \in wire \cup stray : Spent(f)

\* What a refusal of a call shows that no earlier request preceded: only its own request
\* could have spent the pair, and only its own reply can bring another.
AloneUnderWay ==
    \A c \in Callers : calls[c].stage = "sent" /\ ~calls[c].earlier /\ ~forfeited =>
        /\ \A f \in wire : Spent(f) \/ f.id = calls[c].id
        /\ \A f \in stray : Spent(f)
        /\ \A r \in replies : r.version = Refusal \/ r.id = calls[c].id
        /\ \/ pair = issued \/ calls[c].answer \notin {None, Refusal}
           \/ \E r \in replies : r.version # Refusal

\* The account authenticates, or is authenticated, with the pair held.
AuthTrue ==
    /\ phase = "account" => tokenSent = pair \/ overtaken
    /\ AuthenticatedWithHeldPair

RefreshInv ==
    /\ TypeOK
    /\ CallsApart
    /\ DownIsQuiet
    /\ TokensHeld
    /\ AnsweredOnce
    /\ PairUnderWay
    /\ SettledHolds
    /\ AloneUnderWay
    /\ AuthTrue

-----------------------------------------------------------------------------
(* TokenRefresh: types *)

Answers == Versions \cup {None}
Calls == [stage: {"idle", "queued", "sent", "failed"}, token: Versions, id: Versions,
          earlier: BOOLEAN, answer: Answers]

LEMMA NoCallTyped ==
    /\ NoCall \in Calls
    /\ [NoCall EXCEPT !.stage = "failed"] \in Calls
    /\ \A v \in Versions : [NoCall EXCEPT !.stage = "queued", !.token = v] \in Calls
  <1>1. 0 \in Versions /\ None \in Answers
    BY RefreshAssumption DEF Versions, Answers
  <1>2. FALSE \in BOOLEAN
    OBVIOUS
  <1> QED  BY <1>1, <1>2 DEF NoCall, Calls

\* What the steps do to the calls.
LEMMA CallsTyped ==
    ASSUME TypeOK, [Next]_vars
    PROVE  calls' \in [Callers -> Calls]
  <1>0. calls \in [Callers -> Calls] /\ pair \in Versions /\ writes \in Versions
        /\ settled \in BOOLEAN /\ replies \subseteq [id: Versions, version: Versions]
    BY DEF TypeOK, Calls, Answers
  <1>1. CASE \E who \in Callers : WriteRefresh(who)
    <2>1. PICK who \in Callers : WriteRefresh(who)
      BY <1>1
    <2>w. writes < MaxWrites
      BY <2>1 DEF WriteRefresh
    <2>2. writes + 1 \in Versions
      BY <1>0, <2>w, RefreshAssumption DEF Versions
    <2>b. (~settled) \in BOOLEAN
      OBVIOUS
    <2>3. [calls[who] EXCEPT !.stage = "sent", !.id = writes + 1, !.earlier = ~settled] \in Calls
      BY <1>0, <2>2, <2>b DEF Calls
    <2>4. calls' = [calls EXCEPT ![who] = [calls[who] EXCEPT !.stage = "sent", !.id = writes + 1,
                                                             !.earlier = ~settled]]
      BY <1>0, <2>1 DEF WriteRefresh, Calls
    <2> QED  BY <1>0, <2>3, <2>4
  <1>2. CASE \E rep \in replies : ReadReply(rep)
    <2>1. PICK rep \in replies : ReadReply(rep)
      BY <1>2
    <2>2. rep.version \in Answers
      BY <1>0, <2>1 DEF Answers
    <2>3. ASSUME NEW c \in Callers
          PROVE  [calls[c] EXCEPT !.answer = rep.version] \in Calls
      <3>1. calls[c] \in Calls
        BY <1>0
      <3> QED  BY <2>2, <3>1 DEF Calls
    <2> QED  BY <1>0, <2>1, <2>3 DEF ReadReply
  <1>3. CASE Disconnected \/ BringUpFails \/ LossSeen \/ HoldEnds \/ LateWaitEnds
    <2>1. FailCalls \/ calls' = calls
      BY <1>3 DEF Disconnected, BringUpFails, LossSeen, HoldEnds, LateWaitEnds, Teardown
    <2> QED  BY <1>0, <2>1, NoCallTyped DEF FailCalls
  <1>4. CASE Stop
    BY <1>4, NoCallTyped DEF Stop
  <1>5. CASE AppAuthenticated \/ AccountRejected \/ LoopRefreshes
    <2>1. calls' = calls \/ \E who \in Callers : BeginRefresh(who)
      BY <1>5 DEF AppAuthenticated, AccountRejected, LoopRefreshes, Callers
    <2> QED  BY <1>0, <2>1, NoCallTyped DEF BeginRefresh
  <1>6. CASE BringUpRefreshed \/ BringUpRefreshFails \/ LoopRefreshed
    <2>1. \E who \in Callers : calls' = [calls EXCEPT ![who] = NoCall]
      BY <1>6 DEF BringUpRefreshed, BringUpRefreshFails, LoopRefreshed, Accepted, Refused,
                  TimedOut, NeverSent, ConnectionError, Callers
    <2> QED  BY <1>0, <2>1, NoCallTyped
  <1>7. CASE \/ \E f \in wire : VenueProcesses(f)
             \/ \E f \in stray : VenueProcessesStray(f)
             \/ Connect \/ ApplicationCancelled \/ AccountEnded \/ AccountAccepted
             \/ TokenAges \/ IntervalPasses \/ UNCHANGED vars
    BY <1>0, <1>7 DEF VenueProcesses, VenueProcessesStray, Connect, ApplicationCancelled,
                      AccountEnded, AccountAccepted, TokenAges, IntervalPasses, vars
  <1> QED  BY <1>1, <1>2, <1>3, <1>4, <1>5, <1>6, <1>7 DEF Next

\* The requests and replies, and the versions.
LEMMA VersionsTyped ==
    ASSUME TypeOK, TokensHeld, [Next]_vars
    PROVE  /\ pair' \in Versions /\ issued' \in Versions /\ writes' \in Versions
           /\ tokenSent' \in Versions /\ authToken' \in Versions
           /\ wire' \subseteq [id: Versions, token: Versions]
           /\ stray' \subseteq [id: Versions, token: Versions]
           /\ replies' \subseteq [id: Versions, version: Versions]
  <1>0. /\ calls \in [Callers -> Calls]
        /\ pair \in Versions /\ issued \in Versions /\ writes \in Versions
        /\ tokenSent \in Versions /\ authToken \in Versions
        /\ wire \subseteq [id: Versions, token: Versions]
        /\ stray \subseteq [id: Versions, token: Versions]
        /\ replies \subseteq [id: Versions, version: Versions]
        /\ \A c \in Callers : calls[c].answer \in Versions \cup {None} /\ calls[c].token \in Versions
    BY DEF TypeOK, Calls, Answers
  <1>z. 0 \in Versions
    BY RefreshAssumption DEF Versions
  <1>1. CASE \E who \in Callers : WriteRefresh(who)
    <2>1. PICK who \in Callers : WriteRefresh(who)
      BY <1>1
    <2>2. writes + 1 \in Versions
      BY <1>0, <2>1, RefreshAssumption DEF WriteRefresh, Versions
    <2> QED  BY <1>0, <2>1, <2>2 DEF WriteRefresh, venueVars, authVars
  <1>2. CASE \E f \in wire : VenueProcesses(f)
    <2>1. PICK f \in wire : VenueProcesses(f)
      BY <1>2
    <2>2. f.id \in Versions /\ f.token \in Versions /\ f.token < f.id
      BY <1>0 DEF TokensHeld
    <2>3. VenueIssues(f) => issued + 1 \in Versions
      BY <1>0, <2>2, RefreshAssumption DEF VenueIssues, Versions
    <2> QED  BY <1>0, <1>z, <2>1, <2>2, <2>3 DEF VenueProcesses, tokenVars, authVars, Refusal
  <1>3. CASE \E f \in stray : VenueProcessesStray(f)
    <2>1. PICK f \in stray : VenueProcessesStray(f)
      BY <1>3
    <2>2. f.id \in Versions /\ f.token \in Versions /\ f.token < f.id
      BY <1>0 DEF TokensHeld
    <2>3. VenueIssues(f) => issued + 1 \in Versions
      BY <1>0, <2>2, RefreshAssumption DEF VenueIssues, Versions
    <2> QED  BY <1>0, <2>1, <2>3 DEF VenueProcessesStray, tokenVars, authVars
  <1>4. CASE \E rep \in replies : ReadReply(rep)
    BY <1>0, <1>4 DEF ReadReply, AdoptLate, TakePair, tokenVars, venueVars
  <1>5. CASE Disconnected \/ BringUpFails \/ LossSeen \/ HoldEnds \/ LateWaitEnds \/ Stop
    BY <1>0, <1>5 DEF Disconnected, BringUpFails, LossSeen, HoldEnds, LateWaitEnds, Stop,
                      Teardown, LoseSocket, BringUpContinues, SendAccountAuth, tokenVars,
                      authVars, venueVars
  <1>6. CASE AppAuthenticated \/ AccountRejected \/ LoopRefreshes
    BY <1>0, <1>6 DEF AppAuthenticated, AccountRejected, LoopRefreshes, SendAccountAuth,
                      tokenVars, venueVars, authVars
  <1>7. CASE BringUpRefreshed \/ BringUpRefreshFails \/ LoopRefreshed
    BY <1>0, <1>7 DEF BringUpRefreshed, BringUpRefreshFails, LoopRefreshed, Accepted, Refused,
                  TimedOut, NeverSent, ConnectionError, TakePair, BringUpContinues,
                  SendAccountAuth, LoseSocket, tokenVars, authVars, venueVars, Callers
  <1>8. CASE \/ Connect \/ ApplicationCancelled \/ AccountEnded \/ AccountAccepted
             \/ TokenAges \/ IntervalPasses \/ UNCHANGED vars
    BY <1>0, <1>8 DEF Connect, ApplicationCancelled, AccountEnded, AccountAccepted, TokenAges,
                      IntervalPasses, vars, tokenVars, authVars, venueVars
  <1> QED  BY <1>1, <1>2, <1>3, <1>4, <1>5, <1>6, <1>7, <1>8 DEF Next

\* The flags and the places.
LEMMA FlagsTyped ==
    ASSUME TypeOK, [Next]_vars
    PROVE  /\ settled' \in BOOLEAN /\ pairTaken' \in BOOLEAN
           /\ due' \in BOOLEAN /\ recent' \in BOOLEAN
           /\ linkUp' \in BOOLEAN /\ lost' \in BOOLEAN /\ ready' \in BOOLEAN
           /\ phase' \in Phases
           /\ reason' \in {"due", "rejected"}
           /\ retried' \in BOOLEAN /\ authSent' \in BOOLEAN
           /\ loop' \in {"none", "watching", "refreshing"}
           /\ connections' \in 0..MaxConnections
           /\ forfeited' \in BOOLEAN /\ overtaken' \in BOOLEAN
  <1>0. /\ settled \in BOOLEAN /\ pairTaken \in BOOLEAN
        /\ due \in BOOLEAN /\ recent \in BOOLEAN
        /\ linkUp \in BOOLEAN /\ lost \in BOOLEAN /\ ready \in BOOLEAN
        /\ phase \in Phases
        /\ reason \in {"due", "rejected"}
        /\ retried \in BOOLEAN /\ authSent \in BOOLEAN
        /\ loop \in {"none", "watching", "refreshing"}
        /\ connections \in 0..MaxConnections
        /\ forfeited \in BOOLEAN /\ overtaken \in BOOLEAN
    BY DEF TypeOK
  <1>p. /\ "down" \in Phases /\ "app" \in Phases /\ "refreshing" \in Phases
        /\ "lateWait" \in Phases /\ "account" \in Phases /\ "up" \in Phases /\ "holding" \in Phases
    BY DEF Phases
  <1> USE DEF tokenVars, authVars, venueVars
  <1>1. CASE Connect
    <2>1. connections' \in 0..MaxConnections
      BY <1>0, <1>1, RefreshAssumption DEF Connect
    <2> QED  BY <1>0, <1>p, <1>1, <2>1, Zenon DEF Connect
  <1>2. CASE \E who \in Callers : WriteRefresh(who)
    BY <1>0, <1>p, <1>2, ZenonT(40) DEF WriteRefresh
  <1>3. CASE \E f \in wire : VenueProcesses(f)
    BY <1>0, <1>p, <1>3 DEF VenueProcesses
  <1>4. CASE \E f \in stray : VenueProcessesStray(f)
    BY <1>0, <1>p, <1>4 DEF VenueProcessesStray
  <1>5. CASE \E rep \in replies : ReadReply(rep)
    <2>1. \/ UNCHANGED <<tokenVars, lost, overtaken>>
          \/ \E version : TakePair(version) /\ lost' = (lost \/ ready)
                          /\ overtaken' = (overtaken \/ phase = "account")
      BY <1>5 DEF ReadReply, AdoptLate
    <2>2. /\ settled' \in BOOLEAN /\ pairTaken' \in BOOLEAN /\ due' \in BOOLEAN
          /\ lost' \in BOOLEAN /\ forfeited' \in BOOLEAN /\ overtaken' \in BOOLEAN
      BY <1>0, <2>1, Zenon DEF TakePair
    <2> QED  BY <1>0, <1>5, <2>2 DEF ReadReply
  <1>6. CASE Disconnected
    BY <1>0, <1>p, <1>6, Zenon DEF Disconnected, LoseSocket
  <1>7. CASE BringUpFails
    BY <1>0, <1>p, <1>7, Zenon DEF BringUpFails, Teardown, LoseSocket, GiveUpReply
  <1>8. CASE LossSeen
    BY <1>0, <1>p, <1>8, ZenonT(40) DEF LossSeen, Teardown, LoseSocket, GiveUpReply
  <1>9. CASE HoldEnds
    BY <1>0, <1>p, <1>9, Zenon DEF HoldEnds, Teardown, LoseSocket, GiveUpReply
  <1>10. CASE Stop
    BY <1>0, <1>p, <1>10, Zenon DEF Stop, LoseSocket, GiveUpReply
  <1>11. CASE LateWaitEnds
    BY <1>0, <1>p, <1>11, ZenonT(40) DEF LateWaitEnds, Teardown, LoseSocket, GiveUpReply, BringUpContinues,
                                   SendAccountAuth
  <1>12. CASE ApplicationCancelled
    BY <1>0, <1>p, <1>12, ZenonT(40) DEF ApplicationCancelled
  <1>13. CASE AccountEnded
    BY <1>0, <1>p, <1>13, Zenon DEF AccountEnded
  <1>14. CASE AccountAccepted
    BY <1>0, <1>p, <1>14, ZenonT(40) DEF AccountAccepted
  <1>15. CASE TokenAges
    BY <1>0, <1>p, <1>15, ZenonT(40) DEF TokenAges
  <1>16. CASE IntervalPasses
    BY <1>0, <1>p, <1>16, ZenonT(40) DEF IntervalPasses
  <1>17. CASE UNCHANGED vars
    BY <1>0, <1>p, <1>17 DEF vars
  <1>18. CASE AppAuthenticated
    BY <1>0, <1>p, <1>18, ZenonT(40) DEF AppAuthenticated, SendAccountAuth, BeginRefresh
  <1>19. CASE AccountRejected
    BY <1>0, <1>p, <1>19, Zenon DEF AccountRejected, SendAccountAuth, BeginRefresh
  <1>20. CASE LoopRefreshes
    BY <1>0, <1>p, <1>20, Zenon DEF LoopRefreshes, BeginRefresh
  <1>21. CASE BringUpRefreshed
    <2>1. \/ Accepted("bringUp") \/ Refused("bringUp") \/ NeverSent("bringUp")
          \/ TimedOut("bringUp")
      BY <1>21 DEF BringUpRefreshed
    <2>2. /\ settled' \in BOOLEAN /\ pairTaken' \in BOOLEAN /\ due' \in BOOLEAN
          /\ forfeited' \in BOOLEAN
      BY <1>0, <2>1, Zenon DEF Accepted, Refused, TimedOut, NeverSent, TakePair,
                               SettledAfterRefusal
    <2>3. retried' \in BOOLEAN /\ authSent' \in BOOLEAN
      BY <1>0, <1>21, Zenon DEF BringUpRefreshed, BringUpContinues, SendAccountAuth
    <2> QED  BY <1>0, <1>p, <1>21, <2>2, <2>3 DEF BringUpRefreshed, BringUpContinues,
                                                  SendAccountAuth
  <1>22. CASE BringUpRefreshFails
    BY <1>0, <1>p, <1>22, Zenon DEF BringUpRefreshFails, LoseSocket, SettledAfterRefusal
  <1>23. CASE LoopRefreshed
    <2>1. \/ Accepted("loop") \/ Refused("loop") \/ NeverSent("loop") \/ TimedOut("loop")
          \/ ConnectionError("loop")
      BY <1>23 DEF LoopRefreshed
    <2>2. /\ settled' \in BOOLEAN /\ pairTaken' \in BOOLEAN /\ due' \in BOOLEAN
          /\ forfeited' \in BOOLEAN
      BY <1>0, <2>1, Zenon DEF Accepted, Refused, TimedOut, NeverSent, ConnectionError, TakePair,
                               SettledAfterRefusal
    <2> QED  BY <1>0, <1>23, <2>2 DEF LoopRefreshed, LostAfterLoop
  <1> QED  BY <1>1, <1>2, <1>3, <1>4, <1>5, <1>6, <1>7, <1>8, <1>9, <1>10, <1>11, <1>12,
              <1>13, <1>14, <1>15, <1>16, <1>17, <1>18, <1>19, <1>20, <1>21, <1>22, <1>23 DEF Next

LEMMA RefreshTypesKept ==
    ASSUME TypeOK, TokensHeld, [Next]_vars
    PROVE  TypeOK'
  BY CallsTyped, VersionsTyped, FlagsTyped DEF TypeOK, Calls, Answers

-----------------------------------------------------------------------------
(* TokenRefresh: the calls and the connection *)

LEMMA CallsApartKept ==
    ASSUME TypeOK, CallsApart, DownIsQuiet, [Next]_vars
    PROVE  CallsApart'
  <1>0. /\ calls \in [Callers -> Calls] /\ phase \in Phases /\ None # Refusal
        /\ Callers = {"bringUp", "loop"}
        /\ NoCall.stage = "idle" /\ NoCall.answer = None
        /\ "bringUp" \in Callers /\ "loop" \in Callers
    BY RefreshAssumption DEF TypeOK, Calls, Answers, Callers, Refusal, NoCall
  <1> USE DEF CallsApart, tokenVars, authVars, venueVars
  <1>1. CASE \/ \E f \in wire : VenueProcesses(f)
             \/ \E f \in stray : VenueProcessesStray(f)
             \/ Connect \/ ApplicationCancelled \/ AccountEnded \/ AccountAccepted
             \/ TokenAges \/ IntervalPasses \/ UNCHANGED vars
    BY <1>0, <1>1 DEF VenueProcesses, VenueProcessesStray, Connect, ApplicationCancelled,
                      AccountEnded, AccountAccepted, TokenAges, IntervalPasses, vars, DownIsQuiet,
                      NoCallIsReady
  <1>2. ASSUME NEW who \in Callers, WriteRefresh(who)
        PROVE  CallsApart'
    <2>1. \A c \in Callers : /\ calls'[c].answer = calls[c].answer
                             /\ calls'[c].stage = IF c = who THEN "sent" ELSE calls[c].stage
      BY <1>0, <1>2 DEF WriteRefresh, Calls
    <2> QED  BY <1>0, <1>2, <2>1 DEF WriteRefresh
  <1>3. ASSUME NEW rep \in replies, ReadReply(rep)
        PROVE  CallsApart'
    <2>1. \A c \in Callers : /\ calls'[c].stage = calls[c].stage
                             /\ calls[c].stage # "sent" => calls'[c].answer = calls[c].answer
      BY <1>0, <1>3 DEF ReadReply, Calls
    <2> QED  BY <1>0, <1>3, <2>1 DEF ReadReply
  <1>4. ASSUME FailCalls
        PROVE  \A c \in Callers : /\ calls'[c].stage # "idle" <=> calls[c].stage # "idle"
                                  /\ calls'[c].stage # "sent" => calls'[c].answer = None
    BY <1>0, <1>4 DEF FailCalls, NoCall
  <1>5. CASE Disconnected \/ BringUpFails \/ LossSeen \/ HoldEnds \/ LateWaitEnds
    <2>1. CASE Disconnected
      BY <1>0, <1>4, <2>1 DEF Disconnected
    <2>2. CASE BringUpFails \/ HoldEnds
      BY <1>0, <1>4, <2>2 DEF BringUpFails, HoldEnds, Teardown
    <2>3. CASE LossSeen
      BY <1>0, <1>4, <2>3 DEF LossSeen, Teardown
    <2>4. CASE LateWaitEnds
      BY <1>0, <1>4, <2>4 DEF LateWaitEnds, Teardown, BringUpContinues, SendAccountAuth
    <2> QED  BY <1>5, <2>1, <2>2, <2>3, <2>4
  <1>6. CASE Stop
    BY <1>0, <1>6 DEF Stop
  <1>7. CASE AppAuthenticated \/ AccountRejected \/ LoopRefreshes
    <2>1. ASSUME NEW who \in Callers, BeginRefresh(who)
          PROVE  \A c \in Callers :
                    /\ c # who => calls'[c] = calls[c]
                    /\ c = who => calls'[c].stage = "queued" /\ calls'[c].answer = None
      BY <1>0, <2>1 DEF BeginRefresh, NoCall
    <2> QED  BY <1>0, <1>7, <2>1 DEF AppAuthenticated, AccountRejected, LoopRefreshes,
                                     SendAccountAuth
  <1>8. CASE BringUpRefreshed \/ BringUpRefreshFails \/ LoopRefreshed
    <2>1. ASSUME NEW who \in Callers, calls' = [calls EXCEPT ![who] = NoCall]
          PROVE  \A c \in Callers :
                    /\ c # who => calls'[c] = calls[c]
                    /\ c = who => calls'[c].stage = "idle" /\ calls'[c].answer = None
      BY <1>0, <2>1
    <2> QED  BY <1>0, <1>8, <2>1
             DEF BringUpRefreshed, BringUpRefreshFails, LoopRefreshed, Accepted, Refused, TimedOut,
                 NeverSent, ConnectionError, TakePair, BringUpContinues, SendAccountAuth
  <1> QED  BY <1>1, <1>2, <1>3, <1>5, <1>6, <1>7, <1>8 DEF Next

LEMMA DownIsQuietKept ==
    ASSUME TypeOK, CallsApart, DownIsQuiet, [Next]_vars
    PROVE  DownIsQuiet'
  <1>0. /\ calls \in [Callers -> Calls] /\ phase \in Phases /\ None # Refusal
        /\ Callers = {"bringUp", "loop"}
        /\ NoCall.stage = "idle" /\ NoCall.answer = None
        /\ "bringUp" \in Callers /\ "loop" \in Callers
    BY RefreshAssumption DEF TypeOK, Calls, Answers, Callers, Refusal, NoCall
  <1> USE DEF DownIsQuiet, AwaitedOnlyWhileConnected, tokenVars, authVars, venueVars
  <1>1. CASE \/ Connect \/ ApplicationCancelled \/ AccountEnded \/ AccountAccepted
             \/ TokenAges \/ IntervalPasses \/ UNCHANGED vars
    BY <1>0, <1>1 DEF Connect, ApplicationCancelled,
                      AccountEnded, AccountAccepted, TokenAges, IntervalPasses, vars
  <1>2. CASE \/ \E who \in Callers : WriteRefresh(who)
             \/ \E f \in wire : VenueProcesses(f)
             \/ \E f \in stray : VenueProcessesStray(f)
             \/ \E rep \in replies : ReadReply(rep)
    BY <1>0, <1>2 DEF WriteRefresh, VenueProcesses, VenueProcessesStray, ReadReply
  <1>4. ASSUME FailCalls
        PROVE  \A c \in Callers : calls'[c].stage \in {"idle", "failed"} \/ calls'[c].answer # None
    BY <1>0, <1>4 DEF FailCalls, NoCall, Calls
  <1>5. CASE Disconnected \/ BringUpFails \/ LossSeen \/ HoldEnds \/ LateWaitEnds
    BY <1>0, <1>4, <1>5 DEF Disconnected, BringUpFails, LossSeen, HoldEnds, LateWaitEnds,
                            Teardown, BringUpContinues, SendAccountAuth, LoseSocket, GiveUpReply
  <1>6. CASE Stop
    BY <1>0, <1>6 DEF Stop, LoseSocket, GiveUpReply
  <1>7. CASE AppAuthenticated \/ AccountRejected \/ LoopRefreshes
    BY <1>0, <1>7 DEF AppAuthenticated, AccountRejected, LoopRefreshes, SendAccountAuth,
                      CallsApart
  <1>8. CASE BringUpRefreshed
    BY <1>0, <1>8 DEF BringUpRefreshed, BringUpContinues, SendAccountAuth
  <1>9. CASE BringUpRefreshFails
    BY <1>0, <1>9 DEF BringUpRefreshFails, LoseSocket, CallsApart
  <1>10. CASE LoopRefreshed
    <2>1. calls' = [calls EXCEPT !["loop"] = NoCall] /\ phase' = phase /\ linkUp' = linkUp
          /\ wire' = wire /\ replies' = replies
      BY <1>10 DEF LoopRefreshed, Accepted, Refused, TimedOut, NeverSent, ConnectionError
    <2>2. settled => settled'
      BY <1>10 DEF LoopRefreshed, Accepted, Refused, TimedOut, NeverSent, ConnectionError,
                   TakePair, SettledAfterRefusal
    <2> QED  BY <1>0, <2>1, <2>2
  <1> QED  BY <1>1, <1>2, <1>5, <1>6, <1>7, <1>8, <1>9, <1>10 DEF Next

-----------------------------------------------------------------------------
(* TokenRefresh: the pairs and the requests that can spend them *)

PairsInv == TokensHeld /\ AnsweredOnce /\ PairUnderWay /\ SettledHolds /\ AloneUnderWay

pairVars == <<pair, issued, settled, forfeited, calls, writes, wire, stray, replies>>

\* The types, as far as the pairs need them.
PairsTyped ==
    /\ pair \in Nat /\ issued \in Nat /\ writes \in Nat
    /\ \A f \in wire \cup stray : f.id \in Nat /\ f.token \in Nat
    /\ \A r \in replies : r.id \in Nat /\ r.version \in Nat
    /\ \A c \in Callers : calls[c].id \in Nat /\ calls[c].token \in Nat
    /\ None # Refusal

LEMMA PairsAreTyped == TypeOK => PairsTyped
  BY RefreshAssumption DEF TypeOK, PairsTyped, Versions, Refusal

\* One call at most is under way, and it has an answer only once it was sent.
OneCall ==
    /\ \A c, d \in Callers : calls[c].stage # "idle" /\ calls[d].stage # "idle" => c = d
    /\ \A c \in Callers : calls[c].stage # "sent" => calls[c].answer = None

LEMMA CallsAreApart == CallsApart => OneCall
  BY DEF CallsApart, OneCall, Callers

\* A call changes while nothing else does: it is begun, or it ends without its answer.
LEMMA CallMoves ==
    ASSUME TypeOK, PairsInv, NEW who \in Callers, NEW call,
           call.stage # "sent", call.token \in 0..pair, call.answer = None,
           calls' = [calls EXCEPT ![who] = call],
           UNCHANGED <<pair, issued, settled, forfeited, writes, wire, stray, replies>>
    PROVE  PairsInv'
  <1>0. calls \in [Callers -> Calls] /\ PairsTyped
    BY PairsAreTyped DEF TypeOK, Calls, Answers
  <1>1. /\ \A c \in Callers : c # who => calls'[c] = calls[c]
        /\ calls'[who] = call
    BY <1>0
  <1>2. TokensHeld'
    BY <1>0, <1>1 DEF PairsInv, TokensHeld, PairsTyped
  <1>3. AnsweredOnce'
    BY <1>0, <1>1 DEF PairsInv, AnsweredOnce
  <1>4. PairUnderWay'
    BY <1>0, <1>1 DEF PairsInv, PairUnderWay
  <1>5. SettledHolds'
    BY DEF PairsInv, SettledHolds, Spent
  <1>6. AloneUnderWay'
    BY <1>0, <1>1 DEF PairsInv, AloneUnderWay, Spent
  <1> QED  BY <1>2, <1>3, <1>4, <1>5, <1>6 DEF PairsInv

\* The request of a call is written.
LEMMA WriteKeepsPairs ==
    ASSUME TypeOK, OneCall, PairsInv, NEW who \in Callers, WriteRefresh(who)
    PROVE  PairsInv'
  <1>0. calls \in [Callers -> Calls] /\ PairsTyped /\ settled \in BOOLEAN
    BY PairsAreTyped DEF TypeOK, Calls, Answers
  <1> DEFINE new == [id |-> writes + 1, token |-> calls[who].token]
  <1>1. /\ UNCHANGED <<pair, issued, forfeited, stray, replies>>
        /\ writes' = writes + 1 /\ wire' = wire \cup {new}
        /\ calls[who].stage = "queued" /\ settled' = FALSE
    BY DEF WriteRefresh, venueVars
  <1>2. /\ \A c \in Callers : c # who => calls'[c] = calls[c]
        /\ calls'[who].stage = "sent" /\ calls'[who].id = writes + 1
        /\ calls'[who].token = calls[who].token /\ calls'[who].answer = calls[who].answer
        /\ calls'[who].earlier = ~settled
    BY <1>0 DEF WriteRefresh, Calls
  <1>3. calls'[who].answer = None
    BY <1>1, <1>2 DEF OneCall
  <1>e. ~calls'[who].earlier => settled
    BY <1>2, Zenon
  <1>4. \A c \in Callers : c # who => calls'[c].stage = "idle"
    BY <1>1, <1>2 DEF OneCall
  <1> HIDE DEF new
  <1>n. new.id = writes + 1 /\ new.token = calls[who].token
    BY DEF new
  <1>5. TokensHeld'
    BY <1>0, <1>1, <1>2, <1>n DEF PairsInv, TokensHeld, PairsTyped
  <1>6. AnsweredOnce'
    BY <1>0, <1>1, <1>2, <1>3, <1>4, <1>n DEF PairsInv, AnsweredOnce, PairsTyped, TokensHeld
  <1>7. PairUnderWay'
    BY <1>0, <1>1, <1>2, <1>n DEF PairsInv, PairUnderWay
  <1>8. SettledHolds'
    BY <1>1 DEF SettledHolds
  <1>9. AloneUnderWay'
    BY <1>0, <1>1, <1>2, <1>4, <1>e, <1>n DEF PairsInv, AloneUnderWay, Spent, SettledHolds,
                                              PairUnderWay, PairsTyped
  <1> QED  BY <1>5, <1>6, <1>7, <1>8, <1>9 DEF PairsInv

\* The venue processes a request on the open socket.
LEMMA VenueKeepsPairs ==
    ASSUME TypeOK, PairsInv, NEW f \in wire, VenueProcesses(f)
    PROVE  PairsInv'
  <1>0. PairsTyped
    BY PairsAreTyped
  <1>1. UNCHANGED <<pair, settled, forfeited, calls, writes, stray>> /\ wire' = wire \ {f}
    BY DEF VenueProcesses, tokenVars
  <1>2. CASE VenueIssues(f) /\ issued' = issued + 1
             /\ replies' = replies \cup {[id |-> f.id, version |-> issued + 1]}
    <2> DEFINE new == [id |-> f.id, version |-> issued + 1]
    <2>n. new.id = f.id /\ new.version = issued + 1 /\ replies' = replies \cup {new}
      BY <1>2
    <2> HIDE DEF new
    <2>0. f.token = issued /\ pair = issued
      BY <1>0, <1>2 DEF VenueIssues, PairsInv, TokensHeld, PairsTyped
    <2>1. TokensHeld'
      BY <1>0, <1>1, <1>2, <2>0 DEF PairsInv, TokensHeld, PairsTyped
    <2>2. AnsweredOnce'
      BY <1>0, <1>1, <2>n DEF PairsInv, AnsweredOnce, TokensHeld, PairsTyped
    <2>3. PairUnderWay'
      BY <1>0, <1>1, <1>2, <2>n, <2>0 DEF PairsInv, PairUnderWay, PairsTyped
    <2>4. ~(settled /\ ~forfeited)
      BY <2>0 DEF PairsInv, SettledHolds, Spent
    <2>5. \A g \in wire' \cup stray' : Spent(g)'
      BY <1>0, <1>1, <1>2, <2>0 DEF PairsInv, TokensHeld, PairsTyped, Spent
    <2>6. \A c \in Callers : calls[c].stage = "sent" /\ ~calls[c].earlier /\ ~forfeited
             => f.id = calls[c].id
      BY <2>0 DEF PairsInv, AloneUnderWay, Spent
    <2>7. AloneUnderWay'
      BY <1>0, <1>1, <2>n, <2>5, <2>6 DEF PairsInv, AloneUnderWay, PairsTyped, Refusal
    <2> QED  BY <1>1, <2>1, <2>2, <2>3, <2>4, <2>7 DEF PairsInv, SettledHolds
  <1>3. CASE issued' = issued /\ replies' = replies \cup {[id |-> f.id, version |-> Refusal]}
    <2> DEFINE new == [id |-> f.id, version |-> Refusal]
    <2>n. new.id = f.id /\ new.version = Refusal /\ replies' = replies \cup {new}
      BY <1>3
    <2> HIDE DEF new
    <2>1. TokensHeld'
      BY <1>0, <1>1, <1>3 DEF PairsInv, TokensHeld, PairsTyped
    <2>2. AnsweredOnce'
      BY <1>0, <1>1, <2>n DEF PairsInv, AnsweredOnce, TokensHeld, PairsTyped
    <2>3. PairUnderWay'
      BY <1>0, <1>1, <1>3, <2>n DEF PairsInv, PairUnderWay, PairsTyped
    <2>4. SettledHolds'
      BY <1>1, <1>3 DEF PairsInv, SettledHolds, Spent
    <2>5. AloneUnderWay'
      BY <1>0, <1>1, <1>3, <2>n DEF PairsInv, AloneUnderWay, Spent
    <2> QED  BY <2>1, <2>2, <2>3, <2>4, <2>5 DEF PairsInv
  <1> QED  BY <1>2, <1>3 DEF VenueProcesses

\* It processes a request whose socket is gone.
LEMMA StrayKeepsPairs ==
    ASSUME TypeOK, PairsInv, NEW f \in stray, VenueProcessesStray(f)
    PROVE  PairsInv'
  <1>0. PairsTyped
    BY PairsAreTyped
  <1>1. UNCHANGED <<pair, settled, forfeited, calls, writes, wire, replies>> /\ stray' = stray \ {f}
    BY DEF VenueProcessesStray, tokenVars
  <1>2. CASE VenueIssues(f)
    <2>0. f.token = issued /\ pair = issued /\ issued' = issued + 1
      BY <1>0, <1>2 DEF VenueIssues, PairsInv, TokensHeld, PairsTyped, VenueProcessesStray
    <2>1. TokensHeld'
      BY <1>0, <1>1, <2>0 DEF PairsInv, TokensHeld, PairsTyped
    <2>2. AnsweredOnce'
      BY <1>1 DEF PairsInv, AnsweredOnce
    <2>3. PairUnderWay'
      BY <1>0, <1>1, <2>0 DEF PairsInv, PairUnderWay, PairsTyped
    <2>4. ~(settled /\ ~forfeited)
      BY <2>0 DEF PairsInv, SettledHolds, Spent
    <2>5. \A c \in Callers : ~(calls[c].stage = "sent" /\ ~calls[c].earlier /\ ~forfeited)
      BY <2>0 DEF PairsInv, AloneUnderWay, Spent
    <2> QED  BY <1>1, <2>1, <2>2, <2>3, <2>4, <2>5 DEF PairsInv, SettledHolds, AloneUnderWay
  <1>3. CASE ~VenueIssues(f)
    <2>0. issued' = issued
      BY <1>3 DEF VenueProcessesStray
    <2>1. TokensHeld'
      BY <1>0, <1>1, <2>0 DEF PairsInv, TokensHeld, PairsTyped
    <2>2. AnsweredOnce' /\ PairUnderWay'
      BY <1>1, <2>0 DEF PairsInv, AnsweredOnce, PairUnderWay
    <2>4. SettledHolds'
      BY <1>1, <2>0 DEF PairsInv, SettledHolds, Spent
    <2>5. AloneUnderWay'
      BY <1>1, <2>0 DEF PairsInv, AloneUnderWay, Spent
    <2> QED  BY <2>1, <2>2, <2>4, <2>5 DEF PairsInv
  <1> QED  BY <1>2, <1>3

\* The session takes the pair under way, read as a late reply or as its call's answer.
LEMMA TakingKeepsPairs ==
    ASSUME TypeOK, PairsInv, TakePair(issued), pair < issued,
           UNCHANGED <<issued, writes, wire, stray>>,
           replies' \subseteq replies, \A r \in replies' : r.version = Refusal,
           \A c \in Callers : \/ calls'[c].stage # "sent" /\ calls'[c].answer = None
                                 /\ calls'[c].token = 0
                              \/ calls'[c] = calls[c] /\ calls[c].answer \in {None, Refusal}
    PROVE  PairsInv'
  <1>0. PairsTyped
    BY PairsAreTyped
  <1>1. pair' = issued /\ issued' = issued
    BY DEF TakePair
  <1>2. TokensHeld'
    BY <1>0, <1>1 DEF PairsInv, TokensHeld, PairsTyped
  <1>3. AnsweredOnce'
    BY <1>0 DEF PairsInv, AnsweredOnce
  <1>4. PairUnderWay'
    BY DEF PairsInv, PairUnderWay
  <1>5. \A f \in wire \cup stray : Spent(f)'
    BY <1>0, <1>1 DEF PairsInv, TokensHeld, PairsTyped, Spent
  <1>6. SettledHolds' /\ AloneUnderWay'
    BY <1>1, <1>5 DEF SettledHolds, AloneUnderWay
  <1> QED  BY <1>2, <1>3, <1>4, <1>6 DEF PairsInv

\* The read loop takes a reply: for a call, adopted late, or ignored.
LEMMA ReadKeepsPairs ==
    ASSUME TypeOK, OneCall, PairsInv, NEW rep \in replies, ReadReply(rep)
    PROVE  PairsInv'
  <1>0. calls \in [Callers -> Calls] /\ PairsTyped
    BY PairsAreTyped DEF TypeOK, Calls, Answers
  <1>1. UNCHANGED <<issued, writes, wire, stray>> /\ replies' = replies \ {rep}
    BY DEF ReadReply, venueVars
  <1>2. CASE \E who \in Callers : calls[who].stage = "sent" /\ calls[who].id = rep.id
    <2>1. PICK who \in Callers : calls[who].stage = "sent" /\ calls[who].id = rep.id
      BY <1>2
    <2>2. \A c \in Callers : c # who => calls[c].stage = "idle"
      BY <2>1 DEF OneCall
    <2>3. calls' = [c \in Callers |-> IF calls[c].stage = "sent" /\ calls[c].id = rep.id
                                      THEN [calls[c] EXCEPT !.answer = rep.version]
                                      ELSE calls[c]]
          /\ UNCHANGED <<pair, settled, forfeited>>
      BY <2>1 DEF ReadReply, tokenVars
    <2>4. /\ \A c \in Callers : c # who => calls'[c] = calls[c] /\ calls[c].stage = "idle"
          /\ calls'[who].stage = "sent" /\ calls'[who].id = rep.id
          /\ calls'[who].token = calls[who].token /\ calls'[who].earlier = calls[who].earlier
          /\ calls'[who].answer = rep.version
      BY <1>0, <2>1, <2>2, <2>3 DEF Calls
    <2>5. \A c \in Callers : c # who => calls[c].answer = None
      BY <2>2 DEF OneCall
    <2>6. TokensHeld'
      BY <1>0, <1>1, <2>3, <2>4 DEF PairsInv, TokensHeld, PairsTyped
    <2>7. AnsweredOnce'
      BY <1>0, <1>1, <2>1, <2>4, <2>5 DEF PairsInv, AnsweredOnce
    <2>8. PairUnderWay'
      BY <1>0, <1>1, <2>3, <2>4, <2>5 DEF PairsInv, PairUnderWay
    <2>9. SettledHolds'
      BY <1>1, <2>3 DEF PairsInv, SettledHolds, Spent
    <2>10. rep.version # None
      BY <1>0, RefreshAssumption DEF PairsTyped
    <2>11. AloneUnderWay'
      <3>1. ASSUME calls[who].stage = "sent", ~calls[who].earlier, ~forfeited
            PROVE  /\ \A f \in wire : Spent(f) \/ f.id = calls[who].id
                   /\ \A f \in stray : Spent(f)
                   /\ \A r \in replies' : r.version = Refusal \/ r.id = calls[who].id
                   /\ \/ pair = issued \/ calls'[who].answer \notin {None, Refusal}
                      \/ \E r \in replies' : r.version # Refusal
        <4>1. /\ \A f \in wire : Spent(f) \/ f.id = calls[who].id
              /\ \A f \in stray : Spent(f)
              /\ \A r \in replies : r.version = Refusal \/ r.id = calls[who].id
              /\ \/ pair = issued \/ calls[who].answer \notin {None, Refusal}
                 \/ \E r \in replies : r.version # Refusal
          BY <3>1 DEF PairsInv, AloneUnderWay
        <4>2. calls[who].answer = None
          BY <2>1 DEF PairsInv, AnsweredOnce
        <4> QED  BY <1>1, <2>4, <2>10, <4>1, <4>2
      <3> QED  BY <1>1, <2>1, <2>3, <2>4, <3>1, ZenonT(40) DEF AloneUnderWay, Spent
    <2> QED  BY <2>6, <2>7, <2>8, <2>9, <2>11 DEF PairsInv
  <1>3. CASE ~\E who \in Callers : calls[who].stage = "sent" /\ calls[who].id = rep.id
    <2>1. AdoptLate(rep.version) /\ calls' = calls
      BY <1>3 DEF ReadReply
    <2>2. CASE rep.version # Refusal /\ ~settled
      <3>1. TakePair(issued) /\ pair < issued
        BY <2>1, <2>2 DEF AdoptLate, PairsInv, PairUnderWay
      <3>2. \A r \in replies' : r.version = Refusal
        BY <1>1, <2>2 DEF PairsInv, PairUnderWay
      <3>3. \A c \in Callers : calls[c].answer \in {None, Refusal}
        BY <2>2 DEF PairsInv, PairUnderWay
      <3> QED  BY <1>1, <2>1, <3>1, <3>2, <3>3, TakingKeepsPairs
    <2>3. CASE rep.version = Refusal \/ settled
      <3>1. UNCHANGED <<pair, settled, forfeited>>
        BY <2>1, <2>3 DEF AdoptLate, tokenVars
      <3>2. TokensHeld' /\ AnsweredOnce' /\ PairUnderWay'
        BY <1>0, <1>1, <2>1, <3>1 DEF PairsInv, TokensHeld, AnsweredOnce, PairUnderWay, PairsTyped
      <3>3. SettledHolds'
        BY <1>1, <3>1 DEF PairsInv, SettledHolds, Spent
      <3>4. AloneUnderWay'
        BY <1>1, <1>3, <2>1, <2>3, <3>1 DEF PairsInv, AloneUnderWay, SettledHolds, Spent
      <3> QED  BY <3>2, <3>3, <3>4 DEF PairsInv
    <2> QED  BY <2>2, <2>3
  <1> QED  BY <1>2, <1>3

\* A call ends with its answer.
LEMMA AcceptedKeepsPairs ==
    ASSUME TypeOK, OneCall, PairsInv, NEW who \in Callers, Accepted(who),
           UNCHANGED <<issued, writes, wire, stray, replies>>
    PROVE  PairsInv'
  <1>0. calls \in [Callers -> Calls] /\ NoCall.stage = "idle" /\ NoCall.answer = None
        /\ NoCall.token = 0
    BY DEF TypeOK, Calls, Answers, NoCall
  <1>1. /\ calls[who].stage = "sent" /\ calls[who].answer = issued /\ pair < issued
        /\ \A r \in replies : r.version = Refusal
    BY DEF Accepted, PairsInv, PairUnderWay
  <1>2. TakePair(issued)
    BY <1>1 DEF Accepted
  <1>3. \A c \in Callers : \/ calls'[c].stage # "sent" /\ calls'[c].answer = None
                              /\ calls'[c].token = 0
                           \/ calls'[c] = calls[c] /\ calls[c].answer \in {None, Refusal}
    BY <1>0, <1>1 DEF Accepted, OneCall
  <1> QED  BY <1>1, <1>2, <1>3, TakingKeepsPairs

\* A refusal with no earlier request out leaves the pair the session holds the newest.
LEMMA RefusalSettles ==
    ASSUME TypeOK, PairsInv, NEW who \in Callers, calls[who].stage = "sent",
           calls[who].answer = Refusal, settled \/ ~calls[who].earlier, ~forfeited
    PROVE  pair = issued /\ \A f \in wire \cup stray : Spent(f)
  <1>1. CASE settled
    BY <1>1 DEF PairsInv, SettledHolds
  <1>2. CASE ~calls[who].earlier
    <2>1. None # Refusal
      BY PairsAreTyped DEF PairsTyped
    <2>2. \A f \in wire \cup replies : f.id # calls[who].id
      BY <2>1 DEF PairsInv, AnsweredOnce
    <2> QED  BY <1>2, <2>2 DEF PairsInv, AloneUnderWay
  <1> QED  BY <1>1, <1>2

LEMMA RefusedKeepsPairs ==
    ASSUME TypeOK, OneCall, PairsInv, NEW who \in Callers, Refused(who),
           UNCHANGED <<issued, writes, wire, stray, replies>>
    PROVE  PairsInv'
  <1>0. calls \in [Callers -> Calls] /\ NoCall.stage = "idle" /\ NoCall.answer = None
        /\ NoCall.token = 0 /\ PairsTyped
    BY PairsAreTyped DEF TypeOK, Calls, Answers, NoCall
  <1>1. UNCHANGED <<pair, forfeited>> /\ calls[who].stage = "sent" /\ calls[who].answer = Refusal
    BY DEF Refused
  <1>2. \A c \in Callers : calls'[c].stage = "idle" /\ calls'[c].answer = None
                           /\ calls'[c].token <= pair
    BY <1>0, <1>1 DEF Refused, OneCall, PairsTyped, PairsInv, TokensHeld
  <1>3. settled' => settled \/ ~calls[who].earlier
    BY DEF Refused, SettledAfterRefusal
  <1>4. TokensHeld'
    BY <1>0, <1>1, <1>2 DEF PairsInv, TokensHeld, PairsTyped
  <1>5. AnsweredOnce' /\ PairUnderWay' /\ AloneUnderWay'
    BY <1>1, <1>2 DEF PairsInv, AnsweredOnce, PairUnderWay, AloneUnderWay
  <1>6. SettledHolds'
    BY <1>1, <1>3, RefusalSettles DEF SettledHolds, Spent
  <1> QED  BY <1>4, <1>5, <1>6 DEF PairsInv

\* The socket ends, and with it the requests without an answer; a reply awaited is given up
\* by all but the loss itself, unless its refusal settled it.
LEMMA LossKeepsPairs ==
    ASSUME TypeOK, PairsInv, LoseSocket, UNCHANGED <<pair, issued, writes>>,
           \A c \in Callers :
              \/ calls'[c].stage # "sent" /\ calls'[c].answer = None /\ calls'[c].token = 0
              \/ calls'[c] = calls[c] /\ calls[c].answer # None
              \/ calls'[c] = calls[c] /\ calls[c].stage # "sent",
           \/ UNCHANGED <<settled, forfeited>>
           \/ GiveUpReply
           \/ ~forfeited' => /\ ~forfeited /\ pair = issued
                             /\ \A f \in wire \cup stray : Spent(f)
    PROVE  PairsInv'
  <1>0. PairsTyped
    BY PairsAreTyped
  <1>1. stray' = stray \cup wire /\ wire' = {} /\ replies' = {}
    BY DEF LoseSocket
  <1>2. TokensHeld'
    BY <1>0, <1>1 DEF PairsInv, TokensHeld, PairsTyped
  <1>3. AnsweredOnce'
    BY <1>0, <1>1 DEF PairsInv, AnsweredOnce
  <1>4. PairUnderWay'
    BY <1>1 DEF PairsInv, PairUnderWay
  <1>5. SettledHolds'
    BY <1>1 DEF PairsInv, SettledHolds, Spent, GiveUpReply
  <1>6. ~forfeited' => ~forfeited
    BY DEF GiveUpReply
  <1>7. AloneUnderWay'
    <2> SUFFICES ASSUME NEW c \in Callers, calls'[c].stage = "sent", ~calls'[c].earlier, ~forfeited'
                 PROVE  /\ \A f \in stray \cup wire : Spent(f)
                        /\ pair = issued \/ calls[c].answer \notin {None, Refusal}
                        /\ calls'[c] = calls[c]
      BY <1>1 DEF AloneUnderWay, Spent
    <2>1. calls'[c] = calls[c] /\ calls[c].stage = "sent" /\ calls[c].answer # None
      OBVIOUS
    <2>2. \A f \in wire \cup replies : f.id # calls[c].id
      BY <2>1 DEF PairsInv, AnsweredOnce
    <2> QED  BY <1>6, <2>1, <2>2 DEF PairsInv, AloneUnderWay
  <1> QED  BY <1>2, <1>3, <1>4, <1>5, <1>7 DEF PairsInv

LEMMA PairsKept ==
    ASSUME TypeOK, CallsApart, PairsInv, [Next]_vars
    PROVE  PairsInv'
  <1>0. /\ calls \in [Callers -> Calls] /\ pair \in Nat /\ None # Refusal /\ OneCall
        /\ NoCall.stage = "idle" /\ NoCall.answer = None /\ NoCall.token = 0
        /\ "bringUp" \in Callers /\ "loop" \in Callers
    BY CallsAreApart, PairsAreTyped DEF TypeOK, PairsTyped, Calls, Answers, NoCall, Callers
  <1>1. CASE UNCHANGED pairVars
    <2>1. TokensHeld' /\ AnsweredOnce'
      BY <1>1 DEF pairVars, PairsInv, TokensHeld, AnsweredOnce
    <2>2. PairUnderWay' /\ SettledHolds' /\ AloneUnderWay'
      BY <1>1 DEF pairVars, PairsInv, PairUnderWay, SettledHolds, AloneUnderWay, Spent
    <2> QED  BY <2>1, <2>2 DEF PairsInv
  <1>2. ASSUME NEW who \in Callers, BeginRefresh(who),
               UNCHANGED <<pair, issued, settled, forfeited, writes, wire, stray, replies>>
        PROVE  PairsInv'
    <2> DEFINE call == [NoCall EXCEPT !.stage = "queued", !.token = pair]
    <2>1. call.stage # "sent" /\ call.token \in 0..pair /\ call.answer = None
      BY <1>0 DEF NoCall
    <2>2. calls' = [calls EXCEPT ![who] = call]
      BY <1>2 DEF BeginRefresh
    <2> HIDE DEF call
    <2> QED  BY <1>2, <2>1, <2>2, CallMoves
  <1>3. ASSUME NEW who \in Callers, calls' = [calls EXCEPT ![who] = NoCall],
               UNCHANGED <<pair, issued, settled, forfeited, writes, wire, stray, replies>>
        PROVE  PairsInv'
    <2>1. NoCall.token \in 0..pair /\ NoCall.stage # "sent"
      BY <1>0
    <2> HIDE DEF NoCall
    <2> QED  BY <1>0, <1>3, <2>1, CallMoves
  <1>4. CASE \/ \E who \in Callers : WriteRefresh(who)
             \/ \E f \in wire : VenueProcesses(f)
             \/ \E f \in stray : VenueProcessesStray(f)
             \/ \E rep \in replies : ReadReply(rep)
    BY <1>0, <1>4, WriteKeepsPairs, VenueKeepsPairs, StrayKeepsPairs, ReadKeepsPairs
  <1>5. ASSUME FailCalls
        PROVE  \A c \in Callers :
                  \/ calls'[c].stage # "sent" /\ calls'[c].answer = None /\ calls'[c].token = 0
                  \/ calls'[c] = calls[c] /\ calls[c].answer # None
                  \/ calls'[c] = calls[c] /\ calls[c].stage # "sent"
    BY <1>0, <1>5 DEF FailCalls, NoCall
  <1>6. Teardown => PairsInv'
    BY <1>5, LossKeepsPairs DEF Teardown
  <1>7. CASE Connect \/ ApplicationCancelled \/ AccountEnded \/ AccountAccepted
             \/ TokenAges \/ IntervalPasses \/ UNCHANGED vars
    BY <1>1, <1>7 DEF Connect, ApplicationCancelled, AccountEnded, AccountAccepted, TokenAges,
                      IntervalPasses, vars, tokenVars, venueVars, pairVars
  <1>8. CASE Disconnected
    BY <1>5, <1>8, LossKeepsPairs DEF Disconnected, tokenVars
  <1>9. CASE Stop
    BY <1>0, <1>9, LossKeepsPairs DEF Stop
  <1>10. CASE AppAuthenticated \/ AccountRejected \/ LoopRefreshes
    BY <1>0, <1>1, <1>2, <1>10 DEF AppAuthenticated, AccountRejected, LoopRefreshes, tokenVars,
                                   venueVars, pairVars
  <1>11. CASE BringUpFails \/ HoldEnds
    BY <1>6, <1>11 DEF BringUpFails, HoldEnds
  <1>12. CASE LossSeen \/ LateWaitEnds
    BY <1>1, <1>6, <1>12 DEF LossSeen, LateWaitEnds, BringUpContinues, tokenVars, venueVars,
                             pairVars
  <1>13. CASE BringUpRefreshed
    <2>1. UNCHANGED <<issued, writes, wire, stray, replies>>
      BY <1>13 DEF BringUpRefreshed, BringUpContinues
    <2>2. \/ Accepted("bringUp") \/ Refused("bringUp")
          \/ calls' = [calls EXCEPT !["bringUp"] = NoCall] /\ UNCHANGED tokenVars
      BY <1>13 DEF BringUpRefreshed, NeverSent, TimedOut
    <2> QED  BY <1>0, <1>3, <2>1, <2>2, AcceptedKeepsPairs, RefusedKeepsPairs DEF tokenVars
  <1>14. CASE LoopRefreshed
    <2>1. UNCHANGED <<issued, writes, wire, stray, replies>>
      BY <1>14 DEF LoopRefreshed, venueVars
    <2>2. \/ Accepted("loop") \/ Refused("loop")
          \/ calls' = [calls EXCEPT !["loop"] = NoCall] /\ UNCHANGED tokenVars
      BY <1>14 DEF LoopRefreshed, NeverSent, TimedOut, ConnectionError
    <2> QED  BY <1>0, <1>3, <2>1, <2>2, AcceptedKeepsPairs, RefusedKeepsPairs DEF tokenVars
  <1>15. CASE BringUpRefreshFails
    <2>1. LoseSocket /\ UNCHANGED <<pair, issued, writes>>
      BY <1>15 DEF BringUpRefreshFails
    <2>2. calls' = [calls EXCEPT !["bringUp"] = NoCall] /\ phase = "refreshing"
      BY <1>15 DEF BringUpRefreshFails
    <2>3. \A c \in Callers :
             \/ calls'[c].stage # "sent" /\ calls'[c].answer = None /\ calls'[c].token = 0
             \/ calls'[c] = calls[c] /\ calls[c].stage # "sent"
      BY <1>0, <2>2 DEF CallsApart, Callers
    <2>4. ~forfeited' => /\ ~forfeited /\ pair = issued
                         /\ \A f \in wire \cup stray : Spent(f)
      <3> SUFFICES ASSUME ~forfeited'
                   PROVE  /\ ~forfeited /\ pair = issued
                          /\ \A f \in wire \cup stray : Spent(f)
        OBVIOUS
      <3>1. ~forfeited /\ (settled \/ (/\ calls["bringUp"].answer = Refusal
                                       /\ SettledAfterRefusal("bringUp")))
        BY <1>15 DEF BringUpRefreshFails
      <3>2. CASE settled
        BY <3>1, <3>2 DEF PairsInv, SettledHolds
      <3>3. CASE calls["bringUp"].answer = Refusal /\ SettledAfterRefusal("bringUp")
        <4>1. calls["bringUp"].stage = "sent"
          BY <1>0, <3>3 DEF OneCall
        <4> QED  BY <1>0, <3>1, <3>3, <4>1, RefusalSettles DEF SettledAfterRefusal
      <3> QED  BY <3>1, <3>2, <3>3
    <2> QED  BY <2>1, <2>3, <2>4, LossKeepsPairs
  <1> QED  BY <1>4, <1>7, <1>8, <1>9, <1>10, <1>11, <1>12, <1>13, <1>14, <1>15 DEF Next

-----------------------------------------------------------------------------
(* TokenRefresh: the authentication *)

\* A pair is taken by a late reply, by the bring-up or by the loop; each leaves the
\* authentication true to it.
LEMMA AuthKept ==
    ASSUME TypeOK, CallsApart, AuthTrue, [Next]_vars
    PROVE  AuthTrue'
  <1>0. phase \in Phases
    BY DEF TypeOK
  <1> USE DEF AuthTrue, AuthenticatedWithHeldPair, tokenVars, authVars
  <1>1. CASE \E rep \in replies : ReadReply(rep)
    <2>1. \/ UNCHANGED <<tokenVars, lost, overtaken>>
          \/ /\ lost' = (lost \/ ready)
             /\ overtaken' = (overtaken \/ phase = "account")
      BY <1>1 DEF ReadReply, AdoptLate
    <2>2. UNCHANGED <<ready, phase, tokenSent, authToken>>
      BY <1>1 DEF ReadReply
    <2>3. \/ UNCHANGED <<pair, lost, overtaken>>
          \/ /\ lost' \/ ~ready
             /\ overtaken' \/ phase # "account"
      BY <2>1, Zenon
    <2> QED  BY <2>2, <2>3
  <1>2. CASE LoopRefreshed
    <2>1. phase \in {"up", "holding", "down"}
      BY <1>2 DEF LoopRefreshed, CallsApart
    <2> QED  BY <1>2, <2>1 DEF LoopRefreshed, LostAfterLoop, Refused, TimedOut, NeverSent,
                               ConnectionError
  <1>3. CASE BringUpRefreshed
    <2>1. ~ready
      BY <1>3 DEF BringUpRefreshed, CallsApart
    <2> QED  BY <1>3, <2>1 DEF BringUpRefreshed, BringUpContinues, SendAccountAuth
  <1>4. CASE Connect \/ AppAuthenticated
    BY <1>4 DEF Connect, AppAuthenticated, SendAccountAuth, CallsApart
  <1>5. CASE AccountAccepted \/ AccountRejected
    BY <1>5 DEF AccountAccepted, AccountRejected, SendAccountAuth, CallsApart
  <1>6. CASE BringUpFails \/ HoldEnds \/ LossSeen \/ BringUpRefreshFails \/ Stop \/ Disconnected
    BY <1>6 DEF BringUpFails, HoldEnds, LossSeen, BringUpRefreshFails, Stop, Disconnected, Teardown
  <1>7. CASE LateWaitEnds
    BY <1>7 DEF LateWaitEnds, Teardown, BringUpContinues, SendAccountAuth, CallsApart
  <1>8. CASE \/ \E who \in Callers : WriteRefresh(who)
             \/ \E f \in wire : VenueProcesses(f)
             \/ \E f \in stray : VenueProcessesStray(f)
             \/ ApplicationCancelled \/ AccountEnded \/ LoopRefreshes
             \/ TokenAges \/ IntervalPasses \/ UNCHANGED vars
    <2>1. UNCHANGED <<pair, phase, tokenSent, authToken, overtaken>>
      BY <1>8 DEF WriteRefresh, VenueProcesses, VenueProcessesStray, ApplicationCancelled,
                  AccountEnded, LoopRefreshes, TokenAges, IntervalPasses, vars
    <2>2. ready' = FALSE \/ UNCHANGED <<ready, lost>>
      BY <1>8 DEF WriteRefresh, VenueProcesses, VenueProcessesStray, ApplicationCancelled,
                  AccountEnded, LoopRefreshes, TokenAges, IntervalPasses, vars
    <2> QED  BY <2>1, <2>2
  <1> QED  BY <1>1, <1>2, <1>3, <1>4, <1>5, <1>6, <1>7, <1>8 DEF Next

-----------------------------------------------------------------------------
(* TokenRefresh: theorems *)

LEMMA RefreshInit == Init => RefreshInv
  <1> SUFFICES ASSUME Init PROVE RefreshInv
    OBVIOUS
  <1>1. 0 \in Versions /\ 0 \in 0..MaxConnections /\ 0 \in Nat /\ None # Refusal
    BY RefreshAssumption DEF Versions, Refusal
  <1>2. calls \in [Callers -> Calls]
    BY NoCallTyped DEF Init
  <1>3. \A c \in Callers : calls[c].stage = "idle" /\ calls[c].answer = None /\ calls[c].token = 0
    BY DEF Init, NoCall
  <1>4. TypeOK
    BY <1>1, <1>2 DEF Init, TypeOK, Phases, Calls, Answers
  <1>5. CallsApart /\ DownIsQuiet
    BY <1>3 DEF Init, CallsApart, DownIsQuiet, AwaitedOnlyWhileConnected, Callers
  <1>6. TokensHeld /\ AnsweredOnce /\ PairUnderWay
    BY <1>1, <1>3 DEF Init, TokensHeld, AnsweredOnce, PairUnderWay
  <1>7. SettledHolds /\ AloneUnderWay /\ AuthTrue
    BY <1>3 DEF Init, SettledHolds, AloneUnderWay, AuthTrue, AuthenticatedWithHeldPair
  <1> QED  BY <1>4, <1>5, <1>6, <1>7 DEF RefreshInv

LEMMA RefreshInductive == RefreshInv /\ [Next]_vars => RefreshInv'
  <1> SUFFICES ASSUME RefreshInv, [Next]_vars PROVE RefreshInv'
    OBVIOUS
  <1>1. TypeOK'
    BY RefreshTypesKept DEF RefreshInv
  <1>2. CallsApart' /\ DownIsQuiet' /\ AuthTrue'
    BY CallsApartKept, DownIsQuietKept, AuthKept DEF RefreshInv
  <1>3. PairsInv'
    BY PairsKept DEF RefreshInv, PairsInv
  <1> QED  BY <1>1, <1>2, <1>3 DEF RefreshInv, PairsInv

LEMMA RefreshInvariant == Spec => []RefreshInv
  BY RefreshInit, RefreshInductive, PTL DEF Spec

\* The token state of session.py keeps its types: a version never exceeds the requests
\* written, however many are repeated, refused or processed after their socket closed.
THEOREM RefreshTyped == Spec => []TypeOK
  <1>1. RefreshInv => TypeOK
    BY DEF RefreshInv
  <1> QED  BY <1>1, RefreshInvariant, PTL

\* While _refresh_settled is set and no awaited reply was given up, the session holds the
\* venue's newest pair and no request under way can spend it: refresh_tokens() and
\* _on_late_refresh_reply() never drop the only working pair.
THEOREM NewestPairHeld == Spec => []SettledPairIsNewest
  <1>1. RefreshInv => SettledPairIsNewest
    BY DEF RefreshInv, SettledHolds, SettledPairIsNewest, Spent
  <1> QED  BY <1>1, RefreshInvariant, PTL

\* A ready session of session.py with no loss signalled is authenticated with the pair it
\* holds, unless that pair was adopted while the venue accepted an older one.
THEOREM AuthenticatedAsHeld == Spec => []AuthenticatedWithHeldPair
  <1>1. RefreshInv => AuthenticatedWithHeldPair
    BY DEF RefreshInv, AuthTrue
  <1> QED  BY <1>1, RefreshInvariant, PTL

-----------------------------------------------------------------------------
(* AccountClient: the inductive invariant *)

PreStages == {"listing", "relisting", "refreshing", "late"}
UpStages == {"waiting", "loading"}
LockStages == PreStages \cup UpStages \cup {"joining", "winding", "stopping"}
Here == account.loop \in {0, process.loop}
Releasing == {c \in Clients : At(c, {"queued"}) /\ connects[c].kind = "disconnect"}

Connects == [kind: {"none", "connect", "disconnect"},
             stage: LockStages \cup {"idle", "queued"}, session: Nat]

\* Of the queue only its head matters, and that is read where the lock is taken.
Accounts(queue) ==
    [users: Nat, session: Nat, attached: Nat, retry: Nat, reloading: BOOLEAN,
     reference: BOOLEAN, pair: Nat, lock: Clients \cup {Nobody}, queue: {queue}, loop: Nat]

AccountTyped ==
    /\ account \in Accounts(account.queue)
    /\ connects \in [Clients -> Connects]
    /\ holds \subseteq Clients
    /\ known \in [Clients -> Nat]
    /\ sessions \in [built: Nat, running: SUBSET Nat, ready: BOOLEAN]
    /\ venue \in [issued: Nat,
                  exchange: [stage: {"none", "asked", "answered", "refused"}, pair: Nat]]
    /\ process \in [loop: Nat, client: Nat]
    /\ history \in [cancels: Nat, leaked: Nat, forfeited: BOOLEAN]

\* The lifecycle lock: who is past it holds it, and on the loop that runs its holder is there.
LockHeld ==
    /\ account.loop <= process.loop /\ process.loop > 0
    /\ \A c \in Clients : At(c, LockStages) => Here /\ account.lock = c
    /\ Here /\ account.lock # Nobody => At(account.lock, LockStages)
    /\ account.loop = 0 => account.lock = Nobody /\ account.users = 0

\* The users counted, on the loop that runs.
UsersCounted ==
    /\ \A c \in holds : At(c, {"idle"})
    /\ Here => account.users = Cardinality(holds) + Cardinality(Releasing) + history.leaked

\* What a closed loop left: nothing runs, and only a clean client is connected to again.
LeftBehind ==
    ~Here => /\ holds = {} /\ history.leaked = 0 /\ sessions.running = {}
             /\ \A c \in Clients : \/ At(c, {"idle"})
                                   \/ At(c, {"queued"}) /\ connects[c].kind = "connect"
                                      /\ ~LeftUnclean

Settled(a) == a.session # NoSession /\ a.attached = a.session /\ a.retry = a.session /\ a.users > 0
Bare(a) == a.session = NoSession /\ a.attached = NoSession /\ a.retry = NoSession /\ a.users = 0

\* The client and its session at rest, and in each call that holds the lock.
AtRest ==
    \/ Bare(account) /\ sessions.running = {}
    \/ Settled(account) /\ (Here => sessions.running = {account.session})

StageTrue(c) ==
    /\ At(c, PreStages \cup {"stopping"}) => Bare(account) /\ sessions.running = {}
    /\ At(c, UpStages) =>
          /\ account.session = connects[c].session /\ account.attached = account.session
          /\ account.session # NoSession /\ account.retry = NoSession /\ account.users = 0
          /\ sessions.running = {account.session}
    /\ At(c, {"joining"}) => Settled(account) /\ sessions.running = {account.session}
    /\ At(c, {"winding"}) =>
          /\ Bare(account) /\ connects[c].session # NoSession
          /\ sessions.running = {connects[c].session}

SessionStages ==
    /\ account.lock = Nobody => AtRest
    /\ \A c \in Clients : StageTrue(c)

\* The pair held, and the exchange on the pre-connection.
PairHeld ==
    /\ venue.exchange.stage # "none" => \E c \in Clients : At(c, {"refreshing", "late"})
    /\ venue.exchange.stage = "answered" => venue.exchange.pair = venue.issued
    /\ account.pair # venue.issued => history.forfeited \/ venue.exchange.stage = "answered"

AccountInv ==
    /\ AccountTyped
    /\ LockHeld
    /\ UsersCounted
    /\ LeftBehind
    /\ SessionStages
    /\ PairHeld

-----------------------------------------------------------------------------
(* AccountClient: types *)

LEMMA ConnectsTyped ==
    ASSUME AccountTyped, [AccountNext]_accountVars
    PROVE  connects' \in [Clients -> Connects]
  <1>0. /\ connects \in [Clients -> Connects] /\ account.session \in Nat
        /\ sessions.built \in Nat /\ \A c \in Clients : connects[c].session \in Nat
    BY DEF AccountTyped, Accounts, Connects
  <1>1. NoConnect \in Connects
    BY DEF NoConnect, Connects, NoSession
  <1>2. ASSUME NEW c \in Clients, NEW stage \in LockStages, Goes(c, stage)
        PROVE  connects' \in [Clients -> Connects]
    BY <1>0, <1>2 DEF Goes, Connects
  <1>3. ASSUME NEW c \in Clients, Ended(c)
        PROVE  connects' \in [Clients -> Connects]
    BY <1>0, <1>1, <1>3 DEF Ended
  <1>4. ASSUME NEW c \in Clients, NEW a, NEW s \in Nat, Stops(c, a, s)
        PROVE  connects' \in [Clients -> Connects]
    <2>1. PICK stage \in LockStages :
              connects' = [connects EXCEPT ![c].stage = stage, ![c].session = s]
      BY <1>4 DEF Stops, LockStages
    <2> QED  BY <1>0, <2>1, ZenonT(40) DEF Connects
  <1>5. ASSUME NEW c \in Clients, Fails(c)
        PROVE  connects' \in [Clients -> Connects]
    BY <1>0, <1>3, <1>4, <1>5 DEF Fails
  <1>6. /\ "listing" \in LockStages /\ "relisting" \in LockStages /\ "refreshing" \in LockStages
        /\ "late" \in LockStages /\ "waiting" \in LockStages /\ "loading" \in LockStages
        /\ "joining" \in LockStages /\ "winding" \in LockStages /\ "stopping" \in LockStages
    BY DEF LockStages, PreStages, UpStages
  <1>7. ASSUME NEW c \in Clients, ConnectCalled(c) \/ DisconnectCalled(c)
        PROVE  connects' \in [Clients -> Connects]
    <2>1. /\ [NoConnect EXCEPT !.kind = "connect", !.stage = "queued"] \in Connects
          /\ [NoConnect EXCEPT !.kind = "disconnect", !.stage = "queued"] \in Connects
      BY DEF NoConnect, Connects, NoSession
    <2> QED  BY <1>0, <1>7, <2>1 DEF ConnectCalled, DisconnectCalled
  <1>8. ASSUME NEW c \in Clients, ConnectGoesOn(c)
        PROVE  connects' \in [Clients -> Connects]
    BY <1>2, <1>3, <1>6, <1>8 DEF ConnectGoesOn, Counted
  <1>9. ASSUME NEW c \in Clients, DisconnectGoesOn(c)
        PROVE  connects' \in [Clients -> Connects]
    <2>1. [Locked(c) EXCEPT !.users = IF @ = 0 THEN 0 ELSE @ - 1].session = account.session
      BY DEF Locked, AccountTyped, Accounts
    <2> QED  BY <1>0, <1>3, <1>4, <1>9, <2>1 DEF DisconnectGoesOn
  <1>10. ASSUME NEW c \in Clients, Listed(c)
         PROVE  connects' \in [Clients -> Connects]
    <2>1. CASE Resolved(c)
      <3>1. connects' = [connects EXCEPT ![c].stage = "waiting", ![c].session = sessions.built + 1]
        BY <2>1 DEF Resolved
      <3>2. sessions.built + 1 \in Nat
        BY <1>0
      <3> QED  BY <1>0, <1>6, <3>1, <3>2, ZenonT(40) DEF Connects
    <2> QED  BY <1>2, <1>6, <1>10, <2>1 DEF Listed
  <1>11. ASSUME NEW c \in Clients, Refreshed(c) \/ RefreshTimesOut(c) \/ AttemptFails(c)
         PROVE  connects' \in [Clients -> Connects]
    BY <1>2, <1>5, <1>6, <1>11 DEF Refreshed, RefreshTimesOut, AttemptFails
  <1>12. ASSUME NEW c \in Clients, ReadyFound(c) \/ ReferenceLoaded(c) \/ TasksEnd(c) \/ StopEnds(c)
         PROVE  connects' \in [Clients -> Connects]
    BY <1>2, <1>3, <1>6, <1>12 DEF ReadyFound, ReferenceLoaded, TasksEnd, StopEnds, Counted
  <1>13. ASSUME NEW c \in Clients, Cancelled(c)
         PROVE  connects' \in [Clients -> Connects]
    BY <1>2, <1>3, <1>5, <1>6, <1>13 DEF Cancelled
  <1>14. ASSUME LoopCloses
         PROVE  connects' \in [Clients -> Connects]
    BY <1>1, <1>14 DEF LoopCloses
  <1>15. ASSUME \/ \E c \in Clients : LookUp(c)
                \/ VenueExchanges \/ SessionChanges \/ Reloads
                \/ \E kept \in BOOLEAN : SessionRefreshes(kept)
                \/ UNCHANGED accountVars
         PROVE  connects' \in [Clients -> Connects]
    BY <1>0, <1>15 DEF LookUp, VenueExchanges, SessionChanges, Reloads, SessionRefreshes,
                       accountVars
  <1> QED  BY <1>7, <1>8, <1>9, <1>10, <1>11, <1>12, <1>13, <1>14, <1>15 DEF AccountNext

LEMMA AccountsTyped ==
    ASSUME AccountTyped, [AccountNext]_accountVars
    PROVE  account' \in Accounts(account'.queue)
  <1>0. /\ account \in Accounts(account.queue)
        /\ sessions.built \in Nat /\ \A c \in Clients : connects[c].session \in Nat
        /\ venue.issued \in Nat /\ venue.exchange.pair \in Nat /\ process.loop \in Nat
    BY DEF AccountTyped, Connects
  <1> USE DEF Accounts
  <1>1. ASSUME NEW a, a \in Accounts(a.queue), NEW c, NEW s, Stops(c, a, s)
        PROVE  account' \in Accounts(account'.queue)
    BY <1>1 DEF Stops, NoSession
  <1>2. ASSUME NEW a, a \in Accounts(a.queue), account' = Released(a)
        PROVE  account' \in Accounts(account'.queue)
    BY <1>2 DEF Released
  <1>3. ASSUME NEW c \in Clients, Fails(c)
        PROVE  account' \in Accounts(account'.queue)
    BY <1>0, <1>1, <1>2, <1>3 DEF Fails
  <1>4. ASSUME NEW a, a \in Accounts(a.queue), NEW c, Counted(c, a)
        PROVE  account' \in Accounts(account'.queue)
    <2>1. a.users + 1 \in Nat
      BY <1>4
    <2> QED  BY <1>4, <2>1 DEF Counted, Released
  <1>5. ASSUME NEW q, account' = [account EXCEPT !.queue = q]
        PROVE  account' \in Accounts(account'.queue)
    BY <1>0, <1>5
  <1>6. ASSUME NEW c \in Clients
        PROVE  Locked(c) \in Accounts(Locked(c).queue)
    BY <1>0 DEF Locked
  <1>7. ASSUME NEW c \in Clients, ConnectCalled(c) \/ DisconnectCalled(c)
        PROVE  account' \in Accounts(account'.queue)
    BY <1>5, <1>7 DEF ConnectCalled, DisconnectCalled
  <1>8. ASSUME NEW c \in Clients, ConnectGoesOn(c)
        PROVE  account' \in Accounts(account'.queue)
    <2> HIDE DEF Accounts
    <2>1. [Locked(c) EXCEPT !.loop = process.loop]
              \in Accounts([Locked(c) EXCEPT !.loop = process.loop].queue)
      BY <1>0, <1>6 DEF Accounts
    <2> QED  BY <1>4, <1>6, <1>8, <2>1 DEF ConnectGoesOn
  <1>9. ASSUME NEW c \in Clients, DisconnectGoesOn(c)
        PROVE  account' \in Accounts(account'.queue)
    <2> DEFINE a == [Locked(c) EXCEPT !.users = IF @ = 0 THEN 0 ELSE @ - 1]
    <2>0. Locked(c).users \in Nat
      BY <1>6
    <2>1. a \in Accounts(a.queue)
      BY <1>6, <2>0
    <2>2. Stops(c, a, a.session) \/ account' = Released(a)
      BY <1>9 DEF DisconnectGoesOn
    <2> HIDE DEF a, Accounts
    <2> QED  BY <1>1, <1>2, <2>1, <2>2
  <1>10. ASSUME NEW c \in Clients, Listed(c)
         PROVE  account' \in Accounts(account'.queue)
    <2>1. sessions.built + 1 \in Nat
      BY <1>0
    <2> QED  BY <1>0, <1>10, <2>1 DEF Listed, Resolved
  <1>11. ASSUME NEW c \in Clients, Refreshed(c) \/ RefreshTimesOut(c) \/ AttemptFails(c)
         PROVE  account' \in Accounts(account'.queue)
    BY <1>0, <1>3, <1>11 DEF Refreshed, RefreshTimesOut, AttemptFails
  <1>12. ASSUME NEW c \in Clients, ReadyFound(c) \/ ReferenceLoaded(c)
         PROVE  account' \in Accounts(account'.queue)
    <2> DEFINE up == [account EXCEPT !.retry = connects[c].session]
    <2> DEFINE whole == [account EXCEPT !.reference = TRUE, !.retry = connects[c].session]
    <2>1. up \in Accounts(up.queue) /\ whole \in Accounts(whole.queue)
      BY <1>0
    <2>2. Counted(c, account) \/ Counted(c, up) \/ Counted(c, whole) \/ account' = account
      BY <1>12 DEF ReadyFound, ReferenceLoaded
    <2> HIDE DEF up, whole, Accounts
    <2> QED  BY <1>0, <1>4, <2>1, <2>2
  <1>13. ASSUME NEW c \in Clients, TasksEnd(c) \/ StopEnds(c)
         PROVE  account' \in Accounts(account'.queue)
    BY <1>0, <1>2, <1>13 DEF TasksEnd, StopEnds
  <1>14. ASSUME NEW c \in Clients, Cancelled(c)
         PROVE  account' \in Accounts(account'.queue)
    <2> HIDE DEF Accounts
    <2> QED  BY <1>0, <1>2, <1>3, <1>5, <1>14 DEF Cancelled
  <1>15. ASSUME NEW c \in Clients, LookUp(c)
         PROVE  account' \in Accounts(account'.queue)
    <2>1. Successor \in Accounts(Successor.queue)
      BY <1>0 DEF Successor, NewAccount, NoSession
    <2> HIDE DEF Accounts
    <2> QED  BY <1>0, <1>15, <2>1 DEF LookUp
  <1>16. ASSUME LoopCloses
         PROVE  account' \in Accounts(account'.queue)
    BY <1>5, <1>16 DEF LoopCloses
  <1>17. ASSUME NEW kept \in BOOLEAN, SessionRefreshes(kept)
         PROVE  account' \in Accounts(account'.queue)
    <2>1. venue.issued + 1 \in Nat
      BY <1>0
    <2> QED  BY <1>0, <1>17, <2>1 DEF SessionRefreshes
  <1>18. ASSUME VenueExchanges \/ SessionChanges \/ Reloads \/ UNCHANGED accountVars
         PROVE  account' \in Accounts(account'.queue)
    BY <1>0, <1>18 DEF VenueExchanges, SessionChanges, Reloads, accountVars
  <1> HIDE DEF Accounts
  <1> QED  BY <1>7, <1>8, <1>9, <1>10, <1>11, <1>12, <1>13, <1>14, <1>15, <1>16, <1>17, <1>18
           DEF AccountNext

LEMMA SurroundingsTyped ==
    ASSUME AccountTyped, [AccountNext]_accountVars
    PROVE  /\ holds' \subseteq Clients
           /\ known' \in [Clients -> Nat]
           /\ sessions' \in [built: Nat, running: SUBSET Nat, ready: BOOLEAN]
           /\ process' \in [loop: Nat, client: Nat]
  <1>0. /\ holds \subseteq Clients
        /\ known \in [Clients -> Nat]
        /\ sessions \in [built: Nat, running: SUBSET Nat, ready: BOOLEAN]
        /\ process \in [loop: Nat, client: Nat]
    BY DEF AccountTyped
  <1>1. holds' \subseteq Clients
    BY <1>0 DEF AccountNext, accountVars, ConnectCalled, DisconnectCalled, ConnectGoesOn,
                DisconnectGoesOn, Listed, Refreshed, RefreshTimesOut, AttemptFails, ReadyFound,
                ReferenceLoaded, TasksEnd, StopEnds, Cancelled, LookUp, VenueExchanges,
                SessionChanges, Reloads, LoopCloses, SessionRefreshes, Counted
  <1>2. known' \in [Clients -> Nat] /\ process' \in [loop: Nat, client: Nat]
    <2>1. CASE \E c \in Clients : LookUp(c)
      <3>1. process.client \in Nat /\ process.client + 1 \in Nat
        BY <1>0
      <3> QED  BY <1>0, <2>1, <3>1 DEF LookUp
    <2>2. CASE LoopCloses
      <3>1. process.loop + 1 \in Nat
        BY <1>0
      <3> QED  BY <1>0, <2>2, <3>1 DEF LoopCloses
    <2>3. CASE External \/ UNCHANGED accountVars
      BY <1>0, <2>3 DEF External, accountVars
    <2> QED  BY <2>1, <2>2, <2>3
             DEF AccountNext, ConnectCalled, DisconnectCalled, ConnectGoesOn, DisconnectGoesOn,
                 Listed, Refreshed, RefreshTimesOut, AttemptFails, ReadyFound, ReferenceLoaded,
                 TasksEnd, StopEnds, Cancelled, VenueExchanges, SessionChanges, Reloads,
                 SessionRefreshes
  <1>3. \A s : StopSession(s) \in [built: Nat, running: SUBSET Nat, ready: BOOLEAN]
    BY <1>0 DEF StopSession
  <1>4. \A c \in Clients : Fails(c) => sessions' \in [built: Nat, running: SUBSET Nat, ready: BOOLEAN]
    BY <1>0, <1>3 DEF Fails, Stops
  <1>5. sessions' \in [built: Nat, running: SUBSET Nat, ready: BOOLEAN]
    <2>1. CASE \E c \in Clients : Listed(c)
      <3>1. sessions.built + 1 \in Nat
        BY <1>0
      <3>2. PICK s \in Nat : sessions' = sessions \/ sessions' = BuildSession(s)
        BY <2>1, <3>1 DEF Listed, Resolved
      <3>3. sessions.running \cup {s} \in SUBSET Nat
        BY <1>0
      <3>4. BuildSession(s) \in [built: Nat, running: SUBSET Nat, ready: BOOLEAN]
        BY <3>3, Zenon DEF BuildSession
      <3> QED  BY <1>0, <3>2, <3>4
    <2>2. CASE \E c \in Clients : Refreshed(c) \/ AttemptFails(c)
      BY <1>0, <1>4, <2>2 DEF Refreshed, AttemptFails
    <2>3. CASE \E c \in Clients : Cancelled(c)
      BY <1>0, <1>3, <1>4, <2>3 DEF Cancelled, CancelledWinding
    <2>4. CASE \E c \in Clients : DisconnectGoesOn(c) \/ TasksEnd(c)
      BY <1>0, <1>3, <2>4 DEF DisconnectGoesOn, TasksEnd, Stops
    <2>5. CASE SessionChanges
      <3>1. (~sessions.ready) \in BOOLEAN
        OBVIOUS
      <3> QED  BY <1>0, <2>5, <3>1 DEF SessionChanges
    <2>6. CASE LoopCloses
      BY <1>0, <2>6 DEF LoopCloses
    <2>7. CASE \/ \E c \in Clients : \/ ConnectCalled(c) \/ DisconnectCalled(c)
                                     \/ ConnectGoesOn(c) \/ RefreshTimesOut(c) \/ ReadyFound(c)
                                     \/ ReferenceLoaded(c) \/ StopEnds(c) \/ LookUp(c)
               \/ VenueExchanges \/ Reloads \/ UNCHANGED accountVars
               \/ \E kept \in BOOLEAN : SessionRefreshes(kept)
      BY <1>0, <2>7 DEF ConnectCalled, DisconnectCalled, ConnectGoesOn, RefreshTimesOut,
                        ReadyFound, ReferenceLoaded, StopEnds, LookUp, VenueExchanges, Reloads,
                        SessionRefreshes, accountVars
    <2> QED  BY <2>1, <2>2, <2>3, <2>4, <2>5, <2>6, <2>7 DEF AccountNext
  <1> QED  BY <1>1, <1>2, <1>5

VenueType == [issued: Nat,
              exchange: [stage: {"none", "asked", "answered", "refused"}, pair: Nat]]
HistoryType == [cancels: Nat, leaked: Nat, forfeited: BOOLEAN]

LEMMA VenueTyped ==
    ASSUME AccountTyped, [AccountNext]_accountVars
    PROVE  venue' \in VenueType
  <1>0. /\ venue \in VenueType /\ venue.issued \in Nat /\ venue.issued + 1 \in Nat
        /\ account.pair \in Nat
    BY DEF AccountTyped, Accounts, VenueType
  <1>n. NoExchange \in [stage: {"none", "asked", "answered", "refused"}, pair: Nat]
    BY DEF NoExchange
  <1>1. Closed => venue' \in VenueType
    BY <1>0, <1>n DEF Closed, VenueType
  <1>2. CASE \E c \in Clients : Listed(c)
    <2>1. \/ venue' = venue
          \/ venue' = [venue EXCEPT !.exchange = [stage |-> "asked", pair |-> account.pair]]
      BY <1>2 DEF Listed
    <2> QED  BY <1>0, <2>1 DEF VenueType
  <1>3. CASE VenueExchanges
    BY <1>0, <1>3 DEF VenueExchanges, VenueType
  <1>4. CASE \E c \in Clients : Refreshed(c)
    BY <1>0, <1>n, <1>4 DEF Refreshed, VenueType
  <1>5. CASE LoopCloses \/ \E c \in Clients : AttemptFails(c) \/ Cancelled(c)
    BY <1>0, <1>1, <1>5 DEF LoopCloses, AttemptFails, Cancelled
  <1>6. CASE \E kept \in BOOLEAN : SessionRefreshes(kept)
    BY <1>0, <1>6 DEF SessionRefreshes, VenueType
  <1>7. CASE \/ \E c \in Clients : \/ ConnectCalled(c) \/ DisconnectCalled(c)
                                   \/ ConnectGoesOn(c) \/ DisconnectGoesOn(c)
                                   \/ RefreshTimesOut(c) \/ ReadyFound(c)
                                   \/ ReferenceLoaded(c) \/ TasksEnd(c) \/ StopEnds(c) \/ LookUp(c)
             \/ SessionChanges \/ Reloads \/ UNCHANGED accountVars
    BY <1>0, <1>7 DEF ConnectCalled, DisconnectCalled, ConnectGoesOn, DisconnectGoesOn,
                      RefreshTimesOut, ReadyFound, ReferenceLoaded, TasksEnd, StopEnds, LookUp,
                      SessionChanges, Reloads, accountVars
  <1> QED  BY <1>2, <1>3, <1>4, <1>5, <1>6, <1>7 DEF AccountNext

LEMMA HistoryTyped ==
    ASSUME AccountTyped, [AccountNext]_accountVars
    PROVE  history' \in HistoryType
  <1>0. history \in HistoryType /\ history.cancels \in Nat /\ history.leaked \in Nat
        /\ history.forfeited \in BOOLEAN
    BY DEF AccountTyped, HistoryType
  <1>1. \A c : GivesUp(c) \in BOOLEAN
    BY Zenon DEF GivesUp
  <1>2. CASE \E c \in Clients : Cancelled(c)
    <2>1. PICK c \in Clients : Cancelled(c)
      BY <1>2
    <2>2. PICK leaked \in Nat : history' = [cancels |-> history.cancels + 1, leaked |-> leaked,
                                            forfeited |-> GivesUp(c)]
      BY <1>0, <2>1 DEF Cancelled
    <2>3. history.cancels + 1 \in Nat
      BY <1>0
    <2> QED  BY <1>1, <2>2, <2>3 DEF HistoryType
  <1>3. CASE \E c \in Clients : AttemptFails(c)
    BY <1>0, <1>1, <1>3 DEF AttemptFails, HistoryType
  <1>4. CASE LoopCloses
    <2>1. (history.forfeited \/ venue.exchange.stage \in {"asked", "answered"}) \in BOOLEAN
      OBVIOUS
    <2> QED  BY <1>0, <1>4, <2>1 DEF LoopCloses, HistoryType
  <1>5. CASE \E kept \in BOOLEAN : SessionRefreshes(kept)
    <2>1. \A kept : (~kept) \in BOOLEAN
      OBVIOUS
    <2> QED  BY <1>0, <1>5, <2>1 DEF SessionRefreshes, HistoryType
  <1>6. CASE \E c \in Clients : Refreshed(c)
    BY <1>0, <1>6 DEF Refreshed, HistoryType
  <1>7. CASE \/ \E c \in Clients : \/ ConnectCalled(c) \/ DisconnectCalled(c)
                                   \/ ConnectGoesOn(c) \/ DisconnectGoesOn(c) \/ Listed(c)
                                   \/ RefreshTimesOut(c) \/ ReadyFound(c)
                                   \/ ReferenceLoaded(c) \/ TasksEnd(c) \/ StopEnds(c) \/ LookUp(c)
             \/ VenueExchanges \/ SessionChanges \/ Reloads \/ UNCHANGED accountVars
    BY <1>0, <1>7 DEF ConnectCalled, DisconnectCalled, ConnectGoesOn, DisconnectGoesOn, Listed,
                      RefreshTimesOut, ReadyFound, ReferenceLoaded, TasksEnd, StopEnds, LookUp,
                      VenueExchanges, SessionChanges, Reloads, accountVars
  <1> QED  BY <1>2, <1>3, <1>4, <1>5, <1>6, <1>7 DEF AccountNext

LEMMA AccountTypesKept ==
    ASSUME AccountTyped, [AccountNext]_accountVars
    PROVE  AccountTyped'
  BY ConnectsTyped, AccountsTyped, SurroundingsTyped, VenueTyped, HistoryTyped
     DEF AccountTyped, VenueType, HistoryType

-----------------------------------------------------------------------------
(* AccountClient: the lock and the users *)

LockInv == LockHeld /\ UsersCounted /\ LeftBehind

\* What the counts need of the types.
LEMMA CountsTyped ==
    ASSUME AccountTyped
    PROVE  /\ IsFiniteSet(holds) /\ IsFiniteSet(Releasing)
           /\ Cardinality(holds) \in Nat /\ Cardinality(Releasing) \in Nat
           /\ account.users \in Nat /\ history.leaked \in Nat
           /\ account.loop \in Nat /\ process.loop \in Nat
           /\ Nobody \notin Clients
           /\ Releasing \subseteq Clients
  <1>1. holds \subseteq Clients /\ Releasing \subseteq Clients
    BY DEF AccountTyped, Releasing
  <1>2. IsFiniteSet(holds) /\ IsFiniteSet(Releasing)
    BY <1>1, AccountAssumption, FS_Subset
  <1>3. Cardinality(holds) \in Nat /\ Cardinality(Releasing) \in Nat
    BY <1>2, FS_CardinalityType
  <1>4. /\ account.users \in Nat /\ account.loop \in Nat /\ process.loop \in Nat
        /\ history.leaked \in Nat
    BY DEF AccountTyped, Accounts
  <1> QED  BY <1>1, <1>2, <1>3, <1>4, AccountAssumption DEF Nobody

LEMMA StagesApart ==
    /\ "idle" \notin LockStages /\ "queued" \notin LockStages
    /\ \A s \in LockStages : s \in PreStages \cup {"stopping"} \/ s \in UpStages \/ s = "joining"
                             \/ s = "winding"
  BY DEF LockStages, PreStages, UpStages

\* The holder goes on under the lock.
LEMMA HolderStays ==
    ASSUME AccountTyped, LockInv, NEW c \in Clients, At(c, LockStages),
           \A d \in Clients \ {c} : connects'[d] = connects[d], At(c, LockStages)',
           account'.lock = account.lock, account'.loop = account.loop,
           account'.users = account.users, UNCHANGED <<process, holds>>,
           history'.leaked = history.leaked
    PROVE  LockInv'
  <1>1. Releasing' = Releasing
    BY StagesApart DEF Releasing, At
  <1>2. Here /\ Here' /\ account.lock = c
    BY DEF LockInv, LockHeld, Here
  <1>3. LockHeld'
    BY <1>2 DEF LockInv, LockHeld, At, Here
  <1>4. c \notin holds
    BY StagesApart DEF LockInv, UsersCounted, At
  <1>5. UsersCounted'
    BY <1>1, <1>2, <1>4 DEF LockInv, UsersCounted, At, AccountTyped
  <1> QED  BY <1>2, <1>3, <1>5 DEF LockInv, LeftBehind

\* The holder ends and releases the lock, counted as a user or not.
LEMMA HolderLeaves ==
    ASSUME AccountTyped, LockInv, NEW c \in Clients, At(c, LockStages),
           \A d \in Clients \ {c} : connects'[d] = connects[d], At(c, {"idle"})',
           account'.lock = Nobody, account'.loop = account.loop, UNCHANGED process,
           \/ account'.users = account.users /\ holds' = holds
           \/ account'.users = account.users + 1 /\ holds' = holds \cup {c},
           history'.leaked = history.leaked
    PROVE  LockInv'
  <1>1. Releasing' = Releasing
    BY StagesApart DEF Releasing, At
  <1>2. Here /\ Here' /\ account.lock = c /\ c # Nobody
    BY CountsTyped DEF LockInv, LockHeld, Here
  <1>3. account.loop # 0
    BY <1>2 DEF LockInv, LockHeld
  <1>4. LockHeld'
    BY <1>2, <1>3, StagesApart DEF LockInv, LockHeld, At, Here
  <1>5. c \notin holds
    BY StagesApart DEF LockInv, UsersCounted, At
  <1>6. Cardinality(holds \cup {c}) = Cardinality(holds) + 1
    BY <1>5, CountsTyped, FS_AddElement
  <1>7. UsersCounted'
    <2>1. \A d \in holds' : At(d, {"idle"})'
      BY DEF LockInv, UsersCounted, At, AccountTyped
    <2>2. account.users = Cardinality(holds) + Cardinality(Releasing) + history.leaked
      BY <1>2 DEF LockInv, UsersCounted
    <2>3. account'.users = Cardinality(holds') + Cardinality(Releasing) + history.leaked
      <3>1. /\ Cardinality(holds) \in Nat /\ Cardinality(Releasing) \in Nat
            /\ history.leaked \in Nat
        BY CountsTyped
      <3>2. CASE account'.users = account.users /\ holds' = holds
        BY <2>2, <3>2
      <3>3. CASE account'.users = account.users + 1 /\ holds' = holds \cup {c}
        <4>1. Cardinality(holds') = Cardinality(holds) + 1
          BY <1>6, <3>3
        <4> QED  BY <2>2, <3>1, <3>3, <4>1
      <3> QED  BY <3>2, <3>3
    <2> QED  BY <1>1, <2>1, <2>3 DEF UsersCounted
  <1> QED  BY <1>2, <1>4, <1>7 DEF LockInv, LeftBehind

\* A call that found the lock free: a connect() with users to join is on the loop that runs,
\* and so is every disconnect(), which has its user counted.
LEMMA QueuedIsHere ==
    ASSUME AccountTyped, LockInv, NEW c \in Clients, At(c, {"queued"})
    PROVE  /\ account.users > 0 => Here /\ account.loop = process.loop
           /\ connects[c].kind = "disconnect" =>
                 /\ Here /\ account.loop = process.loop /\ account.users > 0
                 /\ Cardinality(Releasing \ {c}) = Cardinality(Releasing) - 1
           /\ c \notin holds
  <1>1. account.users > 0 => Here /\ account.loop = process.loop
    BY CountsTyped DEF LockInv, LockHeld, LeftBehind, LeftUnclean, At, Here
  <1>2. ASSUME connects[c].kind = "disconnect"
        PROVE  /\ Here /\ account.users > 0
               /\ Cardinality(Releasing \ {c}) = Cardinality(Releasing) - 1
    <2>1. Here /\ c \in Releasing
      BY <1>2 DEF LockInv, LeftBehind, At, Releasing
    <2>2. Cardinality(Releasing \ {c}) = Cardinality(Releasing) - 1
          /\ Cardinality(Releasing \ {c}) \in Nat
      BY <2>1, CountsTyped, FS_RemoveElement, FS_CardinalityType
    <2> QED  BY <2>1, <2>2, CountsTyped DEF LockInv, UsersCounted
  <1> QED  BY <1>1, <1>2 DEF LockInv, UsersCounted, At

\* It takes the lock.
LEMMA LockTaken ==
    ASSUME AccountTyped, LockInv, NEW c \in Clients, At(c, {"queued"}), account.lock = Nobody,
           \A d \in Clients \ {c} : connects'[d] = connects[d], At(c, LockStages)',
           account'.lock = c, account'.loop = process.loop, UNCHANGED <<process, holds>>,
           \/ connects[c].kind = "connect" /\ account'.users = account.users
           \/ connects[c].kind = "disconnect" /\ account'.users = account.users - 1,
           history'.leaked = history.leaked
    PROVE  LockInv'
  <1>0. \A d \in Clients : ~At(d, LockStages)
    BY CountsTyped DEF LockInv, LockHeld
  <1>1. CASE connects[c].kind = "connect" /\ account'.users = account.users
    <2>1. Releasing' = Releasing
      BY <1>1, StagesApart DEF Releasing, At
    <2>2. account.users = Cardinality(holds) + Cardinality(Releasing) + history.leaked
      <3>1. CASE Here
        BY <3>1 DEF LockInv, UsersCounted
      <3>2. CASE ~Here
        <4>1. account.users = 0 /\ holds = {} /\ Releasing = {} /\ history.leaked = 0
          BY <3>2, CountsTyped DEF LockInv, LeftBehind, LeftUnclean, Releasing, At
        <4> QED  BY <4>1, FS_EmptySet
      <3> QED  BY <3>1, <3>2
    <2>3. UsersCounted'
      BY <1>1, <2>1, <2>2, QueuedIsHere DEF LockInv, UsersCounted, At, AccountTyped
    <2>4. Here' /\ LockHeld'
      BY <1>0, CountsTyped DEF LockInv, LockHeld, At, Here
    <2> QED  BY <2>3, <2>4 DEF LockInv, LeftBehind
  <1>2. CASE connects[c].kind = "disconnect" /\ account'.users = account.users - 1
    <2>1. Releasing' = Releasing \ {c}
      BY <1>2, StagesApart DEF Releasing, At
    <2>2. Here /\ Cardinality(Releasing \ {c}) = Cardinality(Releasing) - 1 /\ c \notin holds
      BY <1>2, QueuedIsHere
    <2>3. UsersCounted'
      BY <1>2, <2>1, <2>2, CountsTyped DEF LockInv, UsersCounted, At, AccountTyped
    <2>4. Here' /\ LockHeld'
      BY <1>0, CountsTyped DEF LockInv, LockHeld, At, Here
    <2> QED  BY <2>3, <2>4 DEF LockInv, LeftBehind
  <1> QED  BY <1>1, <1>2

\* It has the lock and releases it in one step.
LEMMA LockPassed ==
    ASSUME AccountTyped, LockInv, NEW c \in Clients, At(c, {"queued"}), account.lock = Nobody,
           \A d \in Clients \ {c} : connects'[d] = connects[d], At(c, {"idle"})',
           account'.lock = Nobody, account'.loop = account.loop, UNCHANGED process,
           account.users > 0,
           \/ /\ connects[c].kind = "connect" /\ account'.users = account.users + 1
              /\ holds' = holds \cup {c}
           \/ /\ connects[c].kind = "disconnect" /\ account'.users = account.users - 1
              /\ holds' = holds,
           history'.leaked = history.leaked
    PROVE  LockInv'
  <1>0. \A d \in Clients : ~At(d, LockStages)
    BY CountsTyped DEF LockInv, LockHeld
  <1>1. Here /\ Here' /\ account.loop # 0 /\ c \notin holds
    <2>1. Here /\ account.loop = process.loop /\ c \notin holds
      BY QueuedIsHere
    <2>2. Here'
      BY <2>1 DEF Here
    <2> QED  BY <2>1, <2>2, CountsTyped DEF LockInv, LockHeld
  <1>2. LockHeld'
    BY <1>0, <1>1, StagesApart DEF LockInv, LockHeld, At, Here
  <1>3. CASE connects[c].kind = "connect"
    <2>1. Releasing' = Releasing
      BY <1>3 DEF Releasing, At
    <2>2. Cardinality(holds \cup {c}) = Cardinality(holds) + 1
      BY <1>1, CountsTyped, FS_AddElement
    <2>3. UsersCounted'
      <3>1. \A d \in holds' : At(d, {"idle"})'
        BY <1>3 DEF LockInv, UsersCounted, At, AccountTyped
      <3>2. account.users = Cardinality(holds) + Cardinality(Releasing) + history.leaked
        BY <1>1 DEF LockInv, UsersCounted
      <3>3. account'.users = Cardinality(holds') + Cardinality(Releasing) + history.leaked
        <4>1. /\ Cardinality(holds) \in Nat /\ Cardinality(Releasing) \in Nat
              /\ history.leaked \in Nat
          BY CountsTyped
        <4>2. account'.users = account.users + 1 /\ Cardinality(holds') = Cardinality(holds) + 1
          BY <1>3, <2>2
        <4> QED  BY <3>2, <4>1, <4>2
      <3> QED  BY <2>1, <3>1, <3>3 DEF UsersCounted
    <2> QED  BY <1>1, <1>2, <2>3 DEF LockInv, LeftBehind
  <1>4. CASE connects[c].kind = "disconnect"
    <2>1. Releasing' = Releasing \ {c}
      BY <1>4 DEF Releasing, At
    <2>2. Cardinality(Releasing \ {c}) = Cardinality(Releasing) - 1
      BY <1>4, QueuedIsHere
    <2>3. UsersCounted'
      BY <1>1, <1>4, <2>1, <2>2, CountsTyped DEF LockInv, UsersCounted, At, AccountTyped
    <2> QED  BY <1>1, <1>2, <2>3 DEF LockInv, LeftBehind
  <1> QED  BY <1>3, <1>4

-----------------------------------------------------------------------------
(* AccountClient: the session in each call *)

LEMMA StagesOfHolder ==
    ASSUME LockHeld', NEW c \in Clients, At(c, LockStages)', StageTrue(c)'
    PROVE  SessionStages'
  <1>1. account'.lock = c /\ c # Nobody
    BY AccountAssumption DEF LockHeld, Nobody
  <1>2. ASSUME NEW d \in Clients, d # c
        PROVE  StageTrue(d)'
    <2>1. ~At(d, LockStages)'
      BY <1>1, <1>2 DEF LockHeld
    <2> QED  BY <2>1 DEF StageTrue, At, LockStages
  <1> QED  BY <1>1, <1>2 DEF SessionStages

LEMMA StagesAtRest ==
    ASSUME LockHeld', account'.lock = Nobody, AtRest'
    PROVE  SessionStages'
  <1>1. ASSUME NEW d \in Clients
        PROVE  StageTrue(d)'
    <2>1. ~At(d, LockStages)'
      BY AccountAssumption DEF LockHeld, Nobody
    <2> QED  BY <2>1 DEF StageTrue, At, LockStages
  <1> QED  BY <1>1 DEF SessionStages

\* A step of a call that does not hold the lock leaves the rest as it was.
LEMMA OutsideTheLock ==
    ASSUME AccountTyped, SessionStages, PairHeld, NEW c \in Clients, At(c, {"idle", "queued"}),
           \A d \in Clients \ {c} : connects'[d] = connects[d], At(c, {"idle", "queued"})',
           \E q : account' = [account EXCEPT !.queue = q],
           UNCHANGED <<sessions, venue, process>>, history.forfeited => history'.forfeited
    PROVE  SessionStages' /\ PairHeld'
  <1>1. /\ account'.users = account.users /\ account'.session = account.session
        /\ account'.attached = account.attached /\ account'.retry = account.retry
        /\ account'.lock = account.lock /\ account'.loop = account.loop
        /\ account'.pair = account.pair
    BY DEF AccountTyped, Accounts
  <1>2. Here' = Here
    BY <1>1 DEF Here
  <1>3. AtRest => AtRest'
    BY <1>1, <1>2 DEF AtRest, Bare, Settled
  <1>4. ASSUME NEW d \in Clients
        PROVE  StageTrue(d)'
    <2>1. CASE d = c
      BY <2>1 DEF StageTrue, At, PreStages, UpStages
    <2>2. CASE d # c
      BY <1>1, <2>2 DEF SessionStages, StageTrue, At, Bare, Settled
    <2> QED  BY <2>1, <2>2
  <1>5. PairHeld'
    BY <1>1 DEF PairHeld, At
  <1> QED  BY <1>1, <1>3, <1>4, <1>5 DEF SessionStages

\* A call joins the lock's queue, or is cancelled in it.
LEMMA QueueMoves ==
    ASSUME AccountInv, NEW c \in Clients,
           ConnectCalled(c) \/ DisconnectCalled(c) \/ (Cancelled(c) /\ At(c, {"queued"}))
    PROVE  LockInv' /\ SessionStages' /\ PairHeld'
  <1>0. AccountTyped /\ LockInv /\ connects \in [Clients -> Connects]
    BY DEF AccountInv, LockInv, AccountTyped
  <1>1. PICK q : account' = [account EXCEPT !.queue = q]
    BY DEF ConnectCalled, DisconnectCalled, Cancelled, At, Ended
  <1>2. /\ account'.users = account.users /\ account'.session = account.session
        /\ account'.lock = account.lock /\ account'.loop = account.loop
    BY <1>0, <1>1 DEF AccountTyped, Accounts
  <1>3. UNCHANGED <<sessions, venue, process>>
    BY DEF ConnectCalled, DisconnectCalled, Cancelled, At, External
  <1>4. Here' = Here /\ LeftUnclean' = LeftUnclean
    BY <1>2, <1>3 DEF Here, LeftUnclean
  <1>l. ASSUME \A d \in Clients \ {c} : connects'[d] = connects[d],
               At(c, {"idle", "queued"}), At(c, {"idle", "queued"})'
        PROVE  LockHeld'
    <2>1. account.lock \in Clients \cup {Nobody}
      BY <1>0 DEF AccountTyped, Accounts
    <2>2. ~At(c, LockStages) /\ ~At(c, LockStages)'
      BY <1>l, StagesApart DEF At
    <2> QED  BY <1>0, <1>2, <1>3, <1>4, <1>l, <2>1, <2>2 DEF LockInv, LockHeld, At
  <1>5. CASE ConnectCalled(c)
    <2>1. /\ At(c, {"idle"}) /\ c \notin holds /\ ~OtherLoopError(c)
          /\ UNCHANGED <<holds, history>>
          /\ \A d \in Clients \ {c} : connects'[d] = connects[d]
          /\ connects'[c].stage = "queued" /\ connects'[c].kind = "connect"
      BY <1>0, <1>5 DEF ConnectCalled, NoConnect
    <2>2. Releasing' = Releasing
      BY <2>1 DEF Releasing, At
    <2>3. LockHeld'
      BY <1>l, <2>1 DEF At
    <2>4. UsersCounted'
      BY <1>0, <1>2, <1>4, <2>1, <2>2 DEF LockInv, UsersCounted, At, AccountTyped
    <2>5. LeftBehind'
      BY <1>0, <1>3, <1>4, <2>1 DEF LockInv, LeftBehind, At, OtherLoopError, Here
    <2>6. SessionStages' /\ PairHeld'
      BY <1>0, <1>1, <1>3, <2>1, OutsideTheLock DEF AccountInv, At
    <2> QED  BY <2>3, <2>4, <2>5, <2>6 DEF LockInv
  <1>6. CASE DisconnectCalled(c)
    <2>1. /\ At(c, {"idle"}) /\ c \in holds /\ holds' = holds \ {c}
          /\ UNCHANGED history
          /\ \A d \in Clients \ {c} : connects'[d] = connects[d]
          /\ connects'[c].stage = "queued" /\ connects'[c].kind = "disconnect"
      BY <1>0, <1>6 DEF DisconnectCalled, NoConnect
    <2>2. Releasing' = Releasing \cup {c} /\ c \notin Releasing
      BY <2>1 DEF Releasing, At
    <2>3. LockHeld'
      BY <1>l, <2>1 DEF At
    <2>4. Here
      BY <1>0, <2>1 DEF LockInv, LeftBehind
    <2>5. /\ Cardinality(holds') = Cardinality(holds) - 1
          /\ Cardinality(Releasing') = Cardinality(Releasing) + 1
          /\ Cardinality(holds) \in Nat /\ Cardinality(Releasing) \in Nat
          /\ history.leaked \in Nat
      BY <1>0, <2>1, <2>2, CountsTyped, FS_AddElement, FS_RemoveElement
    <2>6. UsersCounted'
      <3>1. \A d \in holds' : At(d, {"idle"})'
        BY <1>0, <2>1 DEF LockInv, UsersCounted, At, AccountTyped
      <3>2. account.users = Cardinality(holds) + Cardinality(Releasing) + history.leaked
        BY <1>0, <2>4 DEF LockInv, UsersCounted
      <3>3. account'.users = Cardinality(holds') + Cardinality(Releasing') + history'.leaked
        BY <1>2, <2>1, <2>5, <3>2
      <3> QED  BY <3>1, <3>3 DEF UsersCounted
    <2>7. SessionStages' /\ PairHeld'
      BY <1>0, <1>1, <1>3, <2>1, OutsideTheLock DEF AccountInv, At
    <2> QED  BY <1>4, <2>3, <2>4, <2>6, <2>7 DEF LockInv, LeftBehind
  <1>7. CASE Cancelled(c) /\ At(c, {"queued"})
    <2>1. /\ UNCHANGED holds
          /\ \A d \in Clients \ {c} : connects'[d] = connects[d]
          /\ connects'[c].stage = "idle" /\ connects'[c].kind = "none"
          /\ history'.leaked = history.leaked
                + (IF connects[c].kind = "disconnect" THEN 1 ELSE 0)
          /\ history'.forfeited = GivesUp(c)
      BY <1>0, <1>7 DEF Cancelled, At, Ended, NoConnect
    <2>2. Releasing' = Releasing \ {c}
      BY <1>0, <2>1 DEF Releasing, At
    <2>3. LockHeld'
      BY <1>7, <1>l, <2>1 DEF At
    <2>4. ASSUME connects[c].kind = "disconnect"
          PROVE  UsersCounted' /\ LeftBehind'
      <3>1. /\ Cardinality(Releasing') = Cardinality(Releasing) - 1 /\ Here
            /\ Cardinality(holds) \in Nat /\ Cardinality(Releasing) \in Nat
            /\ history.leaked \in Nat /\ c \notin holds
        BY <1>0, <1>7, <2>2, <2>4, CountsTyped, QueuedIsHere
      <3>2. account.users = Cardinality(holds) + Cardinality(Releasing) + history.leaked
        BY <1>0, <3>1 DEF LockInv, UsersCounted
      <3>3. account'.users = Cardinality(holds') + Cardinality(Releasing') + history'.leaked
        BY <1>2, <2>1, <2>4, <3>1, <3>2
      <3>4. UsersCounted'
        BY <1>0, <2>1, <3>1, <3>3 DEF LockInv, UsersCounted, At, AccountTyped
      <3> QED  BY <1>4, <3>1, <3>4 DEF LeftBehind
    <2>5. ASSUME connects[c].kind # "disconnect"
          PROVE  UsersCounted' /\ LeftBehind'
      <3>1. Releasing' = Releasing /\ history'.leaked = history.leaked
        BY <1>0, <2>1, <2>2, <2>5, CountsTyped DEF Releasing
      <3>2. UsersCounted'
        BY <1>0, <1>2, <1>4, <2>1, <3>1 DEF LockInv, UsersCounted, At, AccountTyped
      <3>3. LeftBehind'
        BY <1>0, <1>3, <1>4, <2>1, <3>1 DEF LockInv, LeftBehind, At
      <3> QED  BY <3>2, <3>3
    <2>6. history.forfeited => history'.forfeited
      BY <2>1 DEF GivesUp
    <2>7. SessionStages' /\ PairHeld'
      BY <1>0, <1>1, <1>3, <1>7, <2>1, <2>6, OutsideTheLock DEF AccountInv, At
    <2>8. UsersCounted' /\ LeftBehind'
      BY <2>4, <2>5
    <2> QED  BY <2>3, <2>7, <2>8 DEF LockInv
  <1> QED  BY <1>5, <1>6, <1>7

\* _stop() under the lock: the session is off the client, and runs only while its tasks wind
\* down.
LEMMA StopsSession ==
    ASSUME AccountTyped, NEW c \in Clients, NEW a, a \in Accounts(a.queue), NEW s \in Nat,
           Stops(c, a, s), sessions.running = {s}
    PROVE  /\ account'.session = 0 /\ account'.attached = 0 /\ account'.retry = 0
           /\ account'.users = a.users /\ account'.lock = a.lock /\ account'.loop = a.loop
           /\ account'.pair = a.pair
           /\ \A d \in Clients \ {c} : connects'[d] = connects[d]
           /\ connects'[c].stage \in {"winding", "stopping"} /\ connects'[c].session = s
           /\ connects'[c].stage = "winding" => sessions'.running = {s}
           /\ connects'[c].stage = "stopping" => sessions'.running = {}
  <1>0. connects \in [Clients -> Connects]
        /\ sessions \in [built: Nat, running: SUBSET Nat, ready: BOOLEAN]
    BY DEF AccountTyped
  <1>1. /\ account'.session = 0 /\ account'.attached = 0 /\ account'.retry = 0
        /\ account'.users = a.users /\ account'.lock = a.lock /\ account'.loop = a.loop
        /\ account'.pair = a.pair
    BY DEF Stops, Accounts, NoSession
  <1>2. StopSession(s).running = {}
    BY <1>0 DEF StopSession
  <1>3. \/ /\ connects' = [connects EXCEPT ![c].stage = "winding", ![c].session = s]
           /\ sessions' = sessions
        \/ /\ connects' = [connects EXCEPT ![c].stage = "stopping", ![c].session = s]
           /\ sessions' = StopSession(s)
    BY DEF Stops
  <1> HIDE DEF Stops
  <1>4. /\ \A d \in Clients \ {c} : connects'[d] = connects[d]
        /\ connects'[c].session = s
        /\ \/ connects'[c].stage = "winding" /\ sessions' = sessions
           \/ connects'[c].stage = "stopping" /\ sessions' = StopSession(s)
    BY <1>0, <1>3 DEF Connects
  <1> QED  BY <1>1, <1>2, <1>4

\* A bring-up or a join that fails or is cancelled.
LEMMA FailsUnderLock ==
    ASSUME AccountInv, NEW c \in Clients, At(c, PreStages \cup UpStages \cup {"joining"}), Fails(c),
           UNCHANGED <<holds, process>>, history'.leaked = history.leaked
    PROVE  LockInv' /\ SessionStages' /\ account'.pair = account.pair
  <1>0. /\ AccountTyped /\ LockInv /\ connects \in [Clients -> Connects] /\ StageTrue(c)
        /\ account \in Accounts(account.queue) /\ connects[c].session \in Nat
    BY DEF AccountInv, LockInv, AccountTyped, SessionStages, Connects
  <1>1. At(c, LockStages) /\ account.lock = c /\ Here
    BY <1>0 DEF LockStages, At, LockInv, LockHeld
  <1>2. CASE connects[c].stage \in UpStages
    <2>1. Stops(c, account, connects[c].session)
      BY <1>2 DEF Fails, UpStages
    <2>2. /\ account.users = 0 /\ sessions.running = {connects[c].session}
          /\ connects[c].session # NoSession
      BY <1>0, <1>2 DEF StageTrue, At
    <2>3. /\ account'.session = 0 /\ account'.attached = 0 /\ account'.retry = 0
          /\ account'.users = 0 /\ account'.lock = c /\ account'.loop = account.loop
          /\ account'.pair = account.pair
          /\ \A d \in Clients \ {c} : connects'[d] = connects[d]
          /\ connects'[c].stage \in {"winding", "stopping"}
          /\ connects'[c].session = connects[c].session
          /\ connects'[c].stage = "winding" => sessions'.running = {connects[c].session}
          /\ connects'[c].stage = "stopping" => sessions'.running = {}
      BY <1>0, <1>1, <2>1, <2>2, StopsSession
    <2>4. At(c, LockStages)'
      BY <2>3 DEF At, LockStages
    <2>5. LockInv'
      BY <1>0, <1>1, <2>2, <2>3, <2>4, HolderStays
    <2>6. StageTrue(c)'
      BY <2>2, <2>3 DEF StageTrue, At, Bare, PreStages, UpStages, NoSession
    <2> QED  BY <2>3, <2>4, <2>5, <2>6, StagesOfHolder DEF LockInv
  <1>3. CASE connects[c].stage \notin UpStages
    <2>1. account' = Released(account) /\ Ended(c) /\ UNCHANGED sessions
      BY <1>3 DEF Fails, UpStages
    <2>2. /\ account'.session = account.session /\ account'.attached = account.attached
          /\ account'.retry = account.retry /\ account'.users = account.users
          /\ account'.lock = Nobody /\ account'.loop = account.loop /\ account'.pair = account.pair
      BY <1>0, <2>1 DEF Released, Accounts
    <2>3. (\A d \in Clients \ {c} : connects'[d] = connects[d]) /\ At(c, {"idle"})'
      BY <1>0, <2>1 DEF Ended, NoConnect, At
    <2>4. LockInv'
      BY <1>0, <1>1, <2>2, <2>3, HolderLeaves
    <2>5. \/ Bare(account) /\ sessions.running = {}
          \/ Settled(account) /\ sessions.running = {account.session}
      BY <1>0, <1>3 DEF StageTrue, At
    <2>6. AtRest'
      BY <2>1, <2>2, <2>5 DEF AtRest, Bare, Settled
    <2> QED  BY <2>2, <2>4, <2>6, StagesAtRest DEF LockInv
  <1> QED  BY <1>2, <1>3

\* The exchange on the pre-connection belongs to the call that holds the lock.
LEMMA ExchangeOfHolder ==
    ASSUME LockHeld, PairHeld, NEW c \in Clients, At(c, LockStages), ~At(c, {"refreshing", "late"})
    PROVE  venue.exchange.stage = "none"
  <1>1. \A d \in Clients : At(d, {"refreshing", "late"}) => d = c
    BY DEF LockHeld, At, LockStages, PreStages
  <1> QED  BY <1>1 DEF PairHeld

\* The pre-connection is closed: a request or a reply lost with it is given up.
LEMMA ClosedKeepsPair ==
    ASSUME AccountInv, Closed, account'.pair = account.pair,
           history'.forfeited <=> \/ history.forfeited
                                  \/ venue.exchange.stage \in {"asked", "answered"}
    PROVE  PairHeld'
  <1>1. venue'.exchange.stage = "none"
    BY DEF Closed, NoExchange
  <1>2. venue.exchange.stage # "asked" => venue'.issued = venue.issued
    BY DEF Closed
  <1> QED  BY <1>1, <1>2 DEF AccountInv, PairHeld

LEMMA AttemptEnds ==
    ASSUME AccountInv, NEW c \in Clients,
           \/ AttemptFails(c)
           \/ Cancelled(c) /\ At(c, PreStages \cup UpStages \cup {"joining"})
    PROVE  LockInv' /\ SessionStages' /\ PairHeld'
  <1>0. history \in HistoryType /\ LockHeld /\ PairHeld
    BY DEF AccountInv, AccountTyped, HistoryType
  <1>1. /\ At(c, PreStages \cup UpStages \cup {"joining"}) /\ Fails(c) /\ Closed
        /\ UNCHANGED <<holds, process>>
    BY DEF AttemptFails, Cancelled, At, PreStages, UpStages, External
  <1>2. history'.leaked = history.leaked
    <2>1. CASE AttemptFails(c)
      BY <1>0, <2>1 DEF AttemptFails, HistoryType
    <2>2. CASE Cancelled(c)
      BY <1>0, <1>1, <2>2 DEF Cancelled, HistoryType, At, PreStages, UpStages
    <2> QED  BY <2>1, <2>2
  <1>3. history'.forfeited = GivesUp(c)
    BY <1>0 DEF AttemptFails, Cancelled, HistoryType
  <1>4. At(c, {"refreshing", "late"}) \/ venue.exchange.stage = "none"
    <2>1. At(c, LockStages)
      BY <1>1 DEF At, LockStages
    <2> QED  BY <1>0, <2>1, ExchangeOfHolder
  <1>5. history'.forfeited <=> \/ history.forfeited
                               \/ venue.exchange.stage \in {"asked", "answered"}
    BY <1>3, <1>4 DEF GivesUp
  <1>6. LockInv' /\ SessionStages' /\ account'.pair = account.pair
    BY <1>1, <1>2, FailsUnderLock
  <1> QED  BY <1>1, <1>5, <1>6, ClosedKeepsPair

\* A call under the lock that leaves the venue and the pair alone.
LEMMA PairUntouched ==
    ASSUME AccountInv, NEW c \in Clients, venue' = venue, account'.pair = account.pair,
           history'.forfeited = history.forfeited,
           \A d \in Clients \ {c} : connects'[d] = connects[d],
           ~At(c, {"refreshing", "late"}) \/ At(c, {"refreshing", "late"})'
    PROVE  PairHeld'
  BY DEF AccountInv, PairHeld, At

LEMMA StopMoves ==
    ASSUME AccountInv, NEW c \in Clients,
           TasksEnd(c) \/ StopEnds(c) \/ (Cancelled(c) /\ At(c, {"winding", "stopping"}))
    PROVE  LockInv' /\ SessionStages' /\ PairHeld'
  <1>0. /\ AccountTyped /\ LockInv /\ connects \in [Clients -> Connects] /\ StageTrue(c)
        /\ account \in Accounts(account.queue) /\ history \in HistoryType
        /\ sessions \in [built: Nat, running: SUBSET Nat, ready: BOOLEAN]
    BY DEF AccountInv, LockInv, AccountTyped, SessionStages, HistoryType
  <1>1. UNCHANGED <<holds, process, venue>>
    BY DEF TasksEnd, StopEnds, Cancelled, At, External
  <1>2. At(c, {"winding", "stopping"})
    BY DEF TasksEnd, StopEnds, At
  <1>3. At(c, LockStages) /\ account.lock = c
    BY <1>0, <1>2 DEF At, LockStages, LockInv, LockHeld
  <1>4. history'.leaked = history.leaked
    <2>1. CASE Cancelled(c)
      BY <1>0, <1>2, <2>1 DEF Cancelled, HistoryType, At
    <2> QED  BY <2>1 DEF TasksEnd, StopEnds
  <1>5. history'.forfeited = history.forfeited
    <2>1. CASE Cancelled(c)
      <3>1. history'.forfeited = GivesUp(c)
        BY <2>1 DEF Cancelled
      <3>2. GivesUp(c) = history.forfeited
        BY <1>0, <1>2 DEF GivesUp, At, HistoryType
      <3> QED  BY <3>1, <3>2
    <2> QED  BY <2>1 DEF TasksEnd, StopEnds
  <1>6. CASE connects[c].stage = "winding"
    <2>1. /\ account' = account /\ Goes(c, "stopping")
          /\ sessions' = StopSession(connects[c].session)
      BY <1>6 DEF TasksEnd, StopEnds, Cancelled, CancelledWinding, At
    <2>2. /\ \A d \in Clients \ {c} : connects'[d] = connects[d]
          /\ connects'[c].stage = "stopping"
      BY <1>0, <2>1 DEF Goes, Connects
    <2>3. Bare(account) /\ sessions'.running = {}
      BY <1>0, <1>6, <2>1 DEF StageTrue, At, StopSession
    <2>4. At(c, LockStages)'
      BY <2>2 DEF At, LockStages
    <2>5. LockInv'
      BY <1>0, <1>1, <1>3, <1>4, <2>1, <2>2, <2>4, HolderStays
    <2>6. StageTrue(c)'
      BY <2>1, <2>2, <2>3 DEF StageTrue, At, UpStages, Bare
    <2>7. PairHeld'
      BY <1>1, <1>5, <1>6, <2>1, <2>2, PairUntouched DEF At
    <2> QED  BY <2>4, <2>5, <2>6, <2>7, StagesOfHolder DEF LockInv
  <1>7. CASE connects[c].stage = "stopping"
    <2>1. account' = Released(account) /\ Ended(c) /\ UNCHANGED sessions
      BY <1>7 DEF TasksEnd, StopEnds, Cancelled, At
    <2>2. /\ account'.session = account.session /\ account'.attached = account.attached
          /\ account'.retry = account.retry /\ account'.users = account.users
          /\ account'.lock = Nobody /\ account'.loop = account.loop /\ account'.pair = account.pair
      BY <1>0, <2>1 DEF Released, Accounts
    <2>3. (\A d \in Clients \ {c} : connects'[d] = connects[d]) /\ At(c, {"idle"})'
      BY <1>0, <2>1 DEF Ended, NoConnect, At
    <2>4. LockInv'
      BY <1>0, <1>1, <1>3, <1>4, <2>2, <2>3, HolderLeaves
    <2>5. Bare(account) /\ sessions.running = {}
      BY <1>0, <1>7 DEF StageTrue, At
    <2>6. AtRest'
      BY <2>1, <2>2, <2>5 DEF AtRest, Bare, Settled
    <2>7. PairHeld'
      BY <1>1, <1>5, <1>7, <2>2, <2>3, PairUntouched DEF At
    <2> QED  BY <2>2, <2>4, <2>6, <2>7, StagesAtRest DEF LockInv
  <1> QED  BY <1>2, <1>6, <1>7 DEF At

LEMMA ConnectMoves ==
    ASSUME AccountInv, NEW c \in Clients, ConnectGoesOn(c)
    PROVE  LockInv' /\ SessionStages' /\ PairHeld'
  <1>0. /\ AccountTyped /\ LockInv /\ connects \in [Clients -> Connects]
        /\ account \in Accounts(account.queue) /\ account.users \in Nat /\ process.loop \in Nat
    BY DEF AccountInv, LockInv, AccountTyped, Accounts
  <1>1. /\ At(c, {"queued"}) /\ connects[c].kind = "connect" /\ account.lock = Nobody
        /\ UNCHANGED <<process, sessions, venue, history>> /\ AtRest
    BY DEF ConnectGoesOn, Free, External, AccountInv, SessionStages
  <1>2. account.users > 0 => Here /\ account.loop = process.loop
    BY <1>0, <1>1, QueuedIsHere
  <1>3. account.users > 0 => Settled(account) /\ sessions.running = {account.session}
    BY <1>1, <1>2 DEF AtRest, Bare, Settled
  <1>4. account.users = 0 => Bare(account) /\ sessions.running = {}
    BY <1>1 DEF AtRest, Bare, Settled
  <1>5. /\ Locked(c).users = account.users /\ Locked(c).session = account.session
        /\ Locked(c).attached = account.attached /\ Locked(c).retry = account.retry
        /\ Locked(c).lock = c /\ Locked(c).loop = account.loop /\ Locked(c).pair = account.pair
        /\ Locked(c) \in Accounts(Locked(c).queue)
    BY <1>0 DEF Locked, Accounts
  <1>6. CASE account.users > 0 /\ Counted(c, Locked(c))
    <2>1. /\ account'.users = account.users + 1 /\ account'.session = account.session
          /\ account'.attached = account.attached /\ account'.retry = account.retry
          /\ account'.lock = Nobody /\ account'.loop = account.loop /\ account'.pair = account.pair
          /\ holds' = holds \cup {c}
      BY <1>5, <1>6 DEF Counted, Released, Accounts
    <2>2. (\A d \in Clients \ {c} : connects'[d] = connects[d]) /\ At(c, {"idle"})'
      BY <1>0, <1>6 DEF Counted, Ended, NoConnect, At
    <2>3. LockInv'
      BY <1>0, <1>1, <1>6, <2>1, <2>2, LockPassed
    <2>4. AtRest'
      BY <1>0, <1>1, <1>3, <1>6, <2>1 DEF AtRest, Settled
    <2>5. PairHeld'
      BY <1>1, <2>1, <2>2, PairUntouched DEF At
    <2> QED  BY <2>1, <2>3, <2>4, <2>5, StagesAtRest DEF LockInv
  <1>7. CASE account.users > 0 /\ account' = Locked(c) /\ Goes(c, "joining") /\ UNCHANGED holds
    <2>1. /\ \A d \in Clients \ {c} : connects'[d] = connects[d]
          /\ connects'[c].stage = "joining"
      BY <1>0, <1>7 DEF Goes, Connects
    <2>2. At(c, LockStages)'
      BY <2>1 DEF At, LockStages
    <2>3. LockInv'
      BY <1>0, <1>1, <1>2, <1>5, <1>7, <2>1, <2>2, LockTaken
    <2>4. StageTrue(c)'
      BY <1>1, <1>3, <1>5, <1>7, <2>1 DEF StageTrue, At, Settled, PreStages, UpStages
    <2>5. PairHeld'
      BY <1>1, <1>5, <1>7, <2>1, PairUntouched DEF At
    <2> QED  BY <2>2, <2>3, <2>4, <2>5, StagesOfHolder DEF LockInv
  <1>8. CASE /\ account.users = 0 /\ account' = [Locked(c) EXCEPT !.loop = process.loop]
             /\ Goes(c, "listing") /\ UNCHANGED holds
    <2>1. /\ \A d \in Clients \ {c} : connects'[d] = connects[d]
          /\ connects'[c].stage = "listing"
      BY <1>0, <1>8 DEF Goes, Connects
    <2>2. /\ account'.users = account.users /\ account'.session = account.session
          /\ account'.attached = account.attached /\ account'.retry = account.retry
          /\ account'.lock = c /\ account'.loop = process.loop /\ account'.pair = account.pair
      BY <1>5, <1>8 DEF Accounts
    <2>3. At(c, LockStages)'
      BY <2>1 DEF At, LockStages, PreStages
    <2>4. LockInv'
      BY <1>0, <1>1, <1>8, <2>1, <2>2, <2>3, LockTaken
    <2>5. StageTrue(c)'
      BY <1>1, <1>4, <1>8, <2>1, <2>2 DEF StageTrue, At, Bare, PreStages, UpStages
    <2>6. PairHeld'
      BY <1>1, <2>1, <2>2, PairUntouched DEF At
    <2> QED  BY <2>3, <2>4, <2>5, <2>6, StagesOfHolder DEF LockInv
  <1> QED  BY <1>5, <1>6, <1>7, <1>8 DEF ConnectGoesOn

LEMMA DisconnectMoves ==
    ASSUME AccountInv, NEW c \in Clients, DisconnectGoesOn(c)
    PROVE  LockInv' /\ SessionStages' /\ PairHeld'
  <1>0. /\ AccountTyped /\ LockInv /\ connects \in [Clients -> Connects]
        /\ account \in Accounts(account.queue) /\ account.users \in Nat /\ account.session \in Nat
    BY DEF AccountInv, LockInv, AccountTyped, Accounts
  <1>1. /\ At(c, {"queued"}) /\ connects[c].kind = "disconnect" /\ account.lock = Nobody
        /\ UNCHANGED <<process, holds, venue, history>> /\ AtRest
    BY DEF DisconnectGoesOn, Free, External, AccountInv, SessionStages
  <1>2. Here /\ account.loop = process.loop /\ account.users > 0
    BY <1>0, <1>1, QueuedIsHere
  <1>3. Settled(account) /\ sessions.running = {account.session}
    BY <1>0, <1>1, <1>2 DEF AtRest, Bare, Settled
  <1> DEFINE a == [Locked(c) EXCEPT !.users = IF @ = 0 THEN 0 ELSE @ - 1]
  <1>4. Locked(c) \in Accounts(Locked(c).queue) /\ Locked(c).users = account.users
    BY <1>0 DEF Locked, Accounts
  <1>5. /\ a.users = account.users - 1 /\ a.session = account.session
        /\ a.attached = account.attached /\ a.retry = account.retry
        /\ a.lock = c /\ a.loop = account.loop /\ a.pair = account.pair
    BY <1>0, <1>2 DEF Locked, Accounts
  <1>6. account.users - 1 \in Nat
    BY <1>0, <1>2
  <1>7. a \in Accounts(a.queue)
    BY <1>4, <1>6 DEF Accounts
  <1>8. \/ account.users = 1 /\ Stops(c, a, a.session)
        \/ account.users # 1 /\ account' = Released(a) /\ Ended(c) /\ UNCHANGED sessions
    BY DEF DisconnectGoesOn
  <1> HIDE DEF a
  <1>9. CASE account.users = 1 /\ Stops(c, a, a.session)
    <2>1. /\ account'.session = 0 /\ account'.attached = 0 /\ account'.retry = 0
          /\ account'.users = a.users /\ account'.lock = c /\ account'.loop = account.loop
          /\ account'.pair = account.pair
          /\ \A d \in Clients \ {c} : connects'[d] = connects[d]
          /\ connects'[c].stage \in {"winding", "stopping"}
          /\ connects'[c].session = account.session
          /\ connects'[c].stage = "winding" => sessions'.running = {account.session}
          /\ connects'[c].stage = "stopping" => sessions'.running = {}
      BY <1>0, <1>3, <1>5, <1>7, <1>9, StopsSession
    <2>2. account'.users = 0 /\ account'.users = account.users - 1
      BY <1>5, <1>9, <2>1
    <2>3. At(c, LockStages)'
      BY <2>1 DEF At, LockStages
    <2>4. LockInv'
      BY <1>0, <1>1, <1>2, <2>1, <2>2, <2>3, LockTaken
    <2>5. StageTrue(c)'
      BY <1>3, <2>1, <2>2 DEF StageTrue, At, Bare, Settled, PreStages, UpStages, NoSession
    <2>6. PairHeld'
      BY <1>1, <2>1, PairUntouched DEF At
    <2> QED  BY <2>3, <2>4, <2>5, <2>6, StagesOfHolder DEF LockInv
  <1>10. CASE account.users # 1 /\ account' = Released(a) /\ Ended(c) /\ UNCHANGED sessions
    <2>1. /\ account'.users = account.users - 1 /\ account'.session = account.session
          /\ account'.attached = account.attached /\ account'.retry = account.retry
          /\ account'.lock = Nobody /\ account'.loop = account.loop /\ account'.pair = account.pair
      BY <1>5, <1>7, <1>10 DEF Released, Accounts
    <2>2. (\A d \in Clients \ {c} : connects'[d] = connects[d]) /\ At(c, {"idle"})'
      BY <1>0, <1>10 DEF Ended, NoConnect, At
    <2>3. LockInv'
      BY <1>0, <1>1, <1>2, <2>1, <2>2, LockPassed
    <2>4. account'.users > 0
      BY <1>0, <1>2, <1>10, <2>1
    <2>5. AtRest'
      BY <1>3, <1>10, <2>1, <2>4 DEF AtRest, Settled
    <2>6. PairHeld'
      BY <1>1, <2>1, <2>2, PairUntouched DEF At
    <2> QED  BY <2>1, <2>3, <2>5, <2>6, StagesAtRest DEF LockInv
  <1> QED  BY <1>8, <1>9, <1>10

LEMMA ListMoves ==
    ASSUME AccountInv, NEW c \in Clients, Listed(c)
    PROVE  LockInv' /\ SessionStages' /\ PairHeld'
  <1>0. /\ AccountTyped /\ LockInv /\ connects \in [Clients -> Connects] /\ StageTrue(c)
        /\ account \in Accounts(account.queue) /\ sessions.built \in Nat
        /\ venue \in VenueType /\ LockHeld /\ PairHeld
    BY DEF AccountInv, LockInv, AccountTyped, SessionStages, VenueType
  <1>1. /\ At(c, {"listing", "relisting"}) /\ UNCHANGED <<holds, process, history>>
    BY DEF Listed, External
  <1>2. /\ At(c, LockStages) /\ account.lock = c /\ Bare(account) /\ sessions.running = {}
    BY <1>0, <1>1 DEF At, LockStages, PreStages, LockInv, LockHeld, StageTrue
  <1>3. venue.exchange.stage = "none"
    BY <1>0, <1>1, <1>2, ExchangeOfHolder DEF At
  <1>4. CASE Resolved(c) /\ UNCHANGED venue
    <2> DEFINE s == sessions.built + 1
    <2>1. s \in Nat /\ s # 0
      BY <1>0
    <2>2. /\ sessions' = BuildSession(s)
          /\ account' = [account EXCEPT !.session = s, !.attached = s]
          /\ connects' = [connects EXCEPT ![c].stage = "waiting", ![c].session = s]
      BY <1>4 DEF Resolved
    <2> HIDE DEF s
    <2>3. /\ account'.users = account.users /\ account'.session = s
          /\ account'.attached = s /\ account'.retry = account.retry
          /\ account'.lock = c /\ account'.loop = account.loop /\ account'.pair = account.pair
      BY <1>0, <1>2, <2>2 DEF Accounts
    <2>4. /\ \A d \in Clients \ {c} : connects'[d] = connects[d]
          /\ connects'[c].stage = "waiting" /\ connects'[c].session = s
      BY <1>0, <2>2 DEF Connects
    <2>5. sessions'.running = {s}
      BY <1>2, <2>2 DEF BuildSession
    <2>6. At(c, LockStages)'
      BY <2>4 DEF At, LockStages, UpStages
    <2>7. LockInv'
      BY <1>0, <1>1, <1>2, <2>3, <2>4, <2>6, HolderStays
    <2>8. StageTrue(c)'
      BY <1>2, <2>1, <2>3, <2>4, <2>5 DEF StageTrue, At, Bare, PreStages, UpStages, NoSession
    <2>9. PairHeld'
      BY <1>1, <1>4, <2>3, <2>4, PairUntouched DEF At
    <2> QED  BY <2>6, <2>7, <2>8, <2>9, StagesOfHolder DEF LockInv
  <1>5. CASE /\ Goes(c, "refreshing") /\ UNCHANGED <<account, sessions>>
             /\ venue' = [venue EXCEPT !.exchange = [stage |-> "asked", pair |-> account.pair]]
    <2>1. /\ \A d \in Clients \ {c} : connects'[d] = connects[d]
          /\ connects'[c].stage = "refreshing"
      BY <1>0, <1>5 DEF Goes, Connects
    <2>2. venue'.issued = venue.issued /\ venue'.exchange.stage = "asked"
      BY <1>0, <1>5 DEF VenueType
    <2>3. At(c, LockStages)'
      BY <2>1 DEF At, LockStages, PreStages
    <2>4. LockInv'
      BY <1>0, <1>1, <1>2, <1>5, <2>1, <2>3, HolderStays
    <2>5. StageTrue(c)'
      BY <1>2, <1>5, <2>1 DEF StageTrue, At, Bare, UpStages
    <2>6. PairHeld'
      BY <1>0, <1>1, <1>3, <1>5, <2>1, <2>2 DEF PairHeld, At
    <2> QED  BY <2>3, <2>4, <2>5, <2>6, StagesOfHolder DEF LockInv
  <1> QED  BY <1>4, <1>5 DEF Listed

LEMMA RefreshMoves ==
    ASSUME AccountInv, NEW c \in Clients, Refreshed(c) \/ RefreshTimesOut(c)
    PROVE  LockInv' /\ SessionStages' /\ PairHeld'
  <1>0. /\ AccountTyped /\ LockInv /\ connects \in [Clients -> Connects] /\ StageTrue(c)
        /\ account \in Accounts(account.queue) /\ venue \in VenueType /\ PairHeld
        /\ history \in HistoryType
    BY DEF AccountInv, LockInv, AccountTyped, SessionStages, VenueType, HistoryType
  <1>1. At(c, {"refreshing", "late"}) /\ UNCHANGED <<holds, process>>
    BY DEF Refreshed, RefreshTimesOut, At, External
  <1>2. /\ At(c, LockStages) /\ account.lock = c /\ Bare(account) /\ sessions.running = {}
    BY <1>0, <1>1 DEF At, LockStages, PreStages, LockInv, LockHeld, StageTrue
  <1>3. CASE RefreshTimesOut(c)
    <2>1. UNCHANGED <<account, sessions, venue, history>>
      BY <1>3 DEF RefreshTimesOut
    <2>2. /\ \A d \in Clients \ {c} : connects'[d] = connects[d]
          /\ connects'[c].stage = "late"
      BY <1>0, <1>3 DEF RefreshTimesOut, Goes, Connects
    <2>3. At(c, LockStages)'
      BY <2>2 DEF At, LockStages, PreStages
    <2>4. LockInv'
      BY <1>0, <1>1, <1>2, <2>1, <2>2, <2>3, HolderStays
    <2>5. StageTrue(c)'
      BY <1>2, <2>1, <2>2 DEF StageTrue, At, Bare, UpStages
    <2>6. PairHeld'
      BY <2>1, <2>2, PairUntouched DEF At
    <2> QED  BY <2>3, <2>4, <2>5, <2>6, StagesOfHolder DEF LockInv
  <1>4. CASE Refreshed(c) /\ venue.exchange.stage = "answered"
    <2>1. /\ account' = [account EXCEPT !.pair = venue.exchange.pair]
          /\ Goes(c, "relisting") /\ UNCHANGED sessions
          /\ history' = [history EXCEPT !.forfeited = FALSE]
          /\ venue' = [venue EXCEPT !.exchange = NoExchange]
      BY <1>4 DEF Refreshed
    <2>2. /\ \A d \in Clients \ {c} : connects'[d] = connects[d]
          /\ connects'[c].stage = "relisting"
      BY <1>0, <2>1 DEF Goes, Connects
    <2>3. /\ account'.users = account.users /\ account'.session = account.session
          /\ account'.attached = account.attached /\ account'.retry = account.retry
          /\ account'.lock = c /\ account'.loop = account.loop
          /\ account'.pair = venue.exchange.pair
      BY <1>0, <1>2, <2>1 DEF Accounts
    <2>4. /\ venue'.issued = venue.issued /\ venue'.exchange.stage = "none"
          /\ history'.leaked = history.leaked
      BY <1>0, <2>1 DEF VenueType, HistoryType, NoExchange
    <2>5. At(c, LockStages)'
      BY <2>2 DEF At, LockStages, PreStages
    <2>6. LockInv'
      BY <1>0, <1>1, <1>2, <2>2, <2>3, <2>4, <2>5, HolderStays
    <2>7. StageTrue(c)'
      BY <1>2, <2>1, <2>2, <2>3 DEF StageTrue, At, Bare, UpStages
    <2>8. PairHeld'
      BY <1>0, <1>4, <2>3, <2>4 DEF PairHeld
    <2> QED  BY <2>5, <2>6, <2>7, <2>8, StagesOfHolder DEF LockInv
  <1>5. CASE Refreshed(c) /\ venue.exchange.stage # "answered"
    <2>1. /\ Fails(c) /\ UNCHANGED history
          /\ venue' = [venue EXCEPT !.exchange = NoExchange]
      BY <1>5 DEF Refreshed
    <2>2. LockInv' /\ SessionStages' /\ account'.pair = account.pair
      <3>1. At(c, PreStages \cup UpStages \cup {"joining"})
        BY <1>1 DEF At, PreStages
      <3> QED  BY <1>1, <2>1, <3>1, FailsUnderLock
    <2>3. venue'.issued = venue.issued /\ venue'.exchange.stage = "none"
      BY <1>0, <2>1 DEF VenueType, NoExchange
    <2>4. PairHeld'
      BY <1>0, <1>5, <2>1, <2>2, <2>3 DEF PairHeld
    <2> QED  BY <2>2, <2>4
  <1> QED  BY <1>3, <1>4, <1>5

\* A bring-up or a join that is over, or goes on to load the reference data.
LEMMA ReadyMoves ==
    ASSUME AccountInv, NEW c \in Clients, ReadyFound(c) \/ ReferenceLoaded(c)
    PROVE  LockInv' /\ SessionStages' /\ PairHeld'
  <1>0. /\ AccountTyped /\ LockInv /\ connects \in [Clients -> Connects] /\ StageTrue(c)
        /\ account \in Accounts(account.queue) /\ account.users \in Nat
    BY DEF AccountInv, LockInv, AccountTyped, SessionStages, Accounts
  <1>1. /\ At(c, UpStages \cup {"joining"})
        /\ UNCHANGED <<process, sessions, venue, history>>
    BY DEF ReadyFound, ReferenceLoaded, At, UpStages, External
  <1>2. /\ At(c, LockStages) /\ account.lock = c /\ Here
        /\ ~At(c, {"refreshing", "late"})
    BY <1>0, <1>1 DEF At, LockStages, UpStages, LockInv, LockHeld
  <1>3. ASSUME NEW a, a \in Accounts(a.queue), Counted(c, a),
               a.users = account.users, a.session = account.session,
               a.attached = account.attached, a.loop = account.loop, a.pair = account.pair,
               a.retry = account.session, account.session # NoSession,
               account.attached = account.session, sessions.running = {account.session}
        PROVE  LockInv' /\ SessionStages' /\ PairHeld'
    <2>1. /\ account'.users = account.users + 1 /\ account'.session = account.session
          /\ account'.attached = account.session /\ account'.retry = account.session
          /\ account'.lock = Nobody /\ account'.loop = account.loop /\ account'.pair = account.pair
          /\ holds' = holds \cup {c}
      BY <1>3 DEF Counted, Released, Accounts
    <2>2. (\A d \in Clients \ {c} : connects'[d] = connects[d]) /\ At(c, {"idle"})'
      BY <1>0, <1>3 DEF Counted, Ended, NoConnect, At
    <2>3. LockInv'
      BY <1>0, <1>1, <1>2, <2>1, <2>2, HolderLeaves
    <2>4. account'.users > 0
      BY <1>0, <2>1
    <2>5. AtRest'
      BY <1>1, <1>3, <2>1, <2>4 DEF AtRest, Settled
    <2>6. PairHeld'
      BY <1>1, <1>2, <2>1, <2>2, PairUntouched
    <2> QED  BY <2>1, <2>3, <2>5, <2>6, StagesAtRest DEF LockInv
  <1>4. CASE At(c, {"joining"}) /\ Counted(c, account)
    BY <1>0, <1>3, <1>4 DEF StageTrue, Settled
  <1>5. CASE /\ At(c, UpStages)
             /\ \/ Counted(c, [account EXCEPT !.retry = connects[c].session])
                \/ Counted(c, [account EXCEPT !.reference = TRUE, !.retry = connects[c].session])
    <2>1. /\ account.session = connects[c].session /\ account.attached = account.session
          /\ account.session # NoSession /\ sessions.running = {account.session}
      BY <1>0, <1>5 DEF StageTrue
    <2>2. connects[c].session \in Nat
      BY <1>0 DEF Connects
    <2>3. PICK a : /\ Counted(c, a)
                   /\ \/ a = [account EXCEPT !.retry = connects[c].session]
                      \/ a = [account EXCEPT !.reference = TRUE, !.retry = connects[c].session]
      BY <1>5
    <2>4. /\ a \in Accounts(a.queue)
          /\ a.users = account.users /\ a.session = account.session
          /\ a.attached = account.attached /\ a.loop = account.loop /\ a.pair = account.pair
          /\ a.retry = account.session
      BY <1>0, <2>1, <2>2, <2>3 DEF Accounts
    <2> QED  BY <1>3, <2>1, <2>3, <2>4
  <1>6. CASE At(c, {"waiting"}) /\ Goes(c, "loading") /\ UNCHANGED <<account, holds>>
    <2>1. /\ \A d \in Clients \ {c} : connects'[d] = connects[d]
          /\ connects'[c].stage = "loading" /\ connects'[c].session = connects[c].session
      BY <1>0, <1>6 DEF Goes, Connects
    <2>2. At(c, LockStages)'
      BY <2>1 DEF At, LockStages, UpStages
    <2>3. LockInv'
      BY <1>0, <1>1, <1>2, <1>6, <2>1, <2>2, HolderStays
    <2>4. StageTrue(c)'
      BY <1>0, <1>1, <1>6, <2>1 DEF StageTrue, At, PreStages, UpStages
    <2>5. PairHeld'
      BY <1>1, <1>2, <1>6, <2>1, PairUntouched
    <2> QED  BY <2>2, <2>3, <2>4, <2>5, StagesOfHolder DEF LockInv
  <1>7. \/ At(c, {"joining"}) /\ Counted(c, account)
        \/ /\ At(c, UpStages)
           /\ \/ Counted(c, [account EXCEPT !.retry = connects[c].session])
              \/ Counted(c, [account EXCEPT !.reference = TRUE, !.retry = connects[c].session])
        \/ At(c, {"waiting"}) /\ Goes(c, "loading") /\ UNCHANGED <<account, holds>>
    BY DEF ReadyFound, ReferenceLoaded, At, UpStages
  <1> QED  BY <1>4, <1>5, <1>6, <1>7

\* A step outside every call: the lock, the users and the session stay as they are.
LEMMA NoCallMoves ==
    ASSUME AccountInv, UNCHANGED <<connects, holds>>, process'.loop = process.loop,
           account'.users = account.users, account'.session = account.session,
           account'.attached = account.attached, account'.retry = account.retry,
           account'.lock = account.lock, account'.loop = account.loop,
           sessions'.running = sessions.running, history'.leaked = history.leaked
    PROVE  LockInv' /\ SessionStages'
  <1>1. Here' = Here /\ LeftUnclean' = LeftUnclean /\ Releasing' = Releasing
    BY DEF Here, LeftUnclean, Releasing, At
  <1>2. LockHeld'
    BY <1>1 DEF AccountInv, LockHeld, At
  <1>3. UsersCounted' /\ LeftBehind'
    BY <1>1 DEF AccountInv, UsersCounted, LeftBehind, At
  <1>4. SessionStages'
    BY <1>1 DEF AccountInv, SessionStages, AtRest, StageTrue, At, Bare, Settled
  <1> QED  BY <1>2, <1>3, <1>4 DEF LockInv

LEMMA SurroundingsMove ==
    ASSUME AccountInv,
           \/ VenueExchanges \/ SessionChanges \/ Reloads \/ UNCHANGED accountVars
           \/ \E kept \in BOOLEAN : SessionRefreshes(kept)
    PROVE  LockInv' /\ SessionStages' /\ PairHeld'
  <1>0. /\ account \in Accounts(account.queue) /\ PairHeld /\ venue \in VenueType
        /\ sessions \in [built: Nat, running: SUBSET Nat, ready: BOOLEAN]
        /\ history \in HistoryType
    BY DEF AccountInv, AccountTyped, VenueType, HistoryType
  <1>1. UNCHANGED <<connects, holds, process>>
    BY DEF VenueExchanges, SessionChanges, Reloads, SessionRefreshes, accountVars, External
  <1>2. CASE VenueExchanges
    <2>1. UNCHANGED <<account, sessions, history>>
      BY <1>2 DEF VenueExchanges
    <2>2. \/ /\ venue.exchange.pair = venue.issued /\ venue'.issued = venue.issued + 1
             /\ venue'.exchange.stage = "answered" /\ venue'.exchange.pair = venue.issued + 1
          \/ venue'.issued = venue.issued /\ venue'.exchange.stage = "refused"
      BY <1>0, <1>2 DEF VenueExchanges, VenueType
    <2>3. venue.exchange.stage = "asked"
      BY <1>2 DEF VenueExchanges
    <2>4. PairHeld'
      BY <1>0, <1>1, <2>1, <2>2, <2>3 DEF PairHeld, At
    <2> QED  BY <1>1, <2>1, <2>4, NoCallMoves
  <1>3. CASE SessionChanges
    <2>1. UNCHANGED <<account, venue, history>> /\ sessions'.running = sessions.running
      BY <1>0, <1>3 DEF SessionChanges
    <2>2. PairHeld'
      BY <1>0, <1>1, <2>1 DEF PairHeld, At
    <2> QED  BY <1>1, <2>1, <2>2, NoCallMoves
  <1>4. CASE Reloads
    <2>1. /\ UNCHANGED <<sessions, venue, history>>
          /\ account'.users = account.users /\ account'.session = account.session
          /\ account'.attached = account.attached /\ account'.retry = account.retry
          /\ account'.lock = account.lock /\ account'.loop = account.loop
          /\ account'.pair = account.pair
      BY <1>0, <1>4 DEF Reloads, Accounts
    <2>2. PairHeld'
      BY <1>0, <1>1, <2>1 DEF PairHeld, At
    <2> QED  BY <1>1, <2>1, <2>2, NoCallMoves
  <1>5. ASSUME NEW kept \in BOOLEAN, SessionRefreshes(kept)
        PROVE  LockInv' /\ SessionStages' /\ PairHeld'
    <2>1. /\ UNCHANGED sessions /\ sessions.running # {}
          /\ account.pair = venue.issued
      BY <1>5 DEF SessionRefreshes
    <2>2. /\ account'.users = account.users /\ account'.session = account.session
          /\ account'.attached = account.attached /\ account'.retry = account.retry
          /\ account'.lock = account.lock /\ account'.loop = account.loop
          /\ kept => account'.pair = venue.issued + 1
      BY <1>0, <1>5 DEF SessionRefreshes, Accounts
    <2>3. /\ venue'.issued = venue.issued + 1 /\ venue'.exchange = venue.exchange
          /\ history'.leaked = history.leaked /\ history'.forfeited = ~kept
      BY <1>0, <1>5 DEF SessionRefreshes, VenueType, HistoryType
    <2>4. venue.exchange.stage = "none"
      <3>1. \A c \in Clients : ~At(c, {"refreshing", "late"})
        BY <2>1 DEF AccountInv, SessionStages, StageTrue, At, PreStages
      <3> QED  BY <1>0, <3>1 DEF PairHeld
    <2>5. ~kept => history'.forfeited
      BY <2>3
    <2>6. PairHeld'
      BY <2>2, <2>3, <2>4, <2>5 DEF PairHeld
    <2> QED  BY <1>1, <2>1, <2>2, <2>3, <2>6, NoCallMoves
  <1>6. CASE UNCHANGED accountVars
    <2>1. UNCHANGED <<account, sessions, venue, history>>
      BY <1>6 DEF accountVars
    <2>2. PairHeld'
      BY <1>0, <1>1, <2>1 DEF PairHeld, At
    <2> QED  BY <1>1, <2>1, <2>2, NoCallMoves
  <1> QED  BY <1>2, <1>3, <1>4, <1>5, <1>6

\* A closed loop takes its calls and its session with it.
LEMMA LoopCloseMoves ==
    ASSUME AccountInv, LoopCloses
    PROVE  LockInv' /\ SessionStages' /\ PairHeld'
  <1>0. /\ account \in Accounts(account.queue) /\ history \in HistoryType
        /\ sessions \in [built: Nat, running: SUBSET Nat, ready: BOOLEAN]
        /\ process \in [loop: Nat, client: Nat] /\ process.loop \in Nat /\ account.loop \in Nat
        /\ LockHeld /\ SessionStages
    BY DEF AccountInv, AccountTyped, HistoryType, Accounts
  <1>1. /\ account'.users = account.users /\ account'.session = account.session
        /\ account'.attached = account.attached /\ account'.retry = account.retry
        /\ account'.lock = account.lock /\ account'.loop = account.loop
        /\ account'.pair = account.pair
    BY <1>0 DEF LoopCloses, Accounts
  <1>2. /\ process'.loop = process.loop + 1 /\ holds' = {} /\ sessions'.running = {}
        /\ history'.leaked = 0
        /\ history'.forfeited = (\/ history.forfeited
                                 \/ venue.exchange.stage \in {"asked", "answered"})
        /\ \A c \in Clients : connects'[c].stage = "idle"
    BY <1>0 DEF LoopCloses, HistoryType, NoConnect
  <1>3. Here' <=> account.loop = 0
    BY <1>0, <1>1, <1>2 DEF Here, LockHeld
  <1>4. Releasing' = {}
    BY <1>2 DEF Releasing, At
  <1>5. LockHeld'
    BY <1>0, <1>1, <1>2, <1>3, StagesApart DEF LockHeld, At
  <1>6. UsersCounted'
    <2>1. account.loop = 0 => account.users = 0
      BY <1>0 DEF LockHeld
    <2> QED  BY <1>1, <1>2, <1>3, <1>4, <2>1, FS_EmptySet DEF UsersCounted
  <1>7. LeftBehind'
    BY <1>2 DEF LeftBehind, At
  <1>8. account.lock = Nobody => AtRest'
    <2>1. account.loop = 0 => ~Settled(account)
      BY <1>0 DEF LockHeld, Settled
    <2> QED  BY <1>0, <1>1, <1>2, <1>3, <2>1 DEF SessionStages, AtRest, Bare, Settled
  <1>9. SessionStages'
    BY <1>1, <1>2, <1>8 DEF SessionStages, StageTrue, At, PreStages, UpStages
  <1>10. PairHeld'
    <2>1. Closed
      BY DEF LoopCloses
    <2> QED  BY <1>1, <1>2, <2>1, ClosedKeepsPair
  <1> QED  BY <1>5, <1>6, <1>7, <1>9, <1>10 DEF LockInv

\* get_cached_ctrader_account_client() hands out the client, or its successor.
LEMMA LookUpMoves ==
    ASSUME AccountInv, NEW c \in Clients, LookUp(c)
    PROVE  LockInv' /\ SessionStages' /\ PairHeld'
  <1>0. /\ process \in [loop: Nat, client: Nat] /\ process.loop \in Nat
        /\ LockHeld /\ PairHeld
    BY DEF AccountInv, AccountTyped
  <1>1. UNCHANGED <<connects, holds, sessions, venue, history>> /\ process'.loop = process.loop
    BY <1>0 DEF LookUp
  <1>2. CASE Here
    <2>1. account' = account
      BY <1>2 DEF LookUp, Here
    <2>2. PairHeld'
      BY <1>0, <1>1, <2>1 DEF PairHeld, At
    <2> QED  BY <1>1, <2>1, <2>2, NoCallMoves
  <1>3. CASE ~Here
    <2>1. /\ account'.users = 0 /\ account'.session = 0 /\ account'.attached = 0
          /\ account'.retry = 0 /\ account'.lock = Nobody /\ account'.loop = 0
          /\ account'.pair = account.pair
      BY <1>3 DEF LookUp, Here, Successor, NewAccount, NoSession
    <2>2. /\ holds = {} /\ history.leaked = 0 /\ sessions.running = {} /\ Releasing = {}
          /\ \A d \in Clients : ~At(d, LockStages)
      BY <1>3, StagesApart DEF AccountInv, LeftBehind, Releasing, At
    <2>3. Here' /\ Releasing' = {}
      BY <1>1, <2>1, <2>2 DEF Here, Releasing, At
    <2>4. LockHeld'
      BY <1>0, <1>1, <2>1, <2>2 DEF LockHeld, At
    <2>5. UsersCounted'
      BY <1>1, <2>1, <2>2, <2>3, FS_EmptySet DEF UsersCounted
    <2>6. AtRest'
      BY <1>1, <2>1, <2>2 DEF AtRest, Bare, NoSession
    <2>7. PairHeld'
      BY <1>0, <1>1, <2>1 DEF PairHeld, At
    <2> QED  BY <2>1, <2>3, <2>4, <2>5, <2>6, <2>7, StagesAtRest DEF LockInv, LeftBehind
  <1> QED  BY <1>2, <1>3

-----------------------------------------------------------------------------
(* AccountClient: theorems *)

LEMMA AccountInitial == AccountInit => AccountInv
  <1> SUFFICES ASSUME AccountInit PROVE AccountInv
    OBVIOUS
  <1>1. NoConnect \in Connects
    BY DEF NoConnect, Connects, NoSession
  <1>2. account \in Accounts(account.queue)
    BY Zenon DEF AccountInit, NewAccount, Accounts, NoSession
  <1>3. AccountTyped
    BY <1>1, <1>2 DEF AccountInit, AccountTyped, NoExchange
  <1>4. \A c \in Clients : connects[c].stage = "idle"
    BY DEF AccountInit, NoConnect
  <1>5. /\ account.users = 0 /\ account.session = 0 /\ account.attached = 0 /\ account.retry = 0
        /\ account.lock = Nobody /\ account.loop = 0 /\ account.pair = 0
    BY DEF AccountInit, NewAccount, NoSession
  <1>6. /\ holds = {} /\ sessions.running = {} /\ history.leaked = 0 /\ process.loop = 1
        /\ venue.issued = 0 /\ venue.exchange.stage = "none" /\ Releasing = {}
    BY <1>4 DEF AccountInit, NoExchange, Releasing, At
  <1>7. Here /\ LockHeld
    BY <1>4, <1>5, <1>6, StagesApart DEF Here, LockHeld, At
  <1>8. UsersCounted /\ LeftBehind
    BY <1>5, <1>6, <1>7, FS_EmptySet DEF UsersCounted, LeftBehind
  <1>9. SessionStages
    BY <1>4, <1>5, <1>6 DEF SessionStages, AtRest, Bare, StageTrue, At, PreStages, UpStages, NoSession
  <1>10. PairHeld
    BY <1>5, <1>6 DEF PairHeld
  <1> QED  BY <1>3, <1>7, <1>8, <1>9, <1>10 DEF AccountInv

LEMMA AccountInductive == AccountInv /\ [AccountNext]_accountVars => AccountInv'
  <1> SUFFICES ASSUME AccountInv, [AccountNext]_accountVars PROVE AccountInv'
    OBVIOUS
  <1>1. AccountTyped'
    BY AccountTypesKept DEF AccountInv
  <1>2. ASSUME NEW c \in Clients, Cancelled(c)
        PROVE  LockInv' /\ SessionStages' /\ PairHeld'
    <2>1. \/ At(c, {"queued"}) \/ At(c, {"winding", "stopping"})
          \/ At(c, PreStages \cup UpStages \cup {"joining"})
      BY <1>2 DEF Cancelled, At, PreStages, UpStages
    <2> QED  BY <1>2, <2>1, QueueMoves, StopMoves, AttemptEnds
  <1>3. LockInv' /\ SessionStages' /\ PairHeld'
    <2>1. ASSUME NEW c \in Clients, ConnectCalled(c) \/ DisconnectCalled(c)
          PROVE  LockInv' /\ SessionStages' /\ PairHeld'
      BY <2>1, QueueMoves
    <2>2. ASSUME NEW c \in Clients, ConnectGoesOn(c) \/ DisconnectGoesOn(c) \/ Listed(c)
          PROVE  LockInv' /\ SessionStages' /\ PairHeld'
      BY <2>2, ConnectMoves, DisconnectMoves, ListMoves
    <2>4. ASSUME NEW c \in Clients, Refreshed(c) \/ RefreshTimesOut(c)
          PROVE  LockInv' /\ SessionStages' /\ PairHeld'
      BY <2>4, RefreshMoves
    <2>5. ASSUME NEW c \in Clients, ReadyFound(c) \/ ReferenceLoaded(c)
          PROVE  LockInv' /\ SessionStages' /\ PairHeld'
      BY <2>5, ReadyMoves
    <2>6. ASSUME NEW c \in Clients, TasksEnd(c) \/ StopEnds(c)
          PROVE  LockInv' /\ SessionStages' /\ PairHeld'
      BY <2>6, StopMoves
    <2>7. ASSUME NEW c \in Clients, AttemptFails(c)
          PROVE  LockInv' /\ SessionStages' /\ PairHeld'
      BY <2>7, AttemptEnds
    <2>8. ASSUME NEW c \in Clients, LookUp(c)
          PROVE  LockInv' /\ SessionStages' /\ PairHeld'
      BY <2>8, LookUpMoves
    <2>3. CASE \/ VenueExchanges \/ SessionChanges \/ Reloads \/ UNCHANGED accountVars
               \/ \E kept \in BOOLEAN : SessionRefreshes(kept)
      BY <2>3, SurroundingsMove
    <2> QED  BY <1>2, <2>1, <2>2, <2>3, <2>4, <2>5, <2>6, <2>7, <2>8, LoopCloseMoves
             DEF AccountNext
  <1> QED  BY <1>1, <1>3 DEF AccountInv, LockInv

LEMMA AccountInvariant == AccountSpec => []AccountInv
  BY AccountInitial, AccountInductive, PTL DEF AccountSpec

\* What SessionOwned says of a state follows from the call that holds the lock.
LEMMA AccountInvOwns == AccountInv => SessionOwned
  <1> SUFFICES ASSUME AccountInv PROVE SessionOwned
    OBVIOUS
  <1> DEFINE stage(s) == {connects[c].stage : c \in {d \in Clients : connects[d].session = s}}
  <1>0. AccountTyped /\ account.lock \in Clients \cup {Nobody} /\ account.users \in Nat
        /\ connects \in [Clients -> Connects]
    BY DEF AccountInv, AccountTyped, Accounts
  <1>1. CASE sessions.running = {}
    <2>1. Cardinality(sessions.running) <= 1
      BY <1>1, FS_EmptySet
    <2>2. (Here /\ account.lock = Nobody) =>
             sessions.running = {account.session} \ {NoSession}
      BY <1>1 DEF AccountInv, SessionStages, AtRest, Bare, Settled
    <2> QED  BY <1>0, <1>1, <2>1, <2>2 DEF SessionOwned, AccountInv, UsersCounted, Releasing, Here,
                                           SessionStages, AtRest, Bare, Settled, PairHeld
  <1>2. CASE sessions.running # {}
    <2>1. Here
      BY <1>2 DEF AccountInv, LeftBehind
    <2>2. CASE account.lock = Nobody
      <3>1. Settled(account) /\ sessions.running = {account.session}
        BY <1>2, <2>1, <2>2 DEF AccountInv, SessionStages, AtRest
      <3>2. Cardinality(sessions.running) <= 1
        <4>1. Cardinality(sessions.running) = 1
          BY <3>1, FS_Singleton
        <4> QED  BY <4>1
      <3> QED  BY <1>0, <2>1, <3>1, <3>2 DEF SessionOwned, AccountInv, UsersCounted, Releasing,
                                             Here, Settled, PairHeld
    <2>3. CASE account.lock # Nobody
      <3>1. PICK c \in Clients : account.lock = c /\ At(c, LockStages) /\ StageTrue(c)
        BY <1>0, <2>1, <2>3 DEF AccountInv, LockHeld, SessionStages
      <3>2. connects[c].stage \in stage(connects[c].session)
        OBVIOUS
      <3>3. At(c, UpStages \cup {"joining", "winding"})
        BY <1>2, <3>1, StagesApart DEF StageTrue, At
      <3>4. \A s \in sessions.running :
               IF account.session = s
               THEN account.users > 0 \/ stage(s) \cap {"waiting", "loading"} # {}
               ELSE "winding" \in stage(s)
        <4>1. CASE At(c, UpStages)
          BY <3>1, <3>2, <4>1 DEF StageTrue, At, UpStages
        <4>2. CASE At(c, {"joining"})
          BY <3>1, <4>2 DEF StageTrue, Settled
        <4>3. CASE At(c, {"winding"})
          <5>1. /\ account.session = 0 /\ sessions.running = {connects[c].session}
                /\ connects[c].session # 0
            BY <3>1, <4>3 DEF StageTrue, Bare, NoSession
          <5>2. "winding" \in stage(connects[c].session)
            BY <3>2, <4>3 DEF At
          <5> QED  BY <5>1, <5>2
        <4> QED  BY <3>3, <4>1, <4>2, <4>3 DEF At
      <3>5. \E s : sessions.running = {s}
        BY <3>1, <3>3 DEF StageTrue, At
      <3>6. Cardinality(sessions.running) <= 1
        BY <3>5, FS_Singleton
      <3> QED  BY <2>3, <3>4, <3>6 DEF SessionOwned, AccountInv, PairHeld
    <2> QED  BY <2>2, <2>3
  <1> QED  BY <1>1, <1>2

\* No session of account.py runs with nothing to reach it, no counted user is without one,
\* and the pair the next session starts from is the newest unless a reply was given up:
\* for any clients connecting, disconnecting, failing and being cancelled over any number
\* of event loops.
THEOREM SessionIsOwned == AccountSpec => []SessionOwned
  BY AccountInvariant, AccountInvOwns, PTL

=============================================================================
