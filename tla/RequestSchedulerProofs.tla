----------------------- MODULE RequestSchedulerProofs -----------------------
(***************************************************************************)
(* Theorems about RequestScheduler, for every set of requests, every       *)
(* pacing and every bound.                                                 *)
(***************************************************************************)
EXTENDS RequestScheduler, TLAPS, FiniteSetTheorems, SequenceTheorems

-----------------------------------------------------------------------------
(* What the operators return *)

\* A request was queued in the past: what submit() adds to its waited time is
\* not negative.
QueuedInThePast == \A r \in Requests : queuedAt[r] <= now

TypeInv == TypeOK /\ QueuedInThePast

\* Times(n) is n grants made now.
LEMMA TimesType ==
    ASSUME NEW n \in Nat, now \in Nat
    PROVE  /\ Times(n) \in Seq(Nat)
           /\ Len(Times(n)) = n
           /\ \A i \in 1..n : Times(n)[i] = now
  BY DEF Times

\* The live entries of a group are finitely many.
LEMMA LiveFinite ==
    ASSUME TypeOK, NEW g \in Groups
    PROVE  /\ Live(g) \subseteq Requests
           /\ IsFiniteSet(Live(g))
           /\ Cardinality(Live(g)) \in Nat
  <1>1. Live(g) \subseteq Requests
    BY DEF Live, TypeOK
  <1>2. IsFiniteSet(Live(g))
    BY <1>1, PacingAssumption, FS_Subset
  <1> QED  BY <1>1, <1>2, FS_CardinalityType

\* A burst of none chooses none.
LEMMA FirstOfNone ==
    ASSUME TypeOK, NEW g \in Groups
    PROVE  FirstOf(g, 0) = {}
  <1>1. SUFFICES ASSUME NEW r \in Live(g)
                 PROVE  ~(Cardinality({s \in Live(g) : Before(s, r)}) < 0)
    BY DEF FirstOf
  <1>2. {s \in Live(g) : Before(s, r)} \subseteq Live(g)
    OBVIOUS
  <1>3. IsFiniteSet({s \in Live(g) : Before(s, r)})
    BY <1>2, LiveFinite, FS_Subset
  <1> QED  BY <1>3, FS_CardinalityType

\* Dropping the expired grants leaves a sequence of grants, the first of which
\* still counts.
LEMMA InWindowType ==
    ASSUME TypeOK, NEW g \in Groups, NEW k \in 0..Len(granted[g]), Expired(g, k)
    PROVE  LET w == SubSeq(granted[g], k + 1, Len(granted[g])) IN
           /\ w \in Seq(Nat)
           /\ Len(w) = Len(granted[g]) - k
           /\ \A i \in 1..Len(w) : w[i] = granted[g][k + i]
           /\ Len(w) > 0 => w[1] + Window > now
  <1> DEFINE s == granted[g]
             w == SubSeq(s, k + 1, Len(s))
  <1>1. s \in Seq(Nat) /\ Len(s) \in Nat /\ k \in Nat
    BY DEF TypeOK
  <1>2. w \in Seq(Nat) /\ Len(w) = Len(s) - k /\ \A i \in 1..Len(w) : w[i] = s[k + i]
    BY <1>1
  <1>3. ASSUME Len(w) > 0 PROVE w[1] + Window > now
    <2>1. k < Len(s) /\ w[1] = s[k + 1]
      BY <1>1, <1>2, <1>3
    <2>2. ~(s[k + 1] + Window <= now)
      BY <2>1 DEF Expired, LeftWindow
    <2>3. s[k + 1] \in Nat /\ now \in Nat /\ Window \in Nat
      BY <1>1, <2>1, PacingAssumption, SMTT(30) DEF TypeOK
    <2> HIDE DEF s, w
    <2> QED  BY <2>1, <2>2, <2>3
  <1> QED  BY <1>2, <1>3

\* The time a group is ready is a time.
LEMMA ReadyAtType ==
    ASSUME TypeOK, NEW g \in Groups, NEW w \in Seq(Nat)
    PROVE  ReadyAt(g, w) \in Nat /\ ReadyAt(g, w) >= pausedUntil[g]
  <1>1. Limit[g] \in Nat \ {0} /\ Window \in Nat /\ pausedUntil[g] \in Nat
    BY PacingAssumption DEF TypeOK
  <1>2. Len(w) >= Limit[g] => w[1] \in Nat
    BY <1>1
  <1> QED  BY <1>1, <1>2 DEF ReadyAt, LargerOf

\* A burst is a number that the window has room for.
LEMMA BurstType ==
    ASSUME TypeOK, NEW g \in Groups, NEW w \in Seq(Nat),
           Len(w) > 0 => w[1] + Window > now
    PROVE  /\ Burst(g, w) \in Nat
           /\ Burst(g, w) > 0 => /\ Len(w) + Burst(g, w) <= Limit[g]
                                 /\ pausedUntil[g] <= now
  <1>1. Limit[g] \in Nat \ {0} /\ Window \in Nat /\ pausedUntil[g] \in Nat /\ now \in Nat
    BY PacingAssumption DEF TypeOK
  <1>2. Cardinality(Live(g)) \in Nat
    BY LiveFinite
  <1>3. CASE Len(w) >= Limit[g]
    <2>1. w[1] \in Nat /\ ReadyAt(g, w) > now
      BY <1>1, <1>3 DEF ReadyAt, LargerOf
    <2> QED  BY <2>1 DEF Burst
  <1>4. CASE Len(w) < Limit[g]
    <2>1. ReadyAt(g, w) = pausedUntil[g]
      BY <1>1, <1>4 DEF ReadyAt
    <2>2. Limit[g] - Len(w) \in Nat
      BY <1>1, <1>4
    <2> QED  BY <1>1, <1>2, <2>1, <2>2 DEF Burst, SmallerOf
  <1> QED  BY <1>1, <1>3, <1>4

-----------------------------------------------------------------------------
(* Type correctness *)

\* _wait_turn() up to its await keeps the call's own state and the group typed.
LEMMA WaitTurnType ==
    ASSUME TypeInv, NEW r \in Requests, NEW w \in Nat, WaitTurn(r, w)
    PROVE  /\ phase' \in [Requests -> Phases]
           /\ outcome' \in [Requests -> Outcomes]
           /\ queuedAt' \in [Requests -> Nat]
           /\ waited' \in [Requests -> Nat]
           /\ heap' \in [Groups -> SUBSET Requests]
           /\ dispatcher' \in [Groups -> {"none", "ready", "asleep"}]
           /\ \A q \in Requests : queuedAt'[q] <= now
  <1>1. GroupOf[r] \in Groups
    BY PacingAssumption
  <1>2. CASE /\ Finish(r, "lost") \/ Finish(r, "timeout")
             /\ UNCHANGED <<heap, dispatcher>>
    <2>1. PICK how \in {"lost", "timeout"} : Finish(r, how)
      BY <1>2
    <2>2. how \in Outcomes
      BY DEF Outcomes, NotSent
    <2>3. /\ phase' \in [Requests -> Phases]
          /\ outcome' \in [Requests -> Outcomes]
      BY <2>1, <2>2 DEF Finish, TypeInv, TypeOK, Phases
    <2>4. /\ queuedAt' \in [Requests -> Nat]
          /\ waited' \in [Requests -> Nat]
          /\ \A q \in Requests : queuedAt'[q] <= now
      BY <2>1 DEF Finish, TypeInv, TypeOK, QueuedInThePast
    <2> QED  BY <1>2, <2>3, <2>4 DEF TypeInv, TypeOK
  <1>3. CASE Enqueue(r, w)
    BY <1>1, <1>3 DEF Enqueue, TypeInv, TypeOK, QueuedInThePast, Phases
  <1> QED  BY <1>2, <1>3 DEF WaitTurn

\* A run of the dispatcher changes nothing but what it may.
LEMMA DispatchType ==
    ASSUME TypeOK, NEW g \in Groups, NEW k \in 0..Len(granted[g]), Expired(g, k),
           DispatchAfter(g, k)
    PROVE  /\ phase' \in [Requests -> Phases]
           /\ heap' \in [Groups -> SUBSET Requests]
           /\ granted' \in [Groups -> Seq(Nat)]
           /\ log' \in [Groups -> Seq(Nat)]
           /\ dispatcher' \in [Groups -> {"none", "ready", "asleep"}]
           /\ wakeAt' \in [Groups -> Nat]
  <1> DEFINE w == SubSeq(granted[g], k + 1, Len(granted[g]))
             n == Burst(g, w)
  <1>1. w \in Seq(Nat) /\ n \in Nat
    BY InWindowType, BurstType
  <1>2. Times(n) \in Seq(Nat) /\ now \in Nat
    BY <1>1, TimesType DEF TypeOK
  <1>3. w \o Times(n) \in Seq(Nat) /\ log[g] \o Times(n) \in Seq(Nat)
    BY <1>1, <1>2 DEF TypeOK
  <1>4. ReadyAt(g, w \o Times(n)) \in Nat
    BY <1>3, ReadyAtType
  <1>5. /\ phase' = [r \in Requests |-> IF r \in FirstOf(g, n) THEN "granted" ELSE phase[r]]
        /\ granted' = [granted EXCEPT ![g] = w \o Times(n)]
        /\ log' = [log EXCEPT ![g] = @ \o Times(n)]
        /\ heap' = [heap EXCEPT ![g] =
                       {r \in @ : \E s \in Live(g) \ FirstOf(g, n) : r = s \/ Before(s, r)}]
        /\ \/ /\ dispatcher' = [dispatcher EXCEPT ![g] = "none"]
              /\ wakeAt' = [wakeAt EXCEPT ![g] = 0]
           \/ /\ dispatcher' = [dispatcher EXCEPT ![g] = "asleep"]
              /\ wakeAt' = [wakeAt EXCEPT ![g] = ReadyAt(g, w \o Times(n))]
    BY DEF DispatchAfter
  <1> HIDE DEF w, n
  <1>6. phase' \in [Requests -> Phases] /\ heap' \in [Groups -> SUBSET Requests]
    BY <1>5 DEF TypeOK, Phases
  <1>7. granted' \in [Groups -> Seq(Nat)] /\ log' \in [Groups -> Seq(Nat)]
    BY <1>3, <1>5 DEF TypeOK
  <1>8. dispatcher' \in [Groups -> {"none", "ready", "asleep"}] /\ wakeAt' \in [Groups -> Nat]
    <2>1. CASE /\ dispatcher' = [dispatcher EXCEPT ![g] = "none"]
               /\ wakeAt' = [wakeAt EXCEPT ![g] = 0]
      BY <2>1 DEF TypeOK
    <2>2. CASE /\ dispatcher' = [dispatcher EXCEPT ![g] = "asleep"]
               /\ wakeAt' = [wakeAt EXCEPT ![g] = ReadyAt(g, w \o Times(n))]
      BY <1>4, <2>2 DEF TypeOK
    <2> QED  BY <1>5, <2>1, <2>2
  <1> QED  BY <1>6, <1>7, <1>8

\* __init__ leaves the scheduler in a well-typed, idle state.
LEMMA TypeInit == Init => TypeInv
  <1> SUFFICES ASSUME Init PROVE TypeInv
    OBVIOUS
  <1>1. granted \in [Groups -> Seq(Nat)] /\ log \in [Groups -> Seq(Nat)]
    BY DEF Init
  <1>2. failed \in BOOLEAN
    BY DEF Init
  <1>3. /\ phase \in [Requests -> Phases]
        /\ outcome \in [Requests -> Outcomes]
    BY DEF Init, Phases, Outcomes
  <1>4. /\ now \in Nat /\ arrivals \in Nat
        /\ seq \in [Requests -> Nat]
        /\ queuedAt \in [Requests -> Nat]
        /\ waited \in [Requests -> Nat]
        /\ attempt \in [Requests -> Nat]
        /\ heap \in [Groups -> SUBSET Requests]
        /\ pausedUntil \in [Groups -> Nat]
        /\ dispatcher \in [Groups -> {"none", "ready", "asleep"}]
        /\ wakeAt \in [Groups -> Nat]
        /\ QueuedInThePast
    BY DEF Init, QueuedInThePast
  <1> QED  BY <1>1, <1>2, <1>3, <1>4 DEF TypeInv, TypeOK

\* Every step preserves the types, one action at a time.
LEMMA TypeStep ==
    ASSUME TypeInv, [Next]_vars
    PROVE  TypeInv'
  <1> USE DEF TypeInv, TypeOK, QueuedInThePast
  <1>1. ASSUME NEW r \in Requests, Submit(r) PROVE TypeInv'
    <2>1. WaitTurn(r, 0) /\ 0 \in Nat
      BY <1>1 DEF Submit
    <2>2. seq' \in [Requests -> Nat] /\ arrivals' \in Nat
      BY <1>1 DEF Submit
    <2>3. UNCHANGED <<now, attempt, granted, pausedUntil, wakeAt, failed, log>>
      BY <1>1 DEF Submit
    <2> QED  BY <2>1, <2>2, <2>3, WaitTurnType
  <1>2. ASSUME NEW r \in Requests, QueueTimesOut(r) PROVE TypeInv'
    BY <1>2 DEF QueueTimesOut, Finish, groupVars, Phases, Outcomes, NotSent
  <1>3. ASSUME NEW r \in Requests, Cancel(r) PROVE TypeInv'
    BY <1>3 DEF Cancel, Finish, groupVars, Phases, Outcomes
  <1>4. ASSUME NEW r \in Requests, ResumeFailed(r) PROVE TypeInv'
    BY <1>4 DEF ResumeFailed, Finish, groupVars, Phases, Outcomes, NotSent
  <1>5. ASSUME NEW r \in Requests, ResumeGranted(r) PROVE TypeInv'
    BY <1>5, SMTT(30) DEF ResumeGranted, groupVars, Phases
  <1>6. ASSUME NEW r \in Requests, Answer(r) PROVE TypeInv'
    BY <1>6 DEF Answer, Finish, groupVars, Phases, Outcomes
  <1>7. ASSUME NEW r \in Requests, NEW retryAfter \in RetryAfters, Refuse(r, retryAfter)
        PROVE TypeInv'
    <2>1. GroupOf[r] \in Groups /\ PauseAfter(r, retryAfter) \in Nat
      BY PacingAssumption, BoundAssumption DEF PauseAfter, LargerOf, SmallerOf
    <2>2. pausedUntil' \in [Groups -> Nat] /\ attempt' \in [Requests -> Nat]
      BY <1>7, <2>1 DEF Refuse
    <2>3. waited[r] \in Nat
      OBVIOUS
    <2>4. CASE WaitTurn(r, waited[r])
      BY <1>7, <2>2, <2>3, <2>4, WaitTurnType DEF Refuse
    <2>5. CASE Finish(r, "refused") /\ UNCHANGED <<heap, dispatcher>>
      <3>1. UNCHANGED <<now, seq, arrivals, granted, wakeAt, failed, log>>
        BY <1>7 DEF Refuse
      <3> QED  BY <2>2, <2>5, <3>1 DEF Finish, Phases, Outcomes
    <2> QED  BY <1>7, <2>4, <2>5 DEF Refuse
  <1>8. ASSUME NEW g \in Groups, Dispatch(g) PROVE TypeInv'
    <2>1. CASE DispatchNothing(g)
      BY <1>8, <2>1 DEF Dispatch, DispatchNothing
    <2>2. ASSUME NEW k \in 0..Len(granted[g]), Expired(g, k), DispatchAfter(g, k)
          PROVE TypeInv'
      BY <1>8, <2>2, DispatchType DEF Dispatch
    <2> QED  BY <1>8, <2>1, <2>2 DEF Dispatch
  <1>9. ASSUME FailAll PROVE TypeInv'
    BY <1>9 DEF FailAll, Phases
  <1>10. ASSUME Reset PROVE TypeInv'
    <2>1. granted' \in [Groups -> Seq(Nat)] /\ log' \in [Groups -> Seq(Nat)]
      BY <1>10 DEF Reset
    <2>2. failed' \in BOOLEAN
      BY <1>10 DEF Reset
    <2>3. /\ pausedUntil' \in [Groups -> Nat]
          /\ dispatcher' \in [Groups -> {"none", "ready", "asleep"}]
          /\ wakeAt' \in [Groups -> Nat]
      BY <1>10 DEF Reset
    <2>4. UNCHANGED <<now, callVars, heap>>
      BY <1>10 DEF Reset
    <2> QED  BY <2>1, <2>2, <2>3, <2>4 DEF callVars
  <1>11. ASSUME Tick PROVE TypeInv'
    BY <1>11 DEF Tick, callVars, groupVars
  <1>12. ASSUME UNCHANGED vars PROVE TypeInv'
    BY <1>12 DEF vars, callVars, groupVars
  <1> QED  BY <1>1, <1>2, <1>3, <1>4, <1>5, <1>6, <1>7, <1>8, <1>9, <1>10, <1>11, <1>12 DEF Next

\* Every variable of the scheduler keeps its type, and no request looks queued
\* in the future, for every pacing rate_limit.py accepts.
THEOREM TypeCorrect == Spec => []TypeOK
  <1>1. TypeInv => TypeOK
    BY DEF TypeInv
  <1> QED  BY <1>1, TypeInit, TypeStep, PTL DEF Spec

-----------------------------------------------------------------------------
(* No stranded request *)

\* An entry sits in the heap of its own group.
HeapOfGroup == \A g \in Groups : \A r \in heap[g] : GroupOf[r] = g

QueueInv == TypeInv /\ HeapOfGroup /\ NoStrandedRequest

\* submit() finishing one call leaves the other calls queued as they were.
LEMMA FinishKeepsQueue ==
    ASSUME QueueInv, NEW r \in Requests, NEW how, Finish(r, how),
           heap' = heap, dispatcher' = dispatcher
    PROVE  HeapOfGroup' /\ NoStrandedRequest'
  BY DEF QueueInv, TypeInv, TypeOK, HeapOfGroup, NoStrandedRequest, Finish

\* A call enters the queue with a dispatcher to serve it.
LEMMA WaitTurnKeepsQueue ==
    ASSUME QueueInv, NEW r \in Requests, NEW w \in Nat, WaitTurn(r, w)
    PROVE  HeapOfGroup' /\ NoStrandedRequest'
  <1>1. CASE Enqueue(r, w)
    <2>1. GroupOf[r] \in Groups
      BY PacingAssumption
    <2>2. HeapOfGroup'
      BY <1>1, <2>1 DEF Enqueue, QueueInv, TypeInv, TypeOK, HeapOfGroup
    <2>3. ASSUME NEW q \in Requests, phase'[q] = "queued"
          PROVE  q \in heap'[GroupOf[q]] /\ dispatcher'[GroupOf[q]] # "none"
      <3>1. GroupOf[q] \in Groups
        BY PacingAssumption
      <3> QED  BY <1>1, <2>1, <2>3, <3>1 DEF Enqueue, QueueInv, TypeInv, TypeOK, NoStrandedRequest
    <2> QED  BY <2>2, <2>3 DEF NoStrandedRequest
  <1>2. CASE /\ Finish(r, "lost") \/ Finish(r, "timeout")
             /\ UNCHANGED <<heap, dispatcher>>
    BY <1>2, FinishKeepsQueue
  <1> QED  BY <1>1, <1>2 DEF WaitTurn

\* A run of the dispatcher keeps every entry it does not grant, and sleeps
\* rather than return while one is left.
LEMMA DispatchKeepsQueue ==
    ASSUME QueueInv, NEW g \in Groups, NEW k \in 0..Len(granted[g]), DispatchAfter(g, k)
    PROVE  HeapOfGroup' /\ NoStrandedRequest'
  <1> DEFINE w == SubSeq(granted[g], k + 1, Len(granted[g]))
             n == Burst(g, w)
             left == Live(g) \ FirstOf(g, n)
  <1>1. /\ phase' = [r \in Requests |-> IF r \in FirstOf(g, n) THEN "granted" ELSE phase[r]]
        /\ heap' = [heap EXCEPT ![g] = {r \in @ : \E s \in left : r = s \/ Before(s, r)}]
        /\ \/ left = {} /\ dispatcher' = [dispatcher EXCEPT ![g] = "none"]
           \/ left # {} /\ dispatcher' = [dispatcher EXCEPT ![g] = "asleep"]
    BY DEF DispatchAfter
  <1> HIDE DEF w, n
  <1>2. HeapOfGroup'
    BY <1>1 DEF QueueInv, TypeInv, TypeOK, HeapOfGroup
  <1>3. ASSUME NEW r \in Requests, phase'[r] = "queued"
        PROVE  r \in heap'[GroupOf[r]] /\ dispatcher'[GroupOf[r]] # "none"
    <2>1. r \notin FirstOf(g, n) /\ phase[r] = "queued" /\ GroupOf[r] \in Groups
      BY <1>1, <1>3, PacingAssumption
    <2>2. r \in heap[GroupOf[r]] /\ dispatcher[GroupOf[r]] # "none"
      BY <2>1 DEF QueueInv, NoStrandedRequest
    <2>3. CASE GroupOf[r] = g
      <3>1. r \in left
        BY <2>1, <2>2, <2>3 DEF Live
      <3> QED  BY <1>1, <2>2, <2>3, <3>1 DEF QueueInv, TypeInv, TypeOK
    <2>4. CASE GroupOf[r] # g
      BY <1>1, <2>1, <2>2, <2>4 DEF QueueInv, TypeInv, TypeOK
    <2> QED  BY <2>3, <2>4
  <1> QED  BY <1>2, <1>3 DEF NoStrandedRequest

\* Every operation keeps queued entries in their heap with a dispatcher to come.
LEMMA QueueStep ==
    ASSUME QueueInv, [Next]_vars
    PROVE  QueueInv'
  <1>1. TypeInv'
    BY TypeStep DEF QueueInv
  <1> SUFFICES HeapOfGroup' /\ NoStrandedRequest'
    BY <1>1 DEF QueueInv
  <1>2. ASSUME NEW r \in Requests, Submit(r) PROVE HeapOfGroup' /\ NoStrandedRequest'
    BY <1>2, WaitTurnKeepsQueue DEF Submit
  <1>3. ASSUME NEW r \in Requests,
               QueueTimesOut(r) \/ Cancel(r) \/ ResumeFailed(r) \/ Answer(r)
        PROVE HeapOfGroup' /\ NoStrandedRequest'
    BY <1>3, FinishKeepsQueue DEF QueueTimesOut, Cancel, ResumeFailed, Answer, groupVars
  <1>4. ASSUME NEW r \in Requests, ResumeGranted(r) PROVE HeapOfGroup' /\ NoStrandedRequest'
    BY <1>4 DEF ResumeGranted, groupVars, QueueInv, TypeInv, TypeOK, HeapOfGroup,
                NoStrandedRequest
  <1>5. ASSUME NEW r \in Requests, NEW retryAfter \in RetryAfters, Refuse(r, retryAfter)
        PROVE HeapOfGroup' /\ NoStrandedRequest'
    <2>1. waited[r] \in Nat
      BY DEF QueueInv, TypeInv, TypeOK
    <2> QED  BY <1>5, <2>1, WaitTurnKeepsQueue, FinishKeepsQueue DEF Refuse
  <1>6. ASSUME NEW g \in Groups, Dispatch(g) PROVE HeapOfGroup' /\ NoStrandedRequest'
    <2>1. CASE DispatchNothing(g)
      <3>1. HeapOfGroup'
        BY <2>1 DEF DispatchNothing, QueueInv, TypeInv, TypeOK, HeapOfGroup
      <3>2. ASSUME NEW r \in Requests, phase[r] = "queued"
            PROVE  /\ GroupOf[r] \in Groups /\ GroupOf[r] # g
                   /\ r \in heap[GroupOf[r]] /\ dispatcher[GroupOf[r]] # "none"
        BY <2>1, <3>2, PacingAssumption DEF DispatchNothing, Live, QueueInv, NoStrandedRequest
      <3>3. NoStrandedRequest'
        BY <2>1, <3>2 DEF DispatchNothing, QueueInv, TypeInv, TypeOK, NoStrandedRequest
      <3> QED  BY <3>1, <3>3
    <2> QED  BY <1>6, <2>1, DispatchKeepsQueue DEF Dispatch
  <1>7. ASSUME FailAll PROVE HeapOfGroup' /\ NoStrandedRequest'
    <2>1. HeapOfGroup'
      BY <1>7 DEF FailAll, HeapOfGroup
    <2>2. ASSUME NEW r \in Requests PROVE phase'[r] # "queued"
      BY <1>7, PacingAssumption DEF FailAll, Live, QueueInv, NoStrandedRequest
    <2> QED  BY <2>1, <2>2 DEF NoStrandedRequest
  <1>8. ASSUME Reset PROVE HeapOfGroup' /\ NoStrandedRequest'
    BY <1>8, PacingAssumption DEF Reset, callVars, QueueInv, HeapOfGroup, NoStrandedRequest
  <1>9. ASSUME Tick \/ UNCHANGED vars PROVE HeapOfGroup' /\ NoStrandedRequest'
    BY <1>9 DEF Tick, vars, callVars, groupVars, QueueInv, HeapOfGroup, NoStrandedRequest
  <1> QED  BY <1>2, <1>3, <1>4, <1>5, <1>6, <1>7, <1>8, <1>9 DEF Next

\* Whatever the dispatchers, the connection and the callers do, a waiting request
\* is in its group's heap and that group has a dispatcher.
THEOREM NothingStranded == Spec => []NoStrandedRequest
  <1>1. Init => QueueInv
    BY TypeInit DEF Init, QueueInv, HeapOfGroup, NoStrandedRequest
  <1>2. QueueInv => NoStrandedRequest
    BY DEF QueueInv
  <1> QED  BY <1>1, <1>2, QueueStep, PTL DEF Spec

-----------------------------------------------------------------------------
(* The window *)

\* What the dispatcher remembers is the tail of what it granted, and everything
\* it has forgotten left the window.
RememberedTail(g) ==
    LET forgotten == Len(log[g]) - Len(granted[g]) IN
    /\ forgotten >= 0
    /\ \A i \in 1..Len(granted[g]) : granted[g][i] = log[g][forgotten + i]
    /\ \A i \in 1..forgotten : log[g][i] + Window <= now

\* WindowLimit of one group.
GroupWindow(g) ==
    \A i \in 1..Len(log[g]) :
        i + Limit[g] <= Len(log[g]) => log[g][i] + Window <= log[g][i + Limit[g]]

WindowInv == TypeInv /\ \A g \in Groups : RememberedTail(g) /\ GroupWindow(g)

\* The grants of one run keep the window: the dispatcher has room for n more only
\* if the grant Limit[g] before each of them is one it has forgotten.
LEMMA DispatchKeepsWindow ==
    ASSUME WindowInv, NEW g \in Groups, NEW k \in 0..Len(granted[g]), Expired(g, k),
           DispatchAfter(g, k), UNCHANGED now
    PROVE  RememberedTail(g)' /\ GroupWindow(g)'
  <1> DEFINE s == granted[g]
             l == log[g]
             w == SubSeq(s, k + 1, Len(s))
             n == Burst(g, w)
             forgotten == Len(l) - Len(s)
  <1>1. /\ now \in Nat /\ Window \in Nat /\ Limit[g] \in Nat \ {0}
        /\ s \in Seq(Nat) /\ l \in Seq(Nat) /\ k \in Nat /\ k <= Len(s)
        /\ Len(s) \in Nat /\ Len(l) \in Nat
    BY PacingAssumption DEF WindowInv, TypeInv, TypeOK
  <1>2. /\ w \in Seq(Nat) /\ Len(w) = Len(s) - k
        /\ \A i \in 1..Len(w) : w[i] = s[k + i]
        /\ Len(w) > 0 => w[1] + Window > now
    BY InWindowType DEF WindowInv, TypeInv
  <1>3. n \in Nat /\ (n > 0 => Len(w) + n <= Limit[g])
    BY <1>2, BurstType DEF WindowInv, TypeInv
  <1>4. /\ Times(n) \in Seq(Nat) /\ Len(Times(n)) = n
        /\ \A i \in 1..n : Times(n)[i] = now
    BY <1>1, <1>3, TimesType
  <1>5. granted'[g] = w \o Times(n) /\ log'[g] = l \o Times(n)
    BY DEF DispatchAfter, WindowInv, TypeInv, TypeOK
  <1>6. /\ forgotten >= 0
        /\ \A i \in 1..Len(s) : s[i] = l[forgotten + i]
        /\ \A i \in 1..forgotten : l[i] + Window <= now
        /\ \A i \in 1..Len(l) : i + Limit[g] <= Len(l) => l[i] + Window <= l[i + Limit[g]]
    BY DEF WindowInv, RememberedTail, GroupWindow
  <1>7. \A i \in 1..k : s[i] + Window <= now
    BY DEF Expired, LeftWindow
  <1> HIDE DEF s, l, w, n
  <1>8. /\ Len(granted'[g]) = Len(s) - k + n
        /\ Len(log'[g]) = Len(l) + n
        /\ \A i \in 1..Len(l) : log'[g][i] = l[i]
        /\ \A i \in 1..n : log'[g][Len(l) + i] = now
        /\ \A i \in 1..(Len(s) - k) : granted'[g][i] = s[k + i]
        /\ \A i \in 1..n : granted'[g][Len(s) - k + i] = now
    <2> DEFINE t == Times(n)
    <2>0. t \in Seq(Nat) /\ Len(t) = n
      BY <1>4
    <2>1. /\ Len(w \o t) = Len(w) + n
          /\ Len(l \o t) = Len(l) + n
      <3> HIDE DEF t
      <3> QED  BY <1>1, <1>2, <2>0, ConcatProperties
    <2>2. /\ \A i \in 1..Len(l) : (l \o Times(n))[i] = l[i]
          /\ \A i \in 1..n : (l \o Times(n))[Len(l) + i] = Times(n)[i]
      BY <1>1, <1>3, <1>4
    <2>3. /\ \A i \in 1..Len(w) : (w \o Times(n))[i] = w[i]
          /\ \A i \in 1..n : (w \o Times(n))[Len(w) + i] = Times(n)[i]
      BY <1>1, <1>2, <1>3, <1>4, SMTT(30)
    <2> QED  BY <1>2, <1>4, <1>5, <2>1, <2>2, <2>3
  \* The k just dropped join the forgotten ones.
  <1>9. \A i \in 1..(forgotten + k) : l[i] + Window <= now
    <2>1. SUFFICES ASSUME NEW i \in (forgotten + 1)..(forgotten + k)
                   PROVE  l[i] + Window <= now
      BY <1>1, <1>6
    <2>2. i - forgotten \in 1..k /\ i - forgotten \in 1..Len(s)
      BY <1>1
    <2>3. s[i - forgotten] = l[forgotten + (i - forgotten)]
      BY <1>6, <2>2
    <2>4. forgotten + (i - forgotten) = i
      BY <1>1
    <2> QED  BY <1>7, <2>2, <2>3, <2>4
  <1>10. RememberedTail(g)'
    <2>1. Len(log'[g]) - Len(granted'[g]) = forgotten + k
      BY <1>1, <1>3, <1>8
    <2>2. forgotten + k >= 0
      BY <1>1, <1>6
    <2>3. ASSUME NEW i \in 1..Len(granted'[g])
          PROVE  granted'[g][i] = log'[g][forgotten + k + i]
      <3>1. CASE i <= Len(s) - k
        <4>1. k + i \in 1..Len(s) /\ forgotten + (k + i) \in 1..Len(l)
          BY <1>1, <1>6, <3>1
        <4>2. granted'[g][i] = s[k + i] /\ s[k + i] = l[forgotten + (k + i)]
          BY <1>1, <1>6, <1>8, <3>1, <4>1
        <4>3. log'[g][forgotten + (k + i)] = l[forgotten + (k + i)]
          BY <1>8, <4>1
        <4>4. forgotten + (k + i) = forgotten + k + i
          BY <1>1
        <4> QED  BY <4>2, <4>3, <4>4
      <3>2. CASE i > Len(s) - k
        <4> DEFINE j == i - (Len(s) - k)
        <4>1. j \in 1..n
          BY <1>1, <1>3, <1>8, <3>2
        <4>2. i = Len(s) - k + j /\ forgotten + k + i = Len(l) + j
          BY <1>1
        <4>3. granted'[g][Len(s) - k + j] = now /\ log'[g][Len(l) + j] = now
          BY <1>8, <4>1
        <4> QED  BY <4>2, <4>3
      <3> QED  BY <1>1, <3>1, <3>2
    <2>4. ASSUME NEW i \in 1..(forgotten + k) PROVE log'[g][i] + Window <= now
      <3>1. i \in 1..Len(l)
        BY <1>1
      <3> QED  BY <1>8, <1>9, <3>1
    <2> QED  BY <2>1, <2>2, <2>3, <2>4 DEF RememberedTail
  <1>11. GroupWindow(g)'
    <2>1. SUFFICES ASSUME NEW i \in 1..Len(log'[g]), i + Limit[g] <= Len(log'[g])
                   PROVE  log'[g][i] + Window <= log'[g][i + Limit[g]]
      BY DEF GroupWindow
    <2>2. CASE i + Limit[g] <= Len(l)
      <3>1. i \in 1..Len(l) /\ i + Limit[g] \in 1..Len(l)
        BY <1>1, <2>2
      <3> QED  BY <1>6, <1>8, <2>2, <3>1
    <2>3. CASE i + Limit[g] > Len(l)
      <3> DEFINE j == i + Limit[g] - Len(l)
      <3>0. i \in Nat /\ i >= 1 /\ i + Limit[g] <= Len(l) + n
        BY <1>1, <1>3, <1>8, <2>1
      <3>1. j \in 1..n /\ n > 0
        BY <1>1, <1>3, <2>3, <3>0, SMTT(30)
      <3>2. log'[g][i + Limit[g]] = now
        <4>1. log'[g][Len(l) + j] = now
          BY <1>8, <3>1
        <4>2. Len(l) + j = i + Limit[g]
          BY <1>1
        <4> QED  BY <4>1, <4>2
      <3>3. i \in 1..(forgotten + k) /\ i \in 1..Len(l)
        <4>1. Len(s) - k + n <= Limit[g]
          BY <1>1, <1>2, <1>3, <3>1
        <4> QED  BY <1>1, <1>3, <3>0, <4>1, SMTT(30)
      <3> QED  BY <1>8, <1>9, <3>2, <3>3
    <2> QED  BY <1>1, <2>2, <2>3
  <1> QED  BY <1>10, <1>11

\* A step that leaves the grants alone, or starts them afresh, keeps the window.
LEMMA WindowUndisturbed ==
    ASSUME WindowInv, NEW g \in Groups, granted'[g] = granted[g], log'[g] = log[g],
           now' \in Nat, now' >= now
    PROVE  RememberedTail(g)' /\ GroupWindow(g)'
  <1>1. RememberedTail(g) /\ GroupWindow(g)
    BY DEF WindowInv
  <1>2. /\ now \in Nat /\ Window \in Nat
        /\ log[g] \in Seq(Nat) /\ Len(log[g]) \in Nat /\ Len(granted[g]) \in Nat
    BY PacingAssumption DEF WindowInv, TypeInv, TypeOK
  <1>3. GroupWindow(g)'
    BY <1>1 DEF GroupWindow
  <1>4. ASSUME NEW i \in 1..(Len(log[g]) - Len(granted[g]))
        PROVE  log[g][i] + Window <= now'
    <2>1. i \in 1..Len(log[g])
      BY <1>2
    <2>2. log[g][i] \in Nat
      BY <1>2, <2>1
    <2>3. log[g][i] + Window <= now
      BY <1>1 DEF RememberedTail
    <2> QED  BY <1>2, <2>2, <2>3, SMTT(30)
  <1>5. RememberedTail(g)'
    BY <1>1, <1>4 DEF RememberedTail
  <1> QED  BY <1>3, <1>5

\* Every operation keeps the remembered grants the tail of all grants, and spaced.
LEMMA WindowStep ==
    ASSUME WindowInv, [Next]_vars
    PROVE  WindowInv'
  <1>1. TypeInv'
    BY TypeStep DEF WindowInv
  <1>2. SUFFICES ASSUME NEW h \in Groups PROVE RememberedTail(h)' /\ GroupWindow(h)'
    BY <1>1 DEF WindowInv
  <1>3. now \in Nat
    BY DEF WindowInv, TypeInv, TypeOK
  <1>4. ASSUME granted' = granted, log' = log, now' = now \/ now' = now + 1
        PROVE  RememberedTail(h)' /\ GroupWindow(h)'
    BY <1>3, <1>4, WindowUndisturbed
  <1>5. ASSUME NEW r \in Requests,
               \/ Submit(r) \/ QueueTimesOut(r) \/ Cancel(r)
               \/ ResumeFailed(r) \/ ResumeGranted(r) \/ Answer(r)
        PROVE  RememberedTail(h)' /\ GroupWindow(h)'
    BY <1>4, <1>5 DEF Submit, QueueTimesOut, Cancel, ResumeFailed, ResumeGranted, Answer, groupVars
  <1>6. ASSUME NEW r \in Requests, NEW retryAfter \in RetryAfters, Refuse(r, retryAfter)
        PROVE  RememberedTail(h)' /\ GroupWindow(h)'
    BY <1>4, <1>6 DEF Refuse
  <1>7. ASSUME NEW g \in Groups, Dispatch(g)
        PROVE  RememberedTail(h)' /\ GroupWindow(h)'
    <2>1. CASE DispatchNothing(g)
      BY <1>4, <1>7, <2>1 DEF Dispatch, DispatchNothing
    <2>2. ASSUME NEW k \in 0..Len(granted[g]), Expired(g, k), DispatchAfter(g, k)
          PROVE  RememberedTail(h)' /\ GroupWindow(h)'
      <3>1. UNCHANGED now
        BY <1>7 DEF Dispatch
      <3>2. CASE h = g
        BY <2>2, <3>1, <3>2, DispatchKeepsWindow
      <3>3. CASE h # g
        <4>1. granted'[h] = granted[h] /\ log'[h] = log[h]
          BY <2>2, <3>3 DEF DispatchAfter, WindowInv, TypeInv, TypeOK
        <4> QED  BY <1>3, <3>1, <4>1, WindowUndisturbed
      <3> QED  BY <3>2, <3>3
    <2> QED  BY <1>7, <2>1, <2>2 DEF Dispatch
  <1>8. ASSUME FailAll \/ Tick \/ UNCHANGED vars
        PROVE  RememberedTail(h)' /\ GroupWindow(h)'
    BY <1>4, <1>8 DEF FailAll, Tick, vars, callVars, groupVars
  <1>9. ASSUME Reset PROVE RememberedTail(h)' /\ GroupWindow(h)'
    <2>1. granted'[h] = <<>> /\ log'[h] = <<>>
      BY <1>9 DEF Reset
    <2> QED  BY <2>1 DEF RememberedTail, GroupWindow
  <1> QED  BY <1>5, <1>6, <1>7, <1>8, <1>9 DEF Next

\* However requests, refusals, resends, cancellations, losses and resets
\* interleave, no group is granted more than its limit within a window.
THEOREM WindowKept == Spec => []WindowLimit
  <1>1. Init => WindowInv
    BY TypeInit DEF Init, WindowInv, RememberedTail, GroupWindow
  <1>2. WindowInv => WindowLimit
    BY DEF WindowInv, GroupWindow, WindowLimit
  <1> QED  BY <1>1, <1>2, WindowStep, PTL DEF Spec

-----------------------------------------------------------------------------
(* No resend *)

\* A call that still runs has met no more refusals than it may be resent after.
ResendInv ==
    /\ TypeInv
    /\ \A r \in Requests :
          /\ attempt[r] <= RetriesOf(GroupOf[r]) + 1
          /\ phase[r] # "done" => attempt[r] <= RetriesOf(GroupOf[r])

\* Every operation keeps the count of refusals within the retries of the group.
LEMMA ResendStep ==
    ASSUME ResendInv, [Next]_vars
    PROVE  ResendInv'
  <1>1. TypeInv'
    BY TypeStep DEF ResendInv
  <1>2. \A r \in Requests : RetriesOf(GroupOf[r]) \in Nat /\ attempt[r] \in Nat
    BY PacingAssumption DEF RetriesOf, ResendInv, TypeInv, TypeOK
  <1>3. SUFFICES ASSUME NEW q \in Requests
                 PROVE  /\ attempt'[q] <= RetriesOf(GroupOf[q]) + 1
                        /\ phase'[q] # "done" => attempt'[q] <= RetriesOf(GroupOf[q])
    BY <1>1 DEF ResendInv, RetriesOf
  <1>4. ASSUME attempt' = attempt, phase[q] = "done" => phase'[q] = "done"
        PROVE  /\ attempt'[q] <= RetriesOf(GroupOf[q]) + 1
               /\ phase'[q] # "done" => attempt'[q] <= RetriesOf(GroupOf[q])
    BY <1>4 DEF ResendInv
  <1>5. ASSUME NEW r \in Requests, Submit(r)
        PROVE  attempt' = attempt /\ (phase[q] = "done" => phase'[q] = "done")
    BY <1>5 DEF Submit, WaitTurn, Finish, Enqueue, ResendInv, TypeInv, TypeOK
  <1>6. ASSUME NEW r \in Requests,
               \/ QueueTimesOut(r) \/ Cancel(r) \/ ResumeFailed(r) \/ ResumeGranted(r)
               \/ Answer(r)
        PROVE  attempt' = attempt /\ (phase[q] = "done" => phase'[q] = "done")
    BY <1>6 DEF QueueTimesOut, Cancel, ResumeFailed, ResumeGranted, Answer, Finish, ResendInv,
                TypeInv, TypeOK
  <1>7. ASSUME NEW r \in Requests, NEW retryAfter \in RetryAfters, Refuse(r, retryAfter)
        PROVE  /\ attempt'[q] <= RetriesOf(GroupOf[q]) + 1
               /\ phase'[q] # "done" => attempt'[q] <= RetriesOf(GroupOf[q])
    <2>1. attempt' = [attempt EXCEPT ![r] = @ + 1] /\ phase[r] = "sending"
      BY <1>7 DEF Refuse
    <2>2. attempt[r] <= RetriesOf(GroupOf[r])
      BY <2>1 DEF ResendInv
    <2>3. CASE attempt[r] + 1 <= RetriesOf(GroupOf[r]) /\ WaitTurn(r, waited[r])
      <3>1. q # r => phase'[q] = phase[q]
        BY <2>3 DEF WaitTurn, Finish, Enqueue, ResendInv, TypeInv, TypeOK
      <3> QED  BY <1>2, <2>1, <2>3, <3>1 DEF ResendInv, TypeInv, TypeOK
    <2>4. CASE Finish(r, "refused")
      BY <1>2, <2>1, <2>2, <2>4 DEF Finish, ResendInv, TypeInv, TypeOK
    <2> QED  BY <1>7, <2>3, <2>4 DEF Refuse
  <1>8. ASSUME NEW g \in Groups, Dispatch(g)
        PROVE  attempt' = attempt /\ (phase[q] = "done" => phase'[q] = "done")
    BY <1>8 DEF Dispatch, DispatchNothing, DispatchAfter, FirstOf, Live
  <1>9. ASSUME FailAll
        PROVE  attempt' = attempt /\ (phase[q] = "done" => phase'[q] = "done")
    BY <1>9 DEF FailAll, Live
  <1>10. ASSUME Reset \/ Tick \/ UNCHANGED vars
         PROVE  attempt' = attempt /\ (phase[q] = "done" => phase'[q] = "done")
    BY <1>10 DEF Reset, Tick, vars, callVars
  <1> QED  BY <1>4, <1>5, <1>6, <1>7, <1>8, <1>9, <1>10 DEF Next

\* No order request is ever handed to the venue a second time, and a historical
\* one only as often as the pacing allows.
THEOREM NoSecondSend == Spec => []NeverResent
  <1>1. Init => ResendInv
    <2> SUFFICES ASSUME Init PROVE ResendInv
      OBVIOUS
    <2>1. \A r \in Requests : RetriesOf(GroupOf[r]) \in Nat /\ attempt[r] = 0
      BY PacingAssumption DEF RetriesOf, Init
    <2> QED  BY <2>1, TypeInit DEF ResendInv
  <1>2. ResendInv => NeverResent
    BY DEF ResendInv, NeverResent, RetriesOf, TypeInv, TypeOK
  <1> QED  BY <1>1, <1>2, ResendStep, PTL DEF Spec

-----------------------------------------------------------------------------
(* Pauses *)

\* A run of the dispatcher grants nothing before the group's pause is over.
LEMMA DispatchHonoursPause ==
    ASSUME QueueInv, NEW g \in Groups, Dispatch(g), NEW r \in Requests,
           phase[r] = "queued", phase'[r] = "granted"
    PROVE  GroupOf[r] = g /\ now >= pausedUntil[g]
  <1>1. TypeOK /\ now \in Nat /\ pausedUntil[g] \in Nat
    BY DEF QueueInv, TypeInv, TypeOK
  <1>2. ~DispatchNothing(g)
    BY DEF DispatchNothing
  <1>3. PICK k \in 0..Len(granted[g]) : Expired(g, k) /\ DispatchAfter(g, k)
    BY <1>2 DEF Dispatch
  <1> DEFINE w == SubSeq(granted[g], k + 1, Len(granted[g]))
             n == Burst(g, w)
  <1>4. phase' = [q \in Requests |-> IF q \in FirstOf(g, n) THEN "granted" ELSE phase[q]]
    BY <1>3 DEF DispatchAfter
  <1>5. w \in Seq(Nat) /\ (Len(w) > 0 => w[1] + Window > now)
    BY <1>1, <1>3, InWindowType
  <1>6. n \in Nat /\ (n > 0 => pausedUntil[g] <= now)
    BY <1>1, <1>5, BurstType
  <1> HIDE DEF w, n
  <1>7. r \in FirstOf(g, n)
    BY <1>4
  <1>8. GroupOf[r] = g
    BY <1>7 DEF FirstOf, Live, QueueInv, HeapOfGroup
  <1>9. n # 0
    BY <1>1, <1>7, FirstOfNone
  <1> QED  BY <1>1, <1>6, <1>8, <1>9

\* A pause only ever grows until the connection is replaced, and no request of a
\* paused group is granted, a refusal met while the dispatcher sleeps included.
THEOREM PausesKept == Spec => PauseHonoured
  <1> DEFINE Kept == \A g \in Groups, r \in Requests :
                 /\ pausedUntil'[g] < pausedUntil[g] => pausedUntil'[g] = 0 /\ log'[g] = <<>>
                 /\ phase[r] = "queued" /\ phase'[r] = "granted" /\ GroupOf[r] = g
                       => now >= pausedUntil[g]
  <1>1. ASSUME QueueInv, [Next]_vars PROVE [Kept]_vars
    <2> SUFFICES ASSUME Next, NEW g \in Groups, NEW r \in Requests
                 PROVE  /\ pausedUntil'[g] < pausedUntil[g]
                              => pausedUntil'[g] = 0 /\ log'[g] = <<>>
                        /\ phase[r] = "queued" /\ phase'[r] = "granted" /\ GroupOf[r] = g
                              => now >= pausedUntil[g]
      BY <1>1
    <2>1. pausedUntil \in [Groups -> Nat] /\ phase \in [Requests -> Phases] /\ now \in Nat
      BY <1>1 DEF QueueInv, TypeInv, TypeOK
    <2>2. CASE \E h \in Groups : Dispatch(h)
      <3>1. pausedUntil' = pausedUntil
        BY <2>2 DEF Dispatch
      <3> QED  BY <1>1, <2>1, <2>2, <3>1, DispatchHonoursPause
    <2>3. ASSUME NEW q \in Requests, NEW retryAfter \in RetryAfters, Refuse(q, retryAfter)
          PROVE  /\ ~(pausedUntil'[g] < pausedUntil[g])
                 /\ phase'[r] = "granted" => phase[r] = "granted"
      <3>1. GroupOf[q] \in Groups /\ PauseAfter(q, retryAfter) \in Nat
        BY <2>1, PacingAssumption, BoundAssumption DEF PauseAfter, LargerOf, SmallerOf
      <3>2. PauseAfter(q, retryAfter) >= pausedUntil[GroupOf[q]]
        BY <2>1, <3>1, PacingAssumption, BoundAssumption DEF PauseAfter, LargerOf, SmallerOf
      <3>3. ~(pausedUntil'[g] < pausedUntil[g])
        BY <2>1, <2>3, <3>1, <3>2 DEF Refuse
      <3>4. phase'[r] = "granted" => phase[r] = "granted"
        BY <2>1, <2>3 DEF Refuse, WaitTurn, Enqueue, Finish
      <3> QED  BY <3>3, <3>4
    <2>4. ASSUME NEW q \in Requests,
                 \/ Submit(q) \/ QueueTimesOut(q) \/ Cancel(q)
                 \/ ResumeFailed(q) \/ ResumeGranted(q) \/ Answer(q)
          PROVE  /\ ~(pausedUntil'[g] < pausedUntil[g])
                 /\ phase'[r] = "granted" => phase[r] = "granted"
      BY <2>1, <2>4 DEF Submit, QueueTimesOut, Cancel, ResumeFailed, ResumeGranted, Answer,
                        WaitTurn, Enqueue, Finish, groupVars
    <2>5. CASE FailAll
      BY <2>1, <2>5 DEF FailAll
    <2>6. CASE Reset
      BY <2>1, <2>6 DEF Reset, callVars
    <2>7. CASE Tick
      BY <2>1, <2>7 DEF Tick, callVars, groupVars
    <2> QED  BY <2>2, <2>3, <2>4, <2>5, <2>6, <2>7 DEF Next
  <1>2. Init => QueueInv
    BY TypeInit DEF Init, QueueInv, HeapOfGroup, NoStrandedRequest
  <1> QED  BY <1>1, <1>2, QueueStep, PTL DEF Spec, PauseHonoured

=============================================================================
