------------------------- MODULE SubscriptionsProofs -------------------------
(***************************************************************************)
(* Proofs about Subscriptions, for any consumers, any number of calls in   *)
(* progress at once and any number of bring-ups: what is counted is what   *)
(* the session restores, is streamed or known not to be, and whoever is    *)
(* counted can be released.                                                *)
(*                                                                         *)
(* The restores follow the counts step by step.  The intents do not: that  *)
(* a call which ends never forgets the intent of another that is still to  *)
(* count rests on _intents[c].pending being the number of the consumer's   *)
(* subscribe calls in progress.                                            *)
(*                                                                         *)
(* That a counted key is live, or known not to be, rests on the locks:     *)
(* whoever joins a key holds its lock, and a bar consumer that of the bars *)
(* over its spot leg, so nobody joins a key while its last unsubscribe is  *)
(* on its way.                                                             *)
(***************************************************************************)
EXTENDS Subscriptions, TLAPS, FiniteSetTheorems, SequenceTheorems, WellFoundedInduction

-----------------------------------------------------------------------------
(* The inductive invariant *)

IntentType == [wanted : BOOLEAN, pending : Nat, held : BOOLEAN]
CallType ==
    [op : {"none", "subscribe", "unsubscribe"}, who : Consumers \cup {"none"},
     pc : {"idle", "wantBars", "wantSpots", "undoSpots", "subSpots", "subBars", "unsubBars",
           "unsubSpots"},
     cut : BOOLEAN]

RegistryShape ==
    /\ consumers \in [Keys -> SUBSET Consumers]
    /\ intents \in [Consumers -> IntentType]
    /\ calls \in [Calls -> CallType]

\* A call in progress has its consumer, and only a subscribe sends a subscribe request.
CallsInOrder ==
    \A p \in Calls :
        /\ calls[p].pc # "idle" => calls[p].op # "none" /\ calls[p].who \in Consumers
        /\ calls[p].pc = "idle" => calls[p].op = "none"
        /\ calls[p].pc \in {"subSpots", "subBars"} => calls[p].op = "subscribe"

\* The subscribe calls of a consumer in progress, and the count that _intents keeps of them.
Subscribers(c) == {p \in Calls : calls[p].op = "subscribe" /\ calls[p].who = c}
PendingCounted == \A c \in Consumers : intents[c].pending = Cardinality(Subscribers(c))

RegistryInv ==
    /\ RegistryShape /\ CallsInOrder /\ PendingCounted
    /\ RestoresAreCounted /\ CountedIsHeld

-----------------------------------------------------------------------------
(* Calls and their count *)

LEMMA NoIntentTyped == NoIntent \in IntentType /\ NoIntent.pending = 0
BY DEF NoIntent, IntentType

LEMMA NoCallTyped ==
    NoCall \in CallType /\ NoCall.op = "none" /\ NoCall.pc = "idle"
BY DEF NoCall, CallType

LEMMA SubscribersFinite ==
    ASSUME NEW c PROVE IsFiniteSet(Subscribers(c)) /\ Cardinality(Subscribers(c)) \in Nat
<1>1. Subscribers(c) \subseteq Calls
    BY DEF Subscribers
<1> QED
    BY <1>1, SubscriptionsAssumption, FS_Subset, FS_CardinalityType

\* A call of another kind or of another consumer is none of c's subscribe calls.
LEMMA SubscriberPending ==
    ASSUME RegistryShape, PendingCounted, NEW p \in Calls, NEW c \in Consumers,
           calls[p].op = "subscribe", calls[p].who = c
    PROVE  intents[c].pending > 0 /\ Cardinality(Subscribers(c) \ {p}) = intents[c].pending - 1
<1>1. p \in Subscribers(c)
    BY DEF Subscribers
<1>2. intents[c].pending = Cardinality(Subscribers(c))
    BY DEF PendingCounted
<1>3. Cardinality(Subscribers(c) \ {p}) = Cardinality(Subscribers(c)) - 1
    BY <1>1, SubscribersFinite, FS_RemoveElement
<1>4. IsFiniteSet(Subscribers(c) \ {p})
    BY SubscribersFinite, FS_Subset
<1>5. Cardinality(Subscribers(c) \ {p}) \in Nat
    BY <1>4, FS_CardinalityType
<1>6. Cardinality(Subscribers(c)) \in Nat
    BY SubscribersFinite
<1> QED
    BY <1>2, <1>3, <1>5, <1>6

\* A call ends: its intent keeps the count of the others, and is held while any of them
\* or a counted leg is left.
LEMMA EndEffect ==
    ASSUME RegistryShape, CallsInOrder, PendingCounted,
           NEW p \in Calls, calls[p].pc # "idle", EndCall(p)
    PROVE  /\ calls' \in [Calls -> CallType] /\ intents' \in [Consumers -> IntentType]
           /\ CallsInOrder' /\ PendingCounted'
           /\ \A c \in Consumers :
                 /\ intents'[c].pending > 0 => intents[c].pending > 0
                 /\ intents'[c].pending > 0 \/ CountedIn(consumers', c)
                       => intents'[c].held = intents[c].held
<1>2. PICK w \in Consumers : w = calls[p].who
    BY DEF CallsInOrder
<1> DEFINE fewer == IF calls[p].op = "subscribe" THEN 1 ELSE 0
<1>1. calls' = [calls EXCEPT ![p] = NoCall] /\ SettleIntent(w, fewer, consumers')
    BY <1>2 DEF EndCall
<1>3. /\ calls' \in [Calls -> CallType] /\ calls'[p] = NoCall
      /\ \A q \in Calls : q # p => calls'[q] = calls[q]
    BY <1>1, NoCallTyped DEF RegistryShape
<1>4. CallsInOrder'
    BY <1>3, NoCallTyped DEF CallsInOrder
<1>5. \A c \in Consumers : intents[c] \in IntentType /\ intents[c].pending \in Nat
    BY DEF RegistryShape, IntentType
<1>6. /\ fewer \in {0, 1} /\ intents[w].pending - fewer \in Nat
      /\ Cardinality(Subscribers(w)') = intents[w].pending - fewer
    <2>1. CASE calls[p].op = "subscribe"
        <3>1. Subscribers(w)' = Subscribers(w) \ {p}
            BY <1>2, <1>3, NoCallTyped DEF Subscribers
        <3>2. intents[w].pending > 0 /\ Cardinality(Subscribers(w) \ {p}) = intents[w].pending - 1
            BY <1>2, <2>1, SubscriberPending
        <3> QED
            BY <1>2, <1>5, <2>1, <3>1, <3>2
    <2>2. CASE calls[p].op # "subscribe"
        <3>1. Subscribers(w)' = Subscribers(w)
            BY <1>3, <2>2, NoCallTyped DEF Subscribers
        <3>2. intents[w].pending = Cardinality(Subscribers(w))
            BY <1>2 DEF PendingCounted
        <3> QED
            BY <1>2, <1>5, <2>2, <3>1, <3>2
    <2> QED
        BY <2>1, <2>2
<1>7. \A c \in Consumers : c # w => Subscribers(c)' = Subscribers(c)
    BY <1>2, <1>3, NoCallTyped DEF Subscribers
<1> DEFINE left == intents[w].pending - fewer
           kept == [intents[w] EXCEPT !.pending = left]
<1>8. /\ kept \in IntentType /\ kept.pending = left /\ kept.held = intents[w].held
    <2>1. intents[w] \in IntentType /\ left \in Nat
        BY <1>2, <1>5, <1>6
    <2> HIDE DEF left
    <2> QED
        BY <2>1 DEF IntentType
<1>9. intents' = [intents EXCEPT ![w] = IF left > 0 \/ CountedIn(consumers', w) THEN kept ELSE NoIntent]
    BY <1>1 DEF SettleIntent
<1>10. left \in Nat /\ left <= intents[w].pending /\ intents[w].pending \in Nat
    BY <1>2, <1>5, <1>6
<1> HIDE DEF kept, left, fewer
<1>11. /\ intents'[w] = IF left > 0 \/ CountedIn(consumers', w) THEN kept ELSE NoIntent
       /\ \A c \in Consumers : c # w => intents'[c] = intents[c]
    BY <1>2, <1>9 DEF RegistryShape
<1>12. intents'[w].pending = left /\ intents'[w] \in IntentType
    BY <1>8, <1>10, <1>11, NoIntentTyped
<1>13. intents' \in [Consumers -> IntentType]
    BY <1>2, <1>8, <1>9, NoIntentTyped DEF RegistryShape
<1>14. PendingCounted'
    <2>1. ASSUME NEW c \in Consumers PROVE intents'[c].pending = Cardinality(Subscribers(c)')
        <3>1. CASE c = w
            BY <1>6, <1>12, <3>1 DEF left, fewer
        <3>2. CASE c # w
            BY <1>7, <1>11, <3>2 DEF PendingCounted
        <3> QED
            BY <3>1, <3>2
    <2> QED
        BY <2>1 DEF PendingCounted
<1>15. ASSUME NEW c \in Consumers
       PROVE  /\ intents'[c].pending > 0 => intents[c].pending > 0
              /\ intents'[c].pending > 0 \/ CountedIn(consumers', c)
                    => intents'[c].held = intents[c].held
    <2>1. CASE c = w
        BY <1>8, <1>10, <1>11, <1>12, <2>1
    <2>2. CASE c # w
        BY <1>11, <2>2
    <2> QED
        BY <2>1, <2>2
<1> QED
    BY <1>3, <1>4, <1>13, <1>14, <1>15

\* A call goes on.
LEMMA GotoEffect ==
    ASSUME RegistryShape, CallsInOrder, PendingCounted,
           NEW p \in Calls, calls[p].pc # "idle",
           NEW pc \in {"wantBars", "wantSpots", "undoSpots", "subSpots", "subBars", "unsubBars",
                       "unsubSpots"},
           pc \in {"subSpots", "subBars"} => calls[p].op = "subscribe",
           Goto(p, pc), UNCHANGED intents
    PROVE  calls' \in [Calls -> CallType] /\ CallsInOrder' /\ PendingCounted'
<1>1. /\ calls' \in [Calls -> CallType]
      /\ \A q \in Calls : calls'[q].op = calls[q].op /\ calls'[q].who = calls[q].who
      /\ calls'[p].pc = pc /\ \A q \in Calls : q # p => calls'[q] = calls[q]
    BY DEF Goto, RegistryShape, CallType
<1>2. CallsInOrder'
    BY <1>1 DEF CallsInOrder
<1>3. \A c \in Consumers : Subscribers(c)' = Subscribers(c)
    BY <1>1 DEF Subscribers
<1> QED
    BY <1>1, <1>2, <1>3 DEF PendingCounted

\* A step of call p that counts nobody but the consumer of a subscribe keeps the intents.
LEMMA CallStep ==
    ASSUME RegistryInv, NEW p \in Calls, calls[p].pc # "idle",
           consumers' \in [Keys -> SUBSET Consumers],
           \A k \in Keys : \A c \in consumers'[k] :
              c \in consumers[k] \/ (c = calls[p].who /\ calls[p].op = "subscribe"),
           \/ EndCall(p)
           \/ /\ UNCHANGED intents
              /\ \E pc \in {"wantBars", "wantSpots", "undoSpots", "subSpots", "subBars", "unsubBars",
                            "unsubSpots"} :
                    Goto(p, pc) /\ (pc \in {"subSpots", "subBars"} => calls[p].op = "subscribe")
    PROVE  RegistryShape' /\ CallsInOrder' /\ PendingCounted' /\ CountedIsHeld'
<1>0. RegistryShape /\ CallsInOrder /\ PendingCounted /\ CountedIsHeld
    BY DEF RegistryInv
<1>1. ASSUME NEW c \in Consumers, CountedIn(consumers', c) \/ intents[c].pending > 0
      PROVE  intents[c].held
    <2>1. CASE intents[c].pending > 0
        BY <1>0, <2>1 DEF CountedIsHeld
    <2>2. CASE CountedIn(consumers', c)
        <3>1. CASE CountedIn(consumers, c)
            BY <1>0, <3>1 DEF CountedIn, CountedIsHeld
        <3>2. CASE c = calls[p].who /\ calls[p].op = "subscribe"
            <4>1. intents[c].pending > 0
                BY <1>0, <3>2, SubscriberPending
            <4> QED
                BY <2>1, <4>1
        <3> QED
            BY <2>2, <3>1, <3>2 DEF CountedIn
    <2> QED
        BY <1>1, <2>1, <2>2
<1>2. CASE EndCall(p)
    <2>1. /\ RegistryShape' /\ CallsInOrder' /\ PendingCounted'
        BY <1>0, <1>2, EndEffect DEF RegistryShape
    <2>2. \A c \in Consumers :
             /\ intents'[c].pending > 0 => intents[c].pending > 0
             /\ intents'[c].pending > 0 \/ CountedIn(consumers', c) => intents'[c].held = intents[c].held
        BY <1>0, <1>2, EndEffect
    <2>3. CountedIsHeld'
        BY <1>1, <2>2 DEF CountedIsHeld, CountedIn
    <2> QED
        BY <2>1, <2>3
<1>3. ASSUME UNCHANGED intents,
             NEW pc \in {"wantBars", "wantSpots", "undoSpots", "subSpots", "subBars", "unsubBars",
                         "unsubSpots"},
             Goto(p, pc), pc \in {"subSpots", "subBars"} => calls[p].op = "subscribe"
      PROVE  RegistryShape' /\ CallsInOrder' /\ PendingCounted' /\ CountedIsHeld'
    <2>1. calls' \in [Calls -> CallType] /\ CallsInOrder' /\ PendingCounted'
        BY <1>0, <1>3, GotoEffect
    <2>2. RegistryShape'
        BY <1>0, <1>3, <2>1 DEF RegistryShape
    <2>3. CountedIsHeld'
        BY <1>1, <1>3 DEF CountedIsHeld, CountedIn
    <2> QED
        BY <2>1, <2>2, <2>3
<1> QED
    BY <1>2, <1>3

-----------------------------------------------------------------------------
(* The actions of a call *)

\* A key's consumers with c among them.
LEMMA CountEffect ==
    ASSUME RegistryShape, NEW k \in Keys, NEW c \in Consumers
    PROVE  /\ Count(k, c) \in [Keys -> SUBSET Consumers]
           /\ \A j \in Keys : Count(k, c)[j] = IF j = k THEN consumers[j] \cup {c} ELSE consumers[j]
BY DEF Count, RegistryShape

\* A key is settled: whatever is counted by then is registered.
LEMMA AcquireStep ==
    ASSUME RegistryInv, NEW p \in Calls, calls[p].pc # "idle", calls[p].op = "subscribe",
           NEW k \in Keys, NEW registered, UNCHANGED session,
           session # "detached" => registered = restores \cup {k},
           AfterAcquire(p, k, Count(k, calls[p].who), registered)
    PROVE  RegistryInv'
<1>0. RegistryShape /\ CallsInOrder /\ RestoresAreCounted
    BY DEF RegistryInv
<1>1. PICK c \in Consumers : c = calls[p].who
    BY <1>0 DEF CallsInOrder
<1> DEFINE counted == Count(k, c)
<1>2. /\ counted = Count(k, c) /\ counted \in [Keys -> SUBSET Consumers]
      /\ \A j \in Keys : counted[j] = IF j = k THEN consumers[j] \cup {c} ELSE consumers[j]
    BY <1>0, CountEffect
<1> HIDE DEF counted
<1>3. \A j \in Keys : counted[j] # {} <=> consumers[j] # {} \/ j = k
    BY <1>2
<1>4. CASE consumers' = counted /\ restores' = registered
    <2>1. RestoresAreCounted'
        BY <1>0, <1>3, <1>4 DEF RestoresAreCounted
    <2>2. EndCall(p) \/ (UNCHANGED intents /\ Goto(p, "subBars"))
        BY <1>1, <1>2, <1>4 DEF AfterAcquire
    <2>3. RegistryShape' /\ CallsInOrder' /\ PendingCounted' /\ CountedIsHeld'
        BY <1>1, <1>2, <1>4, <2>2, CallStep, ZenonT(40)
    <2> QED
        BY <2>1, <2>3 DEF RegistryInv
<1>5. CASE /\ consumers' = [counted EXCEPT !["bars"] = @ \cup {c}] /\ EndCall(p)
           /\ restores' = IF Joins("bars") \/ session = "detached" THEN registered
                          ELSE registered \cup {"bars"}
    <2>1. /\ consumers' \in [Keys -> SUBSET Consumers]
          /\ \A j \in Keys : consumers'[j] = IF j = "bars" THEN counted[j] \cup {c} ELSE counted[j]
        BY <1>2, <1>5 DEF Keys
    <2>2. \A j \in Keys : consumers'[j] # {} <=> consumers[j] # {} \/ j = k \/ j = "bars"
        BY <1>3, <2>1
    <2>3. RestoresAreCounted'
        <3>1. CASE Joins("bars") /\ session # "detached"
            <4>1. consumers["bars"] # {} /\ restores' = restores \cup {k}
                BY <1>5, <3>1 DEF Joins
            <4> QED
                BY <1>0, <2>2, <3>1, <4>1 DEF RestoresAreCounted
        <3>2. CASE ~Joins("bars") /\ session # "detached"
            <4>1. restores' = restores \cup {k} \cup {"bars"}
                BY <1>5, <3>2
            <4> QED
                BY <1>0, <2>2, <3>2, <4>1 DEF RestoresAreCounted, Keys
        <3>3. CASE session = "detached"
            BY <3>3 DEF RestoresAreCounted
        <3> QED
            BY <3>1, <3>2, <3>3
    <2>4. RegistryShape' /\ CallsInOrder' /\ PendingCounted' /\ CountedIsHeld'
        <3>1. \A j \in Keys : \A d \in consumers'[j] : d \in consumers[j] \/ d = c
            BY <1>2, <2>1
        <3> QED
            BY <1>1, <1>5, <2>1, <3>1, CallStep
    <2> QED
        BY <2>3, <2>4 DEF RegistryInv
<1> QED
    BY <1>1, <1>2, <1>4, <1>5 DEF AfterAcquire

\* A call that drops its consumer from key k, or nothing.
LEMMA DropStep ==
    ASSUME RegistryInv, NEW p \in Calls, calls[p].pc # "idle", NEW k \in Keys,
           UNCHANGED session, Drop(k, calls[p].who),
           EndCall(p) \/ (UNCHANGED intents /\ Goto(p, "undoSpots"))
    PROVE  RegistryInv'
<1>0. RegistryShape /\ RestoresAreCounted
    BY DEF RegistryInv
<1> DEFINE c == calls[p].who
<1>1. /\ consumers' \in [Keys -> SUBSET Consumers]
      /\ \A j \in Keys : consumers'[j] = IF j = k THEN consumers[j] \ {c} ELSE consumers[j]
    BY <1>0 DEF Drop, RegistryShape
<1>2. RestoresAreCounted'
    <2>1. restores' = IF consumers[k] = {c} THEN restores \ {k} ELSE restores
        BY DEF Drop
    <2>2. CASE consumers[k] = {c}
        <3>1. \A j \in Keys : consumers'[j] # {} <=> consumers[j] # {} /\ j # k
            BY <1>1, <2>2
        <3> QED
            BY <1>0, <2>1, <2>2, <3>1 DEF RestoresAreCounted
    <2>3. CASE consumers[k] # {c}
        <3>1. \A j \in Keys : consumers'[j] # {} <=> consumers[j] # {}
            BY <1>1, <2>3
        <3> QED
            BY <1>0, <2>1, <2>3, <3>1 DEF RestoresAreCounted
    <2> QED
        BY <2>2, <2>3
<1>3. RegistryShape' /\ CallsInOrder' /\ PendingCounted' /\ CountedIsHeld'
    <2>1. \A j \in Keys : \A d \in consumers'[j] : d \in consumers[j]
        BY <1>1
    <2> QED
        BY <1>1, <2>1, CallStep
<1> QED
    BY <1>2, <1>3 DEF RegistryInv

\* A call that ends or goes on and leaves the counts alone.
LEMMA IdleStep ==
    ASSUME RegistryInv, NEW p \in Calls, calls[p].pc # "idle",
           UNCHANGED <<session, consumers, restores>>,
           \/ EndCall(p)
           \/ /\ UNCHANGED intents
              /\ \E pc \in {"wantBars", "wantSpots", "undoSpots", "subSpots", "subBars", "unsubBars",
                            "unsubSpots"} :
                    Goto(p, pc) /\ (pc \in {"subSpots", "subBars"} => calls[p].op = "subscribe")
    PROVE  RegistryInv'
<1>1. RestoresAreCounted'
    BY DEF RegistryInv, RestoresAreCounted
<1>2. consumers' \in [Keys -> SUBSET Consumers] /\ \A j \in Keys : consumers'[j] = consumers[j]
    BY DEF RegistryInv, RegistryShape
<1>3. RegistryShape' /\ CallsInOrder' /\ PendingCounted' /\ CountedIsHeld'
    BY <1>2, CallStep
<1> QED
    BY <1>1, <1>3 DEF RegistryInv

LEMMA BeginStep ==
    ASSUME RegistryInv, NEW p \in Calls, NEW c \in Consumers,
           BeginSubscribe(p, c) \/ BeginUnsubscribe(p, c)
    PROVE  RegistryInv'
<1>0. RegistryShape /\ CallsInOrder /\ PendingCounted /\ CountedIsHeld /\ RestoresAreCounted
    BY DEF RegistryInv
<1>1. calls[p].pc = "idle" /\ calls[p].op = "none" /\ UNCHANGED <<consumers, session, restores>>
    BY <1>0 DEF BeginSubscribe, BeginUnsubscribe, CallsInOrder
<1>2. PICK op \in {"subscribe", "unsubscribe"}, pc \in {"wantBars", "wantSpots"} :
         /\ calls' = [calls EXCEPT ![p] = [op |-> op, who |-> c, cut |-> FALSE, pc |-> pc]]
         /\ op = "subscribe" => BeginSubscribe(p, c)
         /\ op = "unsubscribe" => BeginUnsubscribe(p, c)
    BY DEF BeginSubscribe, BeginUnsubscribe
<1> DEFINE call == [op |-> op, who |-> c, cut |-> FALSE, pc |-> pc]
<1>3. call \in CallType /\ call.op = op /\ call.who = c /\ call.pc = pc
    BY DEF CallType
<1>4. /\ calls' \in [Calls -> CallType] /\ calls'[p] = call
      /\ \A q \in Calls : q # p => calls'[q] = calls[q]
    BY <1>0, <1>2, <1>3 DEF RegistryShape
<1> HIDE DEF call
<1>5. CallsInOrder'
    BY <1>0, <1>3, <1>4 DEF CallsInOrder
<1>6. \A d \in Consumers : d # c => Subscribers(d)' = Subscribers(d)
    BY <1>1, <1>3, <1>4 DEF Subscribers
<1>7. Subscribers(c)' = (IF op = "subscribe" THEN Subscribers(c) \cup {p} ELSE Subscribers(c))
      /\ p \notin Subscribers(c)
    BY <1>1, <1>3, <1>4 DEF Subscribers
<1>8. intents[c] \in IntentType /\ intents[c].pending \in Nat
    BY <1>0 DEF RegistryShape, IntentType
<1>9. PICK intent \in IntentType :
         /\ intents' = [intents EXCEPT ![c] = intent] /\ intent.held = TRUE
         /\ intent.pending = IF op = "subscribe" THEN intents[c].pending + 1 ELSE intents[c].pending
    <2>1. CASE op = "subscribe"
        <3> DEFINE new == [wanted |-> TRUE, pending |-> intents[c].pending + 1, held |-> TRUE]
        <3>1. intents[c].pending + 1 \in Nat /\ TRUE \in BOOLEAN
            BY <1>8
        <3>2. new \in IntentType /\ new.held = TRUE /\ new.pending = intents[c].pending + 1
            BY <3>1 DEF IntentType
        <3>3. intents' = [intents EXCEPT ![c] = new]
            BY <1>2, <2>1 DEF BeginSubscribe
        <3> HIDE DEF new
        <3> QED
            BY <2>1, <3>2, <3>3
    <2>2. CASE op = "unsubscribe"
        <3> DEFINE new == [intents[c] EXCEPT !.wanted = FALSE, !.held = TRUE]
        <3>1. new \in IntentType /\ new.held = TRUE /\ new.pending = intents[c].pending
            BY <1>8 DEF IntentType
        <3>2. intents' = [intents EXCEPT ![c] = new]
            BY <1>2, <2>2 DEF BeginUnsubscribe
        <3> HIDE DEF new
        <3> QED
            BY <2>2, <3>1, <3>2
    <2> QED
        BY <2>1, <2>2
<1>10. /\ intents' \in [Consumers -> IntentType] /\ intents'[c] = intent
       /\ \A d \in Consumers : d # c => intents'[d] = intents[d]
    BY <1>0, <1>9 DEF RegistryShape
<1>11. intent.pending = Cardinality(Subscribers(c)')
    <2>1. intents[c].pending = Cardinality(Subscribers(c))
        BY <1>0 DEF PendingCounted
    <2>2. Cardinality(Subscribers(c) \cup {p}) = Cardinality(Subscribers(c)) + 1
        BY <1>7, SubscribersFinite, FS_AddElement
    <2> QED
        BY <1>7, <1>9, <2>1, <2>2
<1>12. PendingCounted'
    BY <1>0, <1>6, <1>10, <1>11 DEF PendingCounted
<1>13. CountedIsHeld'
    BY <1>0, <1>1, <1>9, <1>10 DEF CountedIsHeld
<1>14. RestoresAreCounted' /\ RegistryShape'
    BY <1>0, <1>1, <1>4, <1>10 DEF RestoresAreCounted, RegistryShape
<1> QED
    BY <1>5, <1>12, <1>13, <1>14 DEF RegistryInv

-----------------------------------------------------------------------------
(* The theorem *)

\* Whoever joins a key finds it registered; whoever does not registers it.
LEMMA RegisteredAfter ==
    ASSUME RegistryInv, NEW k \in Keys
    PROVE  /\ session # "detached" => RestoresAfter(k) = restores \cup {k}
           /\ session # "detached" /\ Joins(k) => restores = restores \cup {k}
BY DEF RegistryInv, RestoresAreCounted, RestoresAfter, Joins

LEMMA SubscribeStep ==
    ASSUME RegistryInv, NEW p \in Calls,
           \/ SubscribeBars(p) \/ SubscribeSpots(p) \/ SubscribeAccepted(p) \/ SubscribeRefused(p)
           \/ SubscribeUnknown(p) \/ SubscribeCancelled(p)
    PROVE  RegistryInv'
<1>0. CallsInOrder
    BY DEF RegistryInv
<1>1. CASE SubscribeBars(p)
    <2>1. /\ calls[p].pc # "idle" /\ UNCHANGED <<session, consumers, restores>>
          /\ EndCall(p) \/ (UNCHANGED intents /\ Goto(p, "wantSpots"))
        BY <1>1 DEF SubscribeBars
    <2> QED
        BY <2>1, IdleStep
<1>2. CASE SubscribeSpots(p)
    <2>1. /\ calls[p].pc # "idle" /\ calls[p].op = "subscribe" /\ UNCHANGED session
          /\ "spots" \in Keys
        BY <1>2 DEF SubscribeSpots, Keys
    <2>2. CASE AfterAcquire(p, "spots", Count("spots", calls[p].who),
                            IF Joins("spots") THEN restores ELSE RestoresAfter("spots"))
        <3>1. session # "detached" =>
                 (IF Joins("spots") THEN restores ELSE RestoresAfter("spots")) = restores \cup {"spots"}
            BY <2>1, RegisteredAfter
        <3> QED
            BY <2>1, <2>2, <3>1, AcquireStep
    <2>3. CASE Goto(p, "subSpots") /\ UNCHANGED <<consumers, intents, locks, restores>>
        BY <2>1, <2>3, IdleStep
    <2> QED
        BY <1>2, <2>2, <2>3 DEF SubscribeSpots
<1>3. ASSUME calls[p].pc \in {"subSpots", "subBars"}, UNCHANGED session,
             AfterAcquire(p, Subscribing(p), Count(Subscribing(p), calls[p].who),
                          RestoresAfter(Subscribing(p)))
      PROVE  RegistryInv'
    <2>1. calls[p].pc # "idle" /\ calls[p].op = "subscribe"
        BY <1>0, <1>3 DEF CallsInOrder
    <2>2. PICK k \in Keys : k = Subscribing(p)
        BY DEF Subscribing, Keys
    <2>3. AfterAcquire(p, k, Count(k, calls[p].who), RestoresAfter(k))
        BY <1>3, <2>2
    <2> QED
        BY <1>3, <2>1, <2>3, RegisteredAfter, AcquireStep
<1>4. CASE SubscribeAccepted(p)
    BY <1>3, <1>4 DEF SubscribeAccepted
<1>5. CASE SubscribeUnknown(p)
    BY <1>3, <1>5 DEF SubscribeUnknown
<1>6. CASE SubscribeRefused(p)
    <2>1. /\ calls[p].pc # "idle" /\ UNCHANGED <<session, consumers, restores>>
          /\ EndCall(p) \/ (UNCHANGED intents /\ Goto(p, "undoSpots"))
        BY <1>6 DEF SubscribeRefused
    <2> QED
        BY <2>1, IdleStep
<1>7. CASE SubscribeCancelled(p)
    <2>1. calls[p].pc # "idle" /\ calls[p].op = "subscribe" /\ UNCHANGED session
        BY <1>0, <1>7 DEF CallsInOrder, SubscribeCancelled
    <2>2. PICK k \in Keys : k = Subscribing(p)
        BY DEF Subscribing, Keys
    <2>3. consumers' = Count(k, calls[p].who) /\ restores' = RestoresAfter(k) /\ EndCall(p)
        BY <1>7, <2>2 DEF SubscribeCancelled
    <2>4. PICK c \in Consumers : c = calls[p].who
        BY <1>0, <2>1 DEF CallsInOrder
    <2>5. /\ consumers' \in [Keys -> SUBSET Consumers]
          /\ \A j \in Keys : consumers'[j] = IF j = k THEN consumers[j] \cup {c} ELSE consumers[j]
        <3>1. RegistryShape /\ consumers' = Count(k, c)
            BY <2>3, <2>4 DEF RegistryInv
        <3> QED
            BY <3>1, CountEffect
    <2>6. RestoresAreCounted'
        <3>1. \A j \in Keys : consumers'[j] # {} <=> consumers[j] # {} \/ j = k
            BY <2>5
        <3>2. session # "detached" => restores' = restores \cup {k}
            BY <2>3, RegisteredAfter
        <3> QED
            BY <2>1, <3>1, <3>2 DEF RegistryInv, RestoresAreCounted
    <2>7. RegistryShape' /\ CallsInOrder' /\ PendingCounted' /\ CountedIsHeld'
        <3>1. \A j \in Keys : \A d \in consumers'[j] : d \in consumers[j] \/ d = c
            BY <2>5
        <3> QED
            BY <2>1, <2>3, <2>4, <2>5, <3>1, CallStep
    <2> QED
        BY <2>6, <2>7 DEF RegistryInv
<1> QED
    BY <1>1, <1>2, <1>4, <1>5, <1>6, <1>7

LEMMA ReleaseStep ==
    ASSUME RegistryInv, NEW p \in Calls,
           \/ ReleaseBars(p) \/ ReleaseSpotsHeld(p) \/ Unsubscribed(p) \/ UnsubscribeCancelled(p)
           \/ CancelledWaiting(p)
    PROVE  RegistryInv'
<1>1. "bars" \in Keys /\ "spots" \in Keys
    BY DEF Keys
<1>2. CASE ReleaseBars(p)
    <2>1. calls[p].pc # "idle" /\ UNCHANGED session
        BY <1>2 DEF ReleaseBars
    <2>2. \/ Drop("bars", calls[p].who) /\ UNCHANGED intents /\ Goto(p, "undoSpots")
          \/ Goto(p, "unsubBars") /\ UNCHANGED <<consumers, intents, restores>>
        BY <1>2 DEF ReleaseBars, ThenSpots
    <2> QED
        BY <1>1, <2>1, <2>2, DropStep, IdleStep
<1>3. CASE ReleaseSpotsHeld(p)
    <2>1. calls[p].pc # "idle" /\ UNCHANGED session
        BY <1>3 DEF ReleaseSpotsHeld
    <2>2. \/ Drop("spots", calls[p].who) /\ EndCall(p)
          \/ Goto(p, "unsubSpots") /\ UNCHANGED <<consumers, intents, restores>>
        BY <1>3 DEF ReleaseSpotsHeld
    <2> QED
        BY <1>1, <2>1, <2>2, DropStep, IdleStep
<1>4. CASE Unsubscribed(p)
    <2>1. /\ calls[p].pc # "idle" /\ UNCHANGED session /\ Drop(Unsubscribing(p), calls[p].who)
          /\ EndCall(p) \/ (UNCHANGED intents /\ Goto(p, "undoSpots"))
        BY <1>4 DEF Unsubscribed, ThenSpots
    <2>2. Unsubscribing(p) \in Keys
        BY DEF Unsubscribing, Keys
    <2> QED
        BY <2>1, <2>2, DropStep
<1>5. CASE UnsubscribeCancelled(p)
    <2>1. /\ calls[p].pc # "idle" /\ UNCHANGED <<session, consumers, restores>>
          /\ EndCall(p) \/ (UNCHANGED intents /\ Goto(p, "undoSpots"))
        BY <1>5 DEF UnsubscribeCancelled, ThenSpots
    <2> QED
        BY <2>1, IdleStep
<1>6. CASE CancelledWaiting(p)
    <2>1. calls[p].pc # "idle" /\ UNCHANGED <<session, consumers, restores>> /\ EndCall(p)
        BY <1>6 DEF CancelledWaiting
    <2> QED
        BY <2>1, IdleStep
<1> QED
    BY <1>2, <1>3, <1>4, <1>5, <1>6

\* Steps of the session leave the counts and the calls' consumers alone.
LEMMA SessionStep ==
    ASSUME RegistryInv, UNCHANGED <<consumers, intents>>,
           calls' \in [Calls -> CallType],
           \A p \in Calls : /\ calls'[p].op = calls[p].op /\ calls'[p].who = calls[p].who
                            /\ calls'[p].pc = calls[p].pc,
           RestoresAreCounted'
    PROVE  RegistryInv'
<1>1. \A c \in Consumers : Subscribers(c)' = Subscribers(c)
    BY DEF Subscribers
<1>2. PendingCounted'
    BY <1>1 DEF RegistryInv, PendingCounted
<1>3. CallsInOrder' /\ CountedIsHeld' /\ RegistryShape'
    BY DEF RegistryInv, CallsInOrder, CountedIsHeld, RegistryShape
<1> QED
    BY <1>2, <1>3 DEF RegistryInv

LEMMA RegistryStep == RegistryInv /\ [Next]_vars => RegistryInv'
<1> SUFFICES ASSUME RegistryInv, [Next]_vars PROVE RegistryInv'
    OBVIOUS
<1>0. RegistryShape /\ RestoresAreCounted
    BY DEF RegistryInv
<1>1. ASSUME UNCHANGED <<consumers, intents, calls>>, RestoresAreCounted'
      PROVE  RegistryInv'
    BY <1>0, <1>1, SessionStep DEF RegistryShape
<1>2. ASSUME UNCHANGED <<consumers, restores>>, session # "detached" \/ session' = session
      PROVE  RestoresAreCounted'
    BY <1>0, <1>2 DEF RestoresAreCounted
<1>3. CASE Attach
    <2>1. RestoresAreCounted'
        BY <1>3 DEF Attach, RestoresAreCounted
    <2> QED
        BY <1>1, <1>3, <2>1 DEF Attach, callVars
<1>4. CASE Detach
    <2>1. RestoresAreCounted'
        BY <1>4 DEF Detach, RestoresAreCounted
    <2> QED
        BY <1>1, <1>4, <2>1 DEF Detach, callVars
<1>5. CASE Lose
    <2>1. /\ UNCHANGED <<consumers, restores, intents>> /\ session # "detached"
          /\ calls' = [p \in Calls |-> [calls[p] EXCEPT !.cut = calls[p].cut \/
                          calls[p].pc \in {"subSpots", "subBars", "unsubBars", "unsubSpots"}]]
        BY <1>5 DEF Lose, CutRequests, Accepting
    <2>2. ASSUME NEW p \in Calls
          PROVE  /\ calls'[p] \in CallType
                 /\ calls'[p].op = calls[p].op /\ calls'[p].who = calls[p].who
                 /\ calls'[p].pc = calls[p].pc
        <3> DEFINE b == calls[p].cut \/
                           calls[p].pc \in {"subSpots", "subBars", "unsubBars", "unsubSpots"}
        <3>1. b \in BOOLEAN /\ calls[p] \in CallType
            BY <1>0 DEF RegistryShape
        <3>2. calls'[p] = [calls[p] EXCEPT !.cut = b]
            BY <2>1
        <3> HIDE DEF b
        <3> QED
            BY <3>1, <3>2 DEF CallType
    <2>3. calls' \in [Calls -> CallType]
        BY <2>1, <2>2
    <2> QED
        BY <1>2, <2>1, <2>2, <2>3, SessionStep
<1>6. CASE BringUp \/ BecomeReady
    <2>1. UNCHANGED <<consumers, intents, calls, restores>> /\ session # "detached"
        BY <1>6 DEF BringUp, BecomeReady, callVars
    <2> QED
        BY <1>1, <1>2, <2>1
<1>7. ASSUME \/ \E k \in Keys : RunRestore(k) \/ RetryRestore(k)
             \/ \E r \in Restorers : RestoreLocked(r) \/ RestoreAccepted(r) \/ RestoreFails(r)
             \/ UNCHANGED vars
      PROVE  RegistryInv'
    <2>1. UNCHANGED <<consumers, intents, calls, restores, session>>
        BY <1>7 DEF RunRestore, RetryRestore, RestoreLocked, RestoreAccepted, RestoreFails, callVars,
                    vars
    <2> QED
        BY <1>1, <1>2, <2>1
<1> QED
    BY <1>3, <1>4, <1>5, <1>6, <1>7, BeginStep, SubscribeStep, ReleaseStep DEF Next

LEMMA RegistryInit == Init => RegistryInv
<1> SUFFICES ASSUME Init PROVE RegistryInv
    OBVIOUS
<1>1. RegistryShape
    BY NoIntentTyped, NoCallTyped DEF Init, RegistryShape
<1>2. \A p \in Calls : calls[p] = NoCall
    BY DEF Init
<1>3. CallsInOrder
    BY <1>2, NoCallTyped DEF CallsInOrder
<1>4. \A c \in Consumers : Subscribers(c) = {} /\ intents[c].pending = 0
    BY <1>2, NoCallTyped, NoIntentTyped DEF Init, Subscribers
<1>5. PendingCounted
    BY <1>4, FS_EmptySet DEF PendingCounted
<1>6. RestoresAreCounted
    BY DEF Init, RestoresAreCounted
<1>7. CountedIsHeld
    BY <1>4 DEF Init, CountedIsHeld
<1> QED
    BY <1>1, <1>3, <1>5, <1>6, <1>7 DEF RegistryInv

\* Across overlapping, failing and cancelled calls, losses and detached spells, the
\* registered restores are the counted keys, and a consumer that is counted, or that a
\* subscribe in progress may still count, has its intent in _intents.
THEOREM CountedIsRestored == Spec => []HeldIsRestored
<1>1. RegistryInv => HeldIsRestored
    BY DEF RegistryInv, HeldIsRestored
<1> QED
    BY <1>1, RegistryInit, RegistryStep, PTL DEF Spec

\* _intents[c].pending is the number of c's subscribe calls in progress: no call that
\* ends, in whichever order, takes the intent away from one that is still to count.
THEOREM PendingIsCounted == Spec => []PendingCounted
<1>1. RegistryInv => PendingCounted
    BY DEF RegistryInv
<1> QED
    BY <1>1, RegistryInit, RegistryStep, PTL DEF Spec

-----------------------------------------------------------------------------
(* The locks *)

Tasks == Calls \cup Restorers

LEMMA LeastPlace ==
    ASSUME NEW S, S \subseteq Nat, S # {}
    PROVE  \E x \in S : \A y \in S : x <= y
<1>1. PICK x \in S : \A y \in S : ~(<<y, x>> \in OpToRel(<, Nat))
    BY NatLessThanWellFounded, WFMin
<1>2. \A y \in S : ~(y < x)
    BY <1>1 DEF OpToRel
<1> QED
    BY <1>2

\* A task that lets go of a lock leaves another task at the head of the line there.
LEMMA HeadStays ==
    ASSUME NEW T, NEW s \in Seq(T), NEW e
    PROVE  /\ RemoveFirst(s, e) \in Seq(T)
           /\ s # <<>> /\ Head(s) # e => RemoveFirst(s, e) # <<>> /\ Head(RemoveFirst(s, e)) = Head(s)
<1>1. CASE ~\E i \in 1..Len(s) : s[i] = e
    BY <1>1 DEF RemoveFirst
<1>2. CASE \E i \in 1..Len(s) : s[i] = e
    <2> DEFINE places == {i \in 1..Len(s) : s[i] = e}
               first == Min(places)
    <2>1. Len(s) \in Nat /\ \A i \in 1..Len(s) : s[i] \in T
        BY LenProperties, ElementOfSeq
    <2>2. first \in places
        <3>1. places \subseteq Nat /\ places # {}
            BY <1>2
        <3>2. \E x \in places : \A y \in places : x <= y
            BY <3>1, LeastPlace
        <3> QED
            BY <3>2 DEF Min
    <2>3. first \in 1..Len(s) /\ s[first] = e
        BY <2>2
    <2>4. RemoveFirst(s, e) = SubSeq(s, 1, first - 1) \o SubSeq(s, first + 1, Len(s))
        BY <1>2 DEF RemoveFirst, RemoveAt, SelectInSeq
    <2> HIDE DEF first, places
    <2> DEFINE front == SubSeq(s, 1, first - 1)
               back == SubSeq(s, first + 1, Len(s))
    <2>5. /\ front \in Seq(T) /\ Len(front) = IF 1 <= first - 1 THEN first - 1 ELSE 0
          /\ \A i \in 1..(first - 1) : front[i] = s[i]
        <3>1. PICK m \in Int : m = first - 1 /\ \A i \in 1..m : s[i] \in T
            BY <2>1, <2>3
        <3>2. /\ SubSeq(s, 1, m) \in Seq(T)
              /\ Len(SubSeq(s, 1, m)) = IF 1 <= m THEN m - 1 + 1 ELSE 0
              /\ \A i \in 1..(m - 1 + 1) : SubSeq(s, 1, m)[i] = s[1 + i - 1]
            BY <3>1, SubSeqProperties
        <3>3. m - 1 + 1 = m /\ \A i \in 1..m : 1 + i - 1 = i
            BY <3>1
        <3>4. /\ SubSeq(s, 1, m) \in Seq(T) /\ Len(SubSeq(s, 1, m)) = IF 1 <= m THEN m ELSE 0
              /\ \A i \in 1..m : SubSeq(s, 1, m)[i] = s[i]
            BY <3>2, <3>3
        <3> QED
            BY <3>1, <3>4
    <2>6. back \in Seq(T)
        <3>1. first + 1 \in Int /\ Len(s) \in Int /\ \A i \in (first + 1)..Len(s) : s[i] \in T
            BY <2>1, <2>3
        <3> QED
            BY <3>1, SubSeqProperties
    <2> HIDE DEF front, back
    <2>7. RemoveFirst(s, e) = front \o back
        BY <2>4 DEF front, back
    <2>8. /\ front \o back \in Seq(T) /\ Len(front \o back) = Len(front) + Len(back)
          /\ \A i \in 1..Len(front) + Len(back) :
                (front \o back)[i] = IF i <= Len(front) THEN front[i] ELSE back[i - Len(front)]
        BY <2>5, <2>6, ConcatProperties
    <2>9. ASSUME s # <<>>, Head(s) # e
          PROVE  RemoveFirst(s, e) # <<>> /\ Head(RemoveFirst(s, e)) = Head(s)
        <3>1. Head(s) = s[1]
            OBVIOUS
        <3>2. first # 1 /\ first - 1 \in Nat /\ 1 <= first - 1
            BY <2>3, <2>9, <3>1
        <3>3. Len(front) = first - 1 /\ Len(back) \in Nat /\ front[1] = s[1]
            BY <2>5, <2>6, <3>2, LenProperties
        <3>4. (front \o back)[1] = s[1] /\ Len(front \o back) > 0
            BY <2>8, <3>2, <3>3
        <3>5. front \o back # <<>>
            BY <2>8, <3>4
        <3> QED
            BY <2>7, <2>8, <3>1, <3>4, <3>5
    <2> QED
        BY <2>7, <2>8, <2>9
<1> QED
    BY <1>1, <1>2

-----------------------------------------------------------------------------
(* Live: the inductive invariant *)

\* A request is sent by the task at the head of its key's lock, and a bar consumer's
\* subscribe keeps the bars locked over its spot leg.
OwnLocks(p) ==
    /\ calls[p].pc \in {"subSpots", "unsubSpots"} => Holds(p, "spots")
    /\ calls[p].pc \in {"subBars", "unsubBars"} => Holds(p, "bars")
    /\ calls[p].op = "subscribe" /\ calls[p].who \in BarConsumers
          /\ calls[p].pc \in {"wantSpots", "subSpots"} => Holds(p, "bars")
    /\ calls[p].pc \in {"wantBars", "subBars", "unsubBars"} => calls[p].who \in BarConsumers

LocksInv ==
    /\ locks \in [Keys -> Seq(Tasks)]
    /\ \A p \in Calls : OwnLocks(p)

\* A key is unsubscribed at the venue only for its last consumer: none joins it meanwhile.
AloneInv ==
    \A p \in Calls :
        /\ calls[p].pc = "unsubSpots" => consumers["spots"] \subseteq {calls[p].who}
        /\ calls[p].pc = "unsubBars" => consumers["bars"] \subseteq {calls[p].who}

\* The restore() of each task; the bring-up's is cut only with the connection.
RestoringInv ==
    /\ restoring \in [Restorers -> [key : Keys \cup {"none"}, pc : {"idle", "want", "sending"},
                                    step : 0..2, cut : BOOLEAN, of : Nat]]
    /\ \A r \in Restorers :
          \/ restoring[r] = NoRestore
          \/ /\ restoring[r].pc \in {"want", "sending"}
             /\ restoring[r].key \in Keys /\ restoring[r].step \in {1, 2}
    /\ restoring["bringUp"].cut => ~Accepting
    /\ bringUps \in Nat

\* The venue streams k, or the registry or the bring-up in progress knows better.
LiveOrKnown(k) ==
    \/ k \in venue \cup failedRestores \cup maybe \cup todo
    \/ restoring["bringUp"].key = k

\* While the session accepts requests, a counted key is live or known not to be.
LiveWhileUp ==
    Accepting => \A k \in Keys : consumers[k] # {} /\ (k = "bars" => ~legCut) => LiveOrKnown(k)

LiveInv ==
    /\ RegistryInv /\ LocksInv /\ AloneInv /\ RestoringInv /\ LiveWhileUp

-----------------------------------------------------------------------------
(* Live: locks *)

\* A line that t joins or leaves keeps whoever else is at its head there.
LEMMA LineMoves ==
    ASSUME NEW s \in Seq(Tasks), NEW t \in Tasks, NEW u,
           u = s \/ u = Append(s, t) \/ u = RemoveFirst(s, t) \/ u = Append(RemoveFirst(s, t), t)
    PROVE  /\ u \in Seq(Tasks)
           /\ \A q : q # t /\ s # <<>> /\ Head(s) = q => u # <<>> /\ Head(u) = q
<1>1. ASSUME NEW v \in Seq(Tasks)
      PROVE  /\ Append(v, t) \in Seq(Tasks) /\ Append(v, t) # <<>>
             /\ v # <<>> => Head(Append(v, t)) = Head(v)
    BY AppendProperties
<1>2. /\ RemoveFirst(s, t) \in Seq(Tasks)
      /\ s # <<>> /\ Head(s) # t => RemoveFirst(s, t) # <<>> /\ Head(RemoveFirst(s, t)) = Head(s)
    BY HeadStays
<1> QED
    BY <1>1, <1>2

LEMMA LocksMove ==
    ASSUME locks \in [Keys -> Seq(Tasks)], NEW t \in Tasks,
           \/ \E j \in Keys : locks' = Enqueue(t, j)
           \/ locks' = ReleaseAll(t)
           \/ locks' = ReleaseSpots(t)
           \/ \E j \in Keys : locks' = [ReleaseAll(t) EXCEPT ![j] = Append(@, t)]
           \/ UNCHANGED locks
    PROVE  /\ locks' \in [Keys -> Seq(Tasks)]
           /\ \A k \in Keys : \A q : q # t /\ Holds(q, k) => Holds(q, k)'
<1>1. DOMAIN locks' = Keys /\ locks' = [k \in Keys |-> locks'[k]]
    BY DEF Enqueue, ReleaseAll, ReleaseSpots
<1>2. ASSUME NEW k \in Keys
      PROVE  \/ locks'[k] = locks[k] \/ locks'[k] = Append(locks[k], t)
             \/ locks'[k] = RemoveFirst(locks[k], t)
             \/ locks'[k] = Append(RemoveFirst(locks[k], t), t)
    BY DEF Enqueue, ReleaseAll, ReleaseSpots
<1>3. ASSUME NEW k \in Keys
      PROVE  /\ locks'[k] \in Seq(Tasks)
             /\ \A q : q # t /\ locks[k] # <<>> /\ Head(locks[k]) = q
                          => locks'[k] # <<>> /\ Head(locks'[k]) = q
    <2>1. locks[k] \in Seq(Tasks)
        OBVIOUS
    <2> QED
        BY <1>2, <2>1, LineMoves
<1>4. locks' \in [Keys -> Seq(Tasks)]
    BY <1>1, <1>3
<1> QED
    BY <1>3, <1>4 DEF Holds

\* A step of the call p, or of a restorer, as the other calls' locks see it.
LEMMA OwnStep ==
    ASSUME LocksInv, NEW t \in Tasks,
           \/ \E j \in Keys : locks' = Enqueue(t, j)
           \/ locks' = ReleaseAll(t)
           \/ locks' = ReleaseSpots(t)
           \/ \E j \in Keys : locks' = [ReleaseAll(t) EXCEPT ![j] = Append(@, t)]
           \/ UNCHANGED locks,
           \A q \in Calls : q # t => calls'[q] = calls[q],
           t \in Calls => OwnLocks(t)'
    PROVE  LocksInv'
<1>1. /\ locks' \in [Keys -> Seq(Tasks)]
      /\ \A k \in Keys : \A q : q # t /\ Holds(q, k) => Holds(q, k)'
    BY LocksMove DEF LocksInv
<1>2. ASSUME NEW q \in Calls, q # t PROVE OwnLocks(q)'
    <2>1. OwnLocks(q) /\ calls'[q] = calls[q]
        BY <1>2 DEF LocksInv
    <2>2. (Holds(q, "spots") => Holds(q, "spots")') /\ (Holds(q, "bars") => Holds(q, "bars")')
        BY <1>1, <1>2 DEF Keys
    <2> QED
        BY <2>1, <2>2 DEF OwnLocks
<1> QED
    BY <1>1, <1>2 DEF LocksInv

LEMMA EndLocks ==
    ASSUME RegistryShape, LocksInv, AloneInv, NEW p \in Calls, EndCall(p),
           \A q \in Calls : q # p => \A k \in Keys : Holds(q, k) => consumers'[k] \subseteq consumers[k]
    PROVE  LocksInv' /\ AloneInv'
<1>1. calls'[p] = NoCall /\ \A q \in Calls : q # p => calls'[q] = calls[q]
    BY DEF EndCall, RegistryShape
<1>2. p \in Tasks /\ locks' = ReleaseAll(p)
    BY DEF EndCall, Tasks
<1>3. OwnLocks(p)'
    BY <1>1 DEF OwnLocks, NoCall
<1>4. AloneInv'
    <2>1. \A q \in Calls : OwnLocks(q)
        BY DEF LocksInv
    <2> QED
        BY <1>1, <2>1 DEF AloneInv, NoCall, OwnLocks, Keys
<1> QED
    BY <1>1, <1>2, <1>3, <1>4, OwnStep

LEMMA GotoLocks ==
    ASSUME RegistryShape, LocksInv, AloneInv, NEW p \in Calls,
           NEW pc \in {"wantSpots", "undoSpots", "subSpots", "subBars", "unsubBars", "unsubSpots"},
           Goto(p, pc),
           UNCHANGED locks \/ locks' = Enqueue(p, "spots") \/ locks' = ReleaseSpots(p),
           \A q \in Calls : q # p => \A k \in Keys : Holds(q, k) => consumers'[k] \subseteq consumers[k],
           pc \in {"subSpots", "unsubSpots"} => Holds(p, "spots")',
           pc \in {"subBars", "unsubBars"} => Holds(p, "bars")' /\ calls[p].who \in BarConsumers,
           pc \in {"wantSpots", "subSpots"} /\ calls[p].who \in BarConsumers => Holds(p, "bars")',
           pc = "unsubSpots" => consumers'["spots"] \subseteq {calls[p].who},
           pc = "unsubBars" => consumers'["bars"] \subseteq {calls[p].who}
    PROVE  LocksInv' /\ AloneInv'
<1>1. /\ calls'[p].pc = pc /\ calls'[p].op = calls[p].op /\ calls'[p].who = calls[p].who
      /\ \A q \in Calls : q # p => calls'[q] = calls[q]
    BY DEF Goto, RegistryShape, CallType
<1>2. p \in Tasks /\ "spots" \in Keys
    BY DEF Tasks, Keys
<1>3. OwnLocks(p)'
    BY <1>1 DEF OwnLocks
<1>4. AloneInv'
    <2>1. \A q \in Calls : OwnLocks(q)
        BY DEF LocksInv
    <2> QED
        BY <1>1, <2>1 DEF AloneInv, OwnLocks, Keys
<1> QED
    BY <1>1, <1>2, <1>3, <1>4, OwnStep

-----------------------------------------------------------------------------
(* Live: the steps of a call *)

\* Two tasks do not hold the same lock.
LEMMA OneHolder ==
    ASSUME NEW p, NEW k, Holds(p, k)
    PROVE  \A q : q # p => ~Holds(q, k)
BY DEF Holds

LEMMA LiveKept ==
    ASSUME LiveWhileUp, Accepting' => Accepting, legCut => legCut',
           \A k \in Keys :
              consumers'[k] # {} /\ (k = "bars" => ~legCut') =>
                 \/ consumers[k] # {} /\ (LiveOrKnown(k) => LiveOrKnown(k)')
                 \/ LiveOrKnown(k)'
    PROVE  LiveWhileUp'
BY DEF LiveWhileUp

\* The call p settles key k, and may join the bars with it.
LEMMA AcquireLive ==
    ASSUME LiveInv, NEW p \in Calls, NEW k \in Keys, NEW registered,
           calls[p].op = "subscribe", calls[p].pc # "idle", Holds(p, k),
           k = "spots" => calls[p].pc \in {"wantSpots", "subSpots"},
           k = "bars" => calls[p].pc = "subBars",
           AfterAcquire(p, k, Count(k, calls[p].who), registered)
    PROVE  /\ LocksInv' /\ AloneInv'
           /\ Accepting => \A j \in Keys : consumers'[j] # {} => consumers[j] # {} \/ j = k
<1>0. RegistryShape /\ CallsInOrder /\ LocksInv /\ AloneInv /\ OwnLocks(p)
    BY DEF LiveInv, RegistryInv, LocksInv
<1>1. PICK c \in Consumers : c = calls[p].who
    BY <1>0 DEF CallsInOrder
<1> DEFINE counted == Count(k, c)
<1>2. \A j \in Keys : counted[j] = IF j = k THEN consumers[j] \cup {c} ELSE consumers[j]
    BY <1>0, <1>1, CountEffect
<1>3. DOMAIN counted = Keys
    BY <1>0, <1>1, CountEffect
<1>4. k # KeyOf(c) => k = "spots" /\ c \in BarConsumers /\ Holds(p, "bars")
    BY <1>0, <1>1 DEF OwnLocks, KeyOf, Keys
<1>5. k \in Keys /\ Holds(p, k) /\ AfterAcquire(p, k, counted, registered)
    BY <1>1
<1> HIDE DEF counted
<1>6. CASE EndCall(p) /\ consumers' = counted
    <2>1. \A q \in Calls : q # p => \A j \in Keys : Holds(q, j) => consumers'[j] \subseteq consumers[j]
        BY <1>2, <1>5, <1>6, OneHolder
    <2>2. LocksInv' /\ AloneInv'
        BY <1>0, <1>6, <2>1, EndLocks
    <2> QED
        BY <1>2, <1>6, <2>2
<1>7. CASE /\ k # KeyOf(c) /\ AcquiresNow("bars") /\ EndCall(p)
           /\ consumers' = [counted EXCEPT !["bars"] = @ \cup {c}]
    <2>1. \A j \in Keys : j # k /\ j # "bars" => consumers'[j] = consumers[j]
        BY <1>2, <1>3, <1>7
    <2>2. \A q \in Calls : q # p => \A j \in Keys : Holds(q, j) => consumers'[j] \subseteq consumers[j]
        BY <1>4, <1>5, <1>7, <2>1, OneHolder
    <2>3. LocksInv' /\ AloneInv'
        BY <1>0, <1>7, <2>2, EndLocks
    <2>4. Accepting => consumers["bars"] # {}
        BY <1>7 DEF AcquiresNow, Joins
    <2> QED
        BY <2>1, <2>3, <2>4
<1>8. CASE /\ k # KeyOf(c) /\ consumers' = counted /\ locks' = ReleaseSpots(p) /\ Goto(p, "subBars")
    <2>1. \A q \in Calls : q # p => \A j \in Keys : Holds(q, j) => consumers'[j] \subseteq consumers[j]
        BY <1>2, <1>5, <1>8, OneHolder
    <2>2. Holds(p, "bars")'
        <3>1. locks'["bars"] = locks["bars"]
            BY <1>0, <1>8 DEF ReleaseSpots, LocksInv, Keys
        <3> QED
            BY <1>4, <1>8, <3>1 DEF Holds
    <2>3. LocksInv' /\ AloneInv'
        BY <1>0, <1>1, <1>4, <1>8, <2>1, <2>2, GotoLocks
    <2> QED
        BY <1>2, <1>8, <2>3
<1> QED
    BY <1>1, <1>5, <1>6, <1>7, <1>8 DEF AfterAcquire

\* A call that counts nobody.
LEMMA IdleLive ==
    ASSUME LiveInv, NEW p \in Calls, \A k \in Keys : consumers'[k] \subseteq consumers[k],
           \/ EndCall(p)
           \/ /\ calls[p].op = "subscribe" /\ Goto(p, "wantSpots") /\ locks' = Enqueue(p, "spots")
              /\ calls[p].who \in BarConsumers => Holds(p, "bars")
           \/ Goto(p, "undoSpots") /\ locks' = Enqueue(p, "spots")
           \/ /\ Goto(p, "subSpots") /\ UNCHANGED locks /\ calls[p].op = "subscribe"
              /\ calls[p].pc = "wantSpots" /\ Holds(p, "spots")
           \/ /\ Goto(p, "unsubSpots") /\ UNCHANGED locks /\ Holds(p, "spots")
              /\ consumers'["spots"] \subseteq {calls[p].who}
           \/ /\ Goto(p, "unsubBars") /\ UNCHANGED locks /\ Holds(p, "bars")
              /\ calls[p].who \in BarConsumers /\ consumers'["bars"] \subseteq {calls[p].who}
    PROVE  LocksInv' /\ AloneInv'
<1>0. RegistryShape /\ LocksInv /\ AloneInv /\ OwnLocks(p)
    BY DEF LiveInv, RegistryInv, LocksInv
<1>1. CASE EndCall(p)
    BY <1>0, <1>1, EndLocks
<1>2. locks' = Enqueue(p, "spots") => (Holds(p, "bars") => Holds(p, "bars")')
    BY <1>0 DEF Enqueue, Holds, LocksInv, Keys
<1>3. CASE /\ calls[p].op = "subscribe" /\ Goto(p, "wantSpots") /\ locks' = Enqueue(p, "spots")
           /\ calls[p].who \in BarConsumers => Holds(p, "bars")
    BY <1>0, <1>2, <1>3, GotoLocks
<1>4. CASE Goto(p, "undoSpots") /\ locks' = Enqueue(p, "spots")
    BY <1>0, <1>4, GotoLocks
<1>5. CASE /\ Goto(p, "subSpots") /\ UNCHANGED locks /\ calls[p].op = "subscribe"
           /\ calls[p].pc = "wantSpots" /\ Holds(p, "spots")
    <2>1. Holds(p, "spots")' /\ (calls[p].who \in BarConsumers => Holds(p, "bars")')
        BY <1>0, <1>5 DEF OwnLocks, Holds
    <2> QED
        BY <1>0, <1>5, <2>1, GotoLocks
<1>6. CASE /\ Goto(p, "unsubSpots") /\ UNCHANGED locks /\ Holds(p, "spots")
           /\ consumers'["spots"] \subseteq {calls[p].who}
    <2>1. Holds(p, "spots")'
        BY <1>6 DEF Holds
    <2> QED
        BY <1>0, <1>6, <2>1, GotoLocks
<1>7. CASE /\ Goto(p, "unsubBars") /\ UNCHANGED locks /\ Holds(p, "bars")
           /\ calls[p].who \in BarConsumers /\ consumers'["bars"] \subseteq {calls[p].who}
    <2>1. Holds(p, "bars")'
        BY <1>7 DEF Holds
    <2> QED
        BY <1>0, <1>7, <2>1, GotoLocks
<1> QED
    BY <1>1, <1>3, <1>4, <1>5, <1>6, <1>7

\* The restorers' part is of no concern to a call.
LEMMA LiveTogether ==
    ASSUME LiveInv, [Next]_vars, UNCHANGED <<restoring, session, bringUps>>,
           LocksInv', AloneInv', LiveWhileUp'
    PROVE  LiveInv'
<1>1. RegistryInv'
    BY RegistryStep DEF LiveInv
<1>2. RestoringInv'
    BY DEF LiveInv, RestoringInv, Accepting
<1> QED
    BY <1>1, <1>2 DEF LiveInv

LEMMA BeginLive ==
    ASSUME LiveInv, NEW p \in Calls, NEW c \in Consumers,
           BeginSubscribe(p, c) \/ BeginUnsubscribe(p, c)
    PROVE  LiveInv'
<1>0. RegistryShape /\ LocksInv /\ AloneInv /\ LiveWhileUp
    BY DEF LiveInv, RegistryInv
<1>1. /\ UNCHANGED <<consumers, maybe, session, failedRestores, todo, restoring, bringUps, venue, legCut>>
      /\ locks' = Enqueue(p, KeyOf(c)) /\ KeyOf(c) \in Keys
    BY DEF BeginSubscribe, BeginUnsubscribe, venueVars, KeyOf, Keys
<1>2. PICK op \in {"subscribe", "unsubscribe"} :
         calls' = [calls EXCEPT ![p] = [op |-> op, who |-> c, cut |-> FALSE,
                      pc |-> IF c \in BarConsumers THEN "wantBars" ELSE "wantSpots"]]
    BY DEF BeginSubscribe, BeginUnsubscribe
<1> DEFINE pc == IF c \in BarConsumers THEN "wantBars" ELSE "wantSpots"
<1>3. /\ calls'[p].pc = pc /\ calls'[p].who = c
      /\ \A q \in Calls : q # p => calls'[q] = calls[q]
    BY <1>0, <1>2 DEF RegistryShape
<1>4. OwnLocks(p)'
    BY <1>3 DEF OwnLocks
<1>5. LocksInv'
    BY <1>0, <1>1, <1>3, <1>4, OwnStep DEF Tasks
<1>6. AloneInv'
    BY <1>0, <1>1, <1>3 DEF AloneInv
<1>7. LiveWhileUp'
    BY <1>0, <1>1 DEF LiveWhileUp, LiveOrKnown, Accepting
<1>8. [Next]_vars
    BY DEF Next
<1> QED
    BY <1>1, <1>5, <1>6, <1>7, <1>8, LiveTogether

LEMMA SubscribeLive ==
    ASSUME LiveInv, NEW p \in Calls,
           \/ SubscribeBars(p) \/ SubscribeSpots(p) \/ SubscribeAccepted(p) \/ SubscribeRefused(p)
           \/ SubscribeUnknown(p) \/ SubscribeCancelled(p)
    PROVE  LiveInv'
<1>0. RegistryShape /\ CallsInOrder /\ OwnLocks(p) /\ LiveWhileUp
    BY DEF LiveInv, RegistryInv, LocksInv
<1>1. /\ [Next]_vars
      /\ UNCHANGED <<session, todo, restoring, bringUps, legCut>>
    BY DEF Next, SubscribeBars, SubscribeSpots, SubscribeAccepted, SubscribeRefused, SubscribeUnknown,
           SubscribeCancelled, venueVars
<1>2. SUFFICES LocksInv' /\ AloneInv' /\ LiveWhileUp'
    BY <1>1, LiveTogether
<1>3. Accepting' <=> Accepting
    BY <1>1 DEF Accepting
<1>4. CASE SubscribeBars(p)
    <2>1. /\ UNCHANGED <<consumers, maybe, failedRestores, venue>>
          /\ \/ EndCall(p)
             \/ /\ calls[p].op = "subscribe" /\ Goto(p, "wantSpots") /\ locks' = Enqueue(p, "spots")
                /\ Holds(p, "bars")
        BY <1>4 DEF SubscribeBars, venueVars
    <2>2. LocksInv' /\ AloneInv'
        BY <2>1, IdleLive
    <2>3. LiveWhileUp'
        BY <1>0, <1>1, <2>1 DEF LiveWhileUp, LiveOrKnown, Accepting
    <2> QED
        BY <2>2, <2>3
<1>5. CASE SubscribeSpots(p)
    <2>1. /\ UNCHANGED <<maybe, failedRestores, venue>> /\ "spots" \in Keys
          /\ calls[p].op = "subscribe" /\ calls[p].pc = "wantSpots" /\ Holds(p, "spots")
        BY <1>5 DEF SubscribeSpots, venueVars, Keys
    <2>2. CASE /\ AcquiresNow("spots")
               /\ AfterAcquire(p, "spots", Count("spots", calls[p].who),
                               IF Joins("spots") THEN restores ELSE RestoresAfter("spots"))
        <3>1. /\ LocksInv' /\ AloneInv'
              /\ Accepting => \A j \in Keys : consumers'[j] # {} => consumers[j] # {} \/ j = "spots"
            BY <2>1, <2>2, AcquireLive
        <3>2. Accepting => consumers["spots"] # {}
            BY <2>2 DEF AcquiresNow, Joins
        <3>3. LiveWhileUp'
            BY <1>0, <1>1, <1>3, <2>1, <3>1, <3>2 DEF LiveWhileUp, LiveOrKnown
        <3> QED
            BY <3>1, <3>3
    <2>3. CASE Goto(p, "subSpots") /\ UNCHANGED <<consumers, intents, locks, restores>>
        <3>1. LocksInv' /\ AloneInv'
            BY <2>1, <2>3, IdleLive
        <3>2. LiveWhileUp'
            BY <1>0, <1>1, <1>3, <2>1, <2>3 DEF LiveWhileUp, LiveOrKnown
        <3> QED
            BY <3>1, <3>2
    <2> QED
        BY <1>5, <2>2, <2>3 DEF SubscribeSpots
<1>6. ASSUME calls[p].pc \in {"subSpots", "subBars"}
      PROVE  /\ Subscribing(p) \in Keys /\ calls[p].op = "subscribe" /\ calls[p].pc # "idle"
             /\ Holds(p, Subscribing(p))
             /\ Subscribing(p) = "spots" => calls[p].pc \in {"wantSpots", "subSpots"}
             /\ Subscribing(p) = "bars" => calls[p].pc = "subBars"
    BY <1>0, <1>6 DEF Subscribing, Keys, CallsInOrder, OwnLocks
<1>7. CASE SubscribeAccepted(p) \/ SubscribeUnknown(p)
    <2>1. PICK k \in Keys : k = Subscribing(p)
        BY DEF Subscribing, Keys
    <2>2. /\ calls[p].pc \in {"subSpots", "subBars"}
          /\ AfterAcquire(p, k, Count(k, calls[p].who), RestoresAfter(k))
        BY <1>7, <2>1 DEF SubscribeAccepted, SubscribeUnknown
    <2>3. /\ LocksInv' /\ AloneInv'
          /\ Accepting => \A j \in Keys : consumers'[j] # {} => consumers[j] # {} \/ j = k
        BY <1>6, <2>1, <2>2, AcquireLive
    <2>4. ASSUME Accepting, NEW j \in Keys
          PROVE  LiveOrKnown(k)' /\ (LiveOrKnown(j) => LiveOrKnown(j)')
        <3>1. CASE SubscribeAccepted(p)
            BY <1>1, <2>1, <3>1 DEF SubscribeAccepted, LiveOrKnown
        <3>2. CASE SubscribeUnknown(p)
            BY <1>1, <2>1, <2>4, <3>2 DEF SubscribeUnknown, LiveOrKnown, FailedAfterUnknown
        <3> QED
            BY <1>7, <3>1, <3>2
    <2>5. LiveWhileUp'
        BY <1>0, <1>1, <1>3, <2>3, <2>4 DEF LiveWhileUp
    <2> QED
        BY <2>3, <2>5
<1>8. CASE SubscribeRefused(p)
    <2>1. /\ UNCHANGED <<consumers, maybe, failedRestores, venue>>
          /\ EndCall(p) \/ (Goto(p, "undoSpots") /\ locks' = Enqueue(p, "spots"))
        BY <1>8 DEF SubscribeRefused, venueVars
    <2>2. LocksInv' /\ AloneInv'
        BY <2>1, IdleLive
    <2>3. LiveWhileUp'
        BY <1>0, <1>1, <2>1 DEF LiveWhileUp, LiveOrKnown, Accepting
    <2> QED
        BY <2>2, <2>3
<1>9. CASE SubscribeCancelled(p)
    <2>1. PICK k \in Keys : k = Subscribing(p)
        BY DEF Subscribing, Keys
    <2>2. /\ calls[p].pc \in {"subSpots", "subBars"} /\ EndCall(p) /\ UNCHANGED maybe
          /\ consumers' = Count(k, calls[p].who) /\ failedRestores' = FailedAfterUnknown(k)
          /\ venue \subseteq venue'
        BY <1>9, <2>1 DEF SubscribeCancelled
    <2>3. PICK c \in Consumers : c = calls[p].who
        BY <1>0, <2>2 DEF CallsInOrder
    <2>4. \A j \in Keys : consumers'[j] = IF j = k THEN consumers[j] \cup {c} ELSE consumers[j]
        <3>1. consumers' = Count(k, c)
            BY <2>2, <2>3
        <3> QED
            BY <1>0, <3>1, CountEffect
    <2>5. Holds(p, k)
        BY <1>6, <2>1, <2>2
    <2>6. \A q \in Calls : q # p => \A j \in Keys : Holds(q, j) => consumers'[j] \subseteq consumers[j]
        BY <2>4, <2>5, OneHolder
    <2>7. LocksInv' /\ AloneInv'
        BY <1>0, <2>2, <2>6, EndLocks DEF LiveInv
    <2>8. ASSUME Accepting, NEW j \in Keys
          PROVE  LiveOrKnown(k)' /\ (LiveOrKnown(j) => LiveOrKnown(j)')
        BY <1>1, <2>2, <2>8 DEF LiveOrKnown, FailedAfterUnknown
    <2>9. LiveWhileUp'
        BY <1>0, <1>1, <1>3, <2>4, <2>8 DEF LiveWhileUp
    <2> QED
        BY <2>7, <2>9
<1> QED
    BY <1>4, <1>5, <1>7, <1>8, <1>9

LEMMA ReleaseLive ==
    ASSUME LiveInv, NEW p \in Calls,
           \/ ReleaseBars(p) \/ ReleaseSpotsHeld(p) \/ Unsubscribed(p) \/ UnsubscribeCancelled(p)
           \/ CancelledWaiting(p)
    PROVE  LiveInv'
<1>0. RegistryShape /\ CallsInOrder /\ OwnLocks(p) /\ AloneInv /\ LiveWhileUp
    BY DEF LiveInv, RegistryInv, LocksInv
<1>1. [Next]_vars /\ UNCHANGED <<session, todo, restoring, bringUps>>
    BY DEF Next, ReleaseBars, ReleaseSpotsHeld, Unsubscribed, UnsubscribeCancelled, CancelledWaiting
<1>2. SUFFICES LocksInv' /\ AloneInv' /\ LiveWhileUp'
    BY <1>1, LiveTogether
<1>3. Accepting' <=> Accepting
    BY <1>1 DEF Accepting
<1>4. ASSUME NEW k \in Keys, NEW c, Drop(k, c)
      PROVE  \A j \in Keys : consumers'[j] = IF j = k THEN consumers[j] \ {c} ELSE consumers[j]
    BY <1>0, <1>4 DEF Drop, RegistryShape
<1>5. ASSUME NEW k \in Keys, NEW c, UNCHANGED venueVars,
             \/ Drop(k, c) /\ ReleasesNow(k, c)
             \/ UNCHANGED <<consumers, maybe, failedRestores>>
      PROVE  LiveWhileUp' /\ \A j \in Keys : consumers'[j] \subseteq consumers[j]
    <2>1. \A j \in Keys : consumers'[j] \subseteq consumers[j]
        BY <1>4, <1>5
    <2>2. Accepting => UNCHANGED <<maybe, failedRestores>>
        BY <1>5 DEF Drop, ReleasesNow
    <2>3. LiveWhileUp'
        BY <1>0, <1>1, <1>3, <1>5, <2>1, <2>2 DEF LiveWhileUp, LiveOrKnown, venueVars
    <2> QED
        BY <2>1, <2>3
<1>6. CASE ReleaseBars(p)
    <2>1. /\ UNCHANGED venueVars /\ "bars" \in Keys
          /\ calls[p].pc = "wantBars" /\ Holds(p, "bars") /\ calls[p].who \in BarConsumers
        BY <1>0, <1>6 DEF ReleaseBars, Keys, OwnLocks
    <2>2. \/ /\ ReleasesNow("bars", calls[p].who) /\ Drop("bars", calls[p].who)
             /\ Goto(p, "undoSpots") /\ locks' = Enqueue(p, "spots")
          \/ /\ ~ReleasesNow("bars", calls[p].who) /\ Goto(p, "unsubBars")
             /\ UNCHANGED <<consumers, locks, maybe, failedRestores>>
        BY <1>6 DEF ReleaseBars, ThenSpots
    <2>3. LiveWhileUp' /\ \A j \in Keys : consumers'[j] \subseteq consumers[j]
        BY <1>5, <2>1, <2>2
    <2>4. LocksInv' /\ AloneInv'
        <3>1. ~ReleasesNow("bars", calls[p].who) => consumers["bars"] \subseteq {calls[p].who}
            BY DEF ReleasesNow
        <3> QED
            BY <2>1, <2>2, <2>3, <3>1, IdleLive
    <2> QED
        BY <2>3, <2>4
<1>7. CASE ReleaseSpotsHeld(p)
    <2>1. UNCHANGED venueVars /\ "spots" \in Keys /\ Holds(p, "spots")
        BY <1>7 DEF ReleaseSpotsHeld, Keys
    <2>2. \/ /\ ReleasesNow("spots", calls[p].who) /\ Drop("spots", calls[p].who)
             /\ EndCall(p)
          \/ /\ ~ReleasesNow("spots", calls[p].who) /\ Goto(p, "unsubSpots")
             /\ UNCHANGED <<consumers, locks, maybe, failedRestores>>
        BY <1>7 DEF ReleaseSpotsHeld
    <2>3. LiveWhileUp' /\ \A j \in Keys : consumers'[j] \subseteq consumers[j]
        BY <1>5, <2>1, <2>2
    <2>4. LocksInv' /\ AloneInv'
        <3>1. ~ReleasesNow("spots", calls[p].who) => consumers["spots"] \subseteq {calls[p].who}
            BY DEF ReleasesNow
        <3> QED
            BY <2>1, <2>2, <2>3, <3>1, IdleLive
    <2> QED
        BY <2>3, <2>4
<1>8. ASSUME calls[p].pc \in {"unsubBars", "unsubSpots"}, NEW k \in Keys, k = Unsubscribing(p)
      PROVE  /\ consumers[k] \subseteq {calls[p].who}
             /\ k = "spots" <=> calls[p].pc = "unsubSpots"
    BY <1>0, <1>8 DEF Unsubscribing, AloneInv
<1>9. CASE Unsubscribed(p)
    <2>1. PICK k \in Keys : k = Unsubscribing(p)
        BY DEF Unsubscribing, Keys
    <2>2. /\ calls[p].pc \in {"unsubBars", "unsubSpots"} /\ Drop(k, calls[p].who)
          /\ venue' = venue \/ venue' = VenueDrops(k)
          /\ legCut' = (legCut \/ CutsLeg(p))
          /\ EndCall(p) \/ (Goto(p, "undoSpots") /\ locks' = Enqueue(p, "spots"))
        BY <1>9, <2>1 DEF Unsubscribed, ThenSpots
    <2>3. consumers'[k] = {} /\ \A j \in Keys : j # k => consumers'[j] = consumers[j]
        BY <1>4, <1>8, <2>1, <2>2
    <2>4. LocksInv' /\ AloneInv'
        BY <2>2, <2>3, IdleLive
    <2>5. ASSUME NEW j \in Keys, j # k, consumers'[j] # {}, j = "bars" => ~legCut'
          PROVE  /\ consumers[j] # {} /\ (j = "bars" => ~legCut)
                 /\ LiveOrKnown(j) => LiveOrKnown(j)'
        <3>1. consumers[j] # {} /\ k # "spots"
            BY <1>8, <2>1, <2>2, <2>3, <2>5 DEF CutsLeg, Keys
        <3>2. \A S \in {venue, maybe, failedRestores} : j \in S => j \in S \ {k}
            BY <2>5
        <3>3. LiveOrKnown(j) => LiveOrKnown(j)'
            BY <1>1, <2>2, <3>1, <3>2 DEF LiveOrKnown, Drop, VenueDrops
        <3> QED
            BY <2>2, <2>5, <3>1, <3>3
    <2>6. LiveWhileUp'
        BY <1>0, <1>3, <2>3, <2>5 DEF LiveWhileUp
    <2> QED
        BY <2>4, <2>6
<1>10. CASE UnsubscribeCancelled(p)
    <2>1. PICK k \in Keys : k = Unsubscribing(p)
        BY DEF Unsubscribing, Keys
    <2>2. /\ calls[p].pc \in {"unsubBars", "unsubSpots"}
          /\ UNCHANGED <<consumers, failedRestores>> /\ maybe' = maybe \cup {k}
          /\ venue' = venue \/ venue' = VenueDrops(k)
          /\ legCut' = (legCut \/ CutsLeg(p))
          /\ EndCall(p) \/ (Goto(p, "undoSpots") /\ locks' = Enqueue(p, "spots"))
        BY <1>10, <2>1 DEF UnsubscribeCancelled, ThenSpots, MaybeAfterCancel
    <2>3. LocksInv' /\ AloneInv'
        BY <2>2, IdleLive
    <2>4. ASSUME NEW j \in Keys, j # k, consumers'[j] # {}, j = "bars" => ~legCut'
          PROVE  /\ consumers[j] # {} /\ (j = "bars" => ~legCut)
                 /\ LiveOrKnown(j) => LiveOrKnown(j)'
        <3>1. consumers[j] # {} /\ k # "spots"
            BY <1>8, <2>1, <2>2, <2>4 DEF CutsLeg, Keys
        <3> QED
            BY <1>1, <2>2, <2>4, <3>1 DEF LiveOrKnown, VenueDrops
    <2>5. LiveOrKnown(k)'
        BY <2>2 DEF LiveOrKnown
    <2>6. LiveWhileUp'
        BY <1>0, <1>3, <2>4, <2>5 DEF LiveWhileUp
    <2> QED
        BY <2>3, <2>6
<1>11. CASE CancelledWaiting(p)
    <2>1. /\ UNCHANGED <<consumers, maybe, failedRestores, venueVars>> /\ EndCall(p) /\ "bars" \in Keys
        BY <1>11 DEF CancelledWaiting, Keys
    <2> QED
        BY <1>5, <2>1, IdleLive
<1> QED
    BY <1>6, <1>7, <1>9, <1>10, <1>11

-----------------------------------------------------------------------------
(* Live: the session and its restores *)

LEMMA NoRestoreShape ==
    /\ NoRestore.key = "none" /\ NoRestore.pc = "idle" /\ NoRestore.cut = FALSE
    /\ [NoRestore EXCEPT !.cut = FALSE] = NoRestore
    /\ NoRestore \in [key : Keys \cup {"none"}, pc : {"idle", "want", "sending"}, step : 0..2,
                      cut : BOOLEAN, of : Nat]
<1>1. /\ NoRestore.key = "none" /\ NoRestore.pc = "idle" /\ NoRestore.cut = FALSE
      /\ NoRestore \in [key : Keys \cup {"none"}, pc : {"idle", "want", "sending"}, step : 0..2,
                        cut : BOOLEAN, of : Nat]
    BY DEF NoRestore
<1>2. \A e \in [key : Keys \cup {"none"}, pc : {"idle", "want", "sending"}, step : 0..2,
                 cut : BOOLEAN, of : Nat] : e.cut = FALSE => [e EXCEPT !.cut = FALSE] = e
    OBVIOUS
<1> QED
    BY <1>1, <1>2

\* Steps of the session and of its tasks leave the calls' places and consumers alone.
LEMMA PlacesKept ==
    ASSUME LocksInv, AloneInv, UNCHANGED consumers,
           \A p \in Calls : /\ calls'[p].op = calls[p].op /\ calls'[p].who = calls[p].who
                            /\ calls'[p].pc = calls[p].pc,
           \/ UNCHANGED locks
           \/ \E r \in Restorers :
                 \/ \E j \in Keys : locks' = Enqueue(r, j)
                 \/ locks' = ReleaseAll(r)
                 \/ \E j \in Keys : locks' = [ReleaseAll(r) EXCEPT ![j] = Append(@, r)]
    PROVE  LocksInv' /\ AloneInv'
<1>1. \A p \in Calls, r \in Restorers : p # r /\ r \in Tasks
    BY SubscriptionsAssumption DEF Restorers, Tasks
<1>2. /\ locks' \in [Keys -> Seq(Tasks)]
      /\ \A p \in Calls, k \in Keys : Holds(p, k) => Holds(p, k)'
    <2>1. CASE UNCHANGED locks
        BY <2>1 DEF LocksInv, Holds
    <2>2. ASSUME NEW r \in Restorers,
                 \/ \E j \in Keys : locks' = Enqueue(r, j)
                 \/ locks' = ReleaseAll(r)
                 \/ \E j \in Keys : locks' = [ReleaseAll(r) EXCEPT ![j] = Append(@, r)]
          PROVE  /\ locks' \in [Keys -> Seq(Tasks)]
                 /\ \A p \in Calls, k \in Keys : Holds(p, k) => Holds(p, k)'
        <3>1. /\ locks' \in [Keys -> Seq(Tasks)]
              /\ \A k \in Keys : \A q : q # r /\ Holds(q, k) => Holds(q, k)'
            <4>1. r \in Tasks /\ locks \in [Keys -> Seq(Tasks)]
                BY DEF Tasks, LocksInv
            <4> QED
                BY <2>2, <4>1, LocksMove
        <3> QED
            BY <1>1, <3>1
    <2> QED
        BY <2>1, <2>2
<1>3. ASSUME NEW p \in Calls PROVE OwnLocks(p)'
    <2>1. OwnLocks(p)
        BY DEF LocksInv
    <2>2. (Holds(p, "spots") => Holds(p, "spots")') /\ (Holds(p, "bars") => Holds(p, "bars")')
        BY <1>2 DEF Keys
    <2> QED
        BY <2>1, <2>2 DEF OwnLocks
<1> QED
    BY <1>2, <1>3 DEF LocksInv, AloneInv

LEMMA SessionLive ==
    ASSUME LiveInv, Attach \/ Detach \/ Lose \/ BringUp \/ BecomeReady
    PROVE  LiveInv'
<1>0. /\ RegistryShape /\ RestoresAreCounted /\ LocksInv /\ AloneInv /\ RestoringInv /\ LiveWhileUp
      /\ RegistryInv'
    BY RegistryStep DEF LiveInv, RegistryInv, Next
<1>1. CASE Attach \/ Detach \/ BringUp \/ BecomeReady
    <2>1. UNCHANGED <<consumers, calls, locks, restoring, maybe>>
        BY <1>1 DEF Attach, Detach, BringUp, BecomeReady, callVars
    <2>2. LocksInv' /\ AloneInv'
        BY <1>0, <2>1, PlacesKept
    <2>3. ~Accepting' \/ (Accepting /\ UNCHANGED bringUps) \/ BringUp
        BY <1>1 DEF Attach, Detach, BecomeReady, Accepting
    <2>4. bringUps' \in Nat
        BY <1>0, <1>1 DEF Attach, Detach, BringUp, BecomeReady, RestoringInv
    <2>5. BringUp => restoring["bringUp"].cut = FALSE
        BY NoRestoreShape DEF BringUp
    <2>6. RestoringInv'
        BY <1>0, <2>1, <2>3, <2>4, <2>5 DEF RestoringInv
    <2>7. CASE BringUp
        <3>1. todo' = {k \in Keys : consumers'[k] # {}}
            BY <1>0, <2>1, <2>7 DEF BringUp, RestoresAreCounted
        <3> QED
            BY <1>0, <2>2, <2>6, <3>1 DEF LiveInv, LiveWhileUp, LiveOrKnown
    <2>8. CASE ~BringUp
        <3>1. Accepting' => Accepting /\ UNCHANGED <<venueVars, failedRestores, todo>>
            BY <1>1, <2>8 DEF Attach, Detach, BecomeReady, Accepting
        <3>2. LiveWhileUp'
            BY <1>0, <2>1, <3>1 DEF LiveWhileUp, LiveOrKnown, venueVars
        <3> QED
            BY <1>0, <2>2, <2>6, <3>2 DEF LiveInv
    <2> QED
        BY <2>7, <2>8
<1>2. CASE Lose
    <2>1. /\ UNCHANGED <<consumers, locks, bringUps>> /\ session' = "down"
          /\ calls' = [p \in Calls |-> [calls[p] EXCEPT !.cut = calls[p].cut \/
                          calls[p].pc \in {"subSpots", "subBars", "unsubBars", "unsubSpots"}]]
          /\ restoring' = [r \in Restorers |->
                [restoring[r] EXCEPT !.cut = restoring[r].cut \/ restoring[r].pc = "sending"]]
        BY <1>2 DEF Lose, CutRequests
    <2>2. ASSUME NEW p \in Calls
          PROVE  /\ calls'[p].op = calls[p].op /\ calls'[p].who = calls[p].who
                 /\ calls'[p].pc = calls[p].pc
        <3> DEFINE b == calls[p].cut \/
                           calls[p].pc \in {"subSpots", "subBars", "unsubBars", "unsubSpots"}
        <3>1. calls'[p] = [calls[p] EXCEPT !.cut = b] /\ calls[p] \in CallType
            BY <1>0, <2>1 DEF RegistryShape
        <3> HIDE DEF b
        <3> QED
            BY <3>1 DEF CallType
    <2>3. LocksInv' /\ AloneInv'
        BY <1>0, <2>1, <2>2, PlacesKept
    <2> DEFINE Shape == [key : Keys \cup {"none"}, pc : {"idle", "want", "sending"}, step : 0..2,
                         cut : BOOLEAN, of : Nat]
    <2>4. ASSUME NEW r \in Restorers
          PROVE  /\ restoring'[r] \in Shape
                 /\ \/ restoring'[r] = NoRestore
                    \/ /\ restoring'[r].pc \in {"want", "sending"}
                       /\ restoring'[r].key \in Keys /\ restoring'[r].step \in {1, 2}
        <3> DEFINE b == restoring[r].cut \/ restoring[r].pc = "sending"
        <3>1. restoring[r] \in Shape /\ b \in BOOLEAN
            BY <1>0 DEF RestoringInv
        <3>2. restoring'[r] = [restoring[r] EXCEPT !.cut = b]
            BY <2>1
        <3>3. restoring[r] = NoRestore => restoring'[r] = NoRestore
            <4>1. restoring[r] = NoRestore => b = FALSE
                BY NoRestoreShape
            <4> HIDE DEF b
            <4> QED
                BY <3>2, <4>1, NoRestoreShape
        <3>4. \/ restoring[r] = NoRestore
              \/ /\ restoring[r].pc \in {"want", "sending"}
                 /\ restoring[r].key \in Keys /\ restoring[r].step \in {1, 2}
            BY <1>0 DEF RestoringInv
        <3> HIDE DEF b
        <3>5. /\ restoring'[r] \in Shape /\ restoring'[r].pc = restoring[r].pc
              /\ restoring'[r].key = restoring[r].key /\ restoring'[r].step = restoring[r].step
            BY <3>1, <3>2
        <3> QED
            BY <3>3, <3>4, <3>5
    <2>5. RestoringInv'
        <3>1. restoring' \in [Restorers -> Shape]
            BY <2>1, <2>4
        <3>2. ~Accepting' /\ bringUps' \in Nat
            BY <1>0, <2>1 DEF Accepting, RestoringInv
        <3> QED
            BY <2>4, <3>1, <3>2 DEF RestoringInv
    <2>6. LiveWhileUp'
        BY <2>1 DEF LiveWhileUp, Accepting
    <2> QED
        BY <1>0, <2>3, <2>5, <2>6 DEF LiveInv
<1> QED
    BY <1>1, <1>2

\* A step of the restore that task r runs leaves it idle or at work for the same key.
LEMMA RestoringMoves ==
    ASSUME RestoringInv, UNCHANGED <<session, bringUps>>, NEW r \in Restorers, NEW new,
           restoring' = [restoring EXCEPT ![r] = new],
           \/ new = NoRestore
           \/ /\ new \in [key : Keys, pc : {"want", "sending"}, step : {1, 2}, cut : BOOLEAN, of : Nat]
              /\ new.cut => restoring[r].cut
    PROVE  RestoringInv'
<1> DEFINE Shape == [key : Keys \cup {"none"}, pc : {"idle", "want", "sending"}, step : 0..2,
                     cut : BOOLEAN, of : Nat]
<1>1. new \in Shape
    BY NoRestoreShape
<1>2. /\ restoring' \in [Restorers -> Shape] /\ restoring'[r] = new
      /\ \A s \in Restorers : s # r => restoring'[s] = restoring[s]
    BY <1>1 DEF RestoringInv
<1>3. \A s \in Restorers :
         \/ restoring'[s] = NoRestore
         \/ /\ restoring'[s].pc \in {"want", "sending"}
            /\ restoring'[s].key \in Keys /\ restoring'[s].step \in {1, 2}
    BY <1>2 DEF RestoringInv
<1>4. restoring'["bringUp"].cut => ~Accepting'
    <2>1. "bringUp" \in Restorers /\ (Accepting' <=> Accepting)
        BY DEF Restorers, Accepting
    <2> QED
        BY <1>2, <2>1, NoRestoreShape DEF RestoringInv
<1>5. bringUps' \in Nat
    BY DEF RestoringInv
<1> QED
    BY <1>2, <1>3, <1>4, <1>5 DEF RestoringInv

LEMMA RestoreLive ==
    ASSUME LiveInv,
           \/ \E k \in Keys : RunRestore(k) \/ RetryRestore(k)
           \/ \E r \in Restorers : RestoreLocked(r) \/ RestoreAccepted(r) \/ RestoreFails(r)
    PROVE  LiveInv'
<1>0. /\ LocksInv /\ AloneInv /\ RestoringInv /\ LiveWhileUp
      /\ RegistryInv'
    BY RegistryStep DEF LiveInv, Next
<1>1. UNCHANGED <<consumers, calls, session, bringUps, legCut>>
    BY DEF RunRestore, RetryRestore, RestoreLocked, RestoreAccepted, RestoreFails, callVars, venueVars
<1>2. (Accepting' <=> Accepting) /\ "bringUp" \in Restorers /\ "retry" \in Restorers /\ "bringUp" # "retry"
    BY <1>1 DEF Accepting, Restorers
\* What each of the steps does, and what is left to show of it.
<1>3. ASSUME NEW r \in Restorers, NEW new, restoring' = [restoring EXCEPT ![r] = new],
             \/ new = NoRestore
             \/ /\ new \in [key : Keys, pc : {"want", "sending"}, step : {1, 2}, cut : BOOLEAN, of : Nat]
                /\ new.cut => restoring[r].cut,
             \/ UNCHANGED locks
             \/ \E j \in Keys : locks' = Enqueue(r, j)
             \/ locks' = ReleaseAll(r)
             \/ \E j \in Keys : locks' = [ReleaseAll(r) EXCEPT ![j] = Append(@, r)],
             Accepting => \A k \in Keys : consumers[k] # {} /\ LiveOrKnown(k) => LiveOrKnown(k)'
      PROVE  LiveInv'
    <2>1. RestoringInv'
        BY <1>0, <1>1, <1>3, RestoringMoves
    <2>2. LocksInv' /\ AloneInv'
        BY <1>0, <1>1, <1>3, PlacesKept
    <2>3. LiveWhileUp'
        BY <1>0, <1>1, <1>2, <1>3 DEF LiveWhileUp
    <2> QED
        BY <1>0, <2>1, <2>2, <2>3 DEF LiveInv
<1>4. ASSUME NEW r \in Restorers
      PROVE  /\ restoring[r] \in [key : Keys \cup {"none"}, pc : {"idle", "want", "sending"}, step : 0..2,
                                  cut : BOOLEAN, of : Nat]
             /\ restoring[r].pc # "idle" => restoring[r].key \in Keys /\ restoring[r].step \in {1, 2}
             /\ \A new : restoring' = [restoring EXCEPT ![r] = new] =>
                    restoring'[r] = new /\ \A s \in Restorers : s # r => restoring'[s] = restoring[s]
    BY <1>0, NoRestoreShape DEF RestoringInv
<1>5. ASSUME NEW k \in Keys, RunRestore(k) \/ RetryRestore(k) PROVE LiveInv'
    <2> DEFINE new == [key |-> k, pc |-> "want", step |-> IF k = "bars" THEN 1 ELSE 2,
                       cut |-> FALSE, of |-> bringUps]
    <2>1. PICK r \in Restorers : /\ restoring[r] = NoRestore /\ BeginRestore(r, k)
                                 /\ r = "bringUp" => RunRestore(k)
                                 /\ r = "retry" => RetryRestore(k)
        BY <1>2, <1>5 DEF RunRestore, RetryRestore
    <2>2. restoring' = [restoring EXCEPT ![r] = new] /\ locks' = Enqueue(r, k)
        BY <2>1 DEF BeginRestore
    <2>3. /\ new \in [key : Keys, pc : {"want", "sending"}, step : {1, 2}, cut : BOOLEAN, of : Nat]
          /\ new.cut = FALSE /\ new.key = k
        BY <1>0 DEF RestoringInv
    <2> HIDE DEF new
    <2>4. restoring'[r].key = k /\ \A s \in Restorers : s # r => restoring'[s] = restoring[s]
        BY <1>4, <2>2, <2>3
    <2>5. /\ UNCHANGED <<venue, failedRestores, maybe>>
          /\ todo' = todo \/ (r = "bringUp" /\ todo' = todo \ {k})
        BY <2>1 DEF RunRestore, RetryRestore, venueVars, Restorers
    <2>6. ASSUME NEW j \in Keys, LiveOrKnown(j) PROVE LiveOrKnown(j)'
        <3>1. CASE r = "bringUp"
            <4>1. restoring["bringUp"].key = "none" /\ j # "none" /\ restoring'["bringUp"].key = k
                BY <2>1, <2>4, <3>1, NoRestoreShape DEF Keys
            <4> QED
                BY <2>5, <2>6, <4>1 DEF LiveOrKnown
        <3>2. CASE r # "bringUp"
            BY <1>2, <2>4, <2>5, <2>6, <3>2 DEF LiveOrKnown
        <3> QED
            BY <3>1, <3>2
    <2> QED
        BY <1>3, <2>2, <2>3, <2>6
\* restore() ends: its key is live, or gone, or listed, or the connection is.
<1>6. ASSUME NEW r \in Restorers, EndRestore(r), restoring[r].pc # "idle",
             NEW key, key = restoring[r].key, venue \subseteq venue',
             \A k \in Keys : k # key =>
                    /\ k \in failedRestores => k \in failedRestores'
                    /\ k \in maybe => k \in maybe',
             Accepting => todo \subseteq todo',
             Accepting /\ consumers[key] # {} =>
                \/ LiveOrKnown(key)'
                \/ r # "bringUp" /\ UNCHANGED <<maybe, failedRestores>>
      PROVE  LiveInv'
    <2>1. restoring' = [restoring EXCEPT ![r] = NoRestore] /\ locks' = ReleaseAll(r)
        BY <1>6 DEF EndRestore
    <2>2. restoring'[r] = NoRestore /\ \A s \in Restorers : s # r => restoring'[s] = restoring[s]
        BY <1>4, <2>1
    <2>3. ASSUME Accepting, NEW j \in Keys, consumers[j] # {}, LiveOrKnown(j) PROVE LiveOrKnown(j)'
        <3>1. CASE j # key
            BY <1>2, <1>6, <2>2, <2>3, <3>1 DEF LiveOrKnown
        <3>2. CASE j = key /\ LiveOrKnown(key)'
            BY <3>2
        <3>3. CASE r # "bringUp" /\ UNCHANGED <<maybe, failedRestores>>
            BY <1>2, <1>6, <2>2, <2>3, <3>3 DEF LiveOrKnown
        <3> QED
            BY <1>6, <2>3, <3>1, <3>2, <3>3
    <2> QED
        BY <1>3, <2>1, <2>3

<1>7. ASSUME NEW r \in Restorers, RestoreLocked(r) PROVE LiveInv'
    <2>1. /\ restoring[r].pc = "want" /\ UNCHANGED <<venue, maybe>>
          /\ restoring[r].key \in Keys
        BY <1>4, <1>7 DEF RestoreLocked, venueVars
    <2>2. CASE consumers[restoring[r].key] = {} /\ RestoreReturns(r)
        <3>1. /\ EndRestore(r) /\ UNCHANGED todo
              /\ failedRestores' = failedRestores \/ failedRestores' = failedRestores \ {restoring[r].key}
            BY <2>2 DEF RestoreReturns
        <3> QED
            BY <1>6, <2>1, <2>2, <3>1
    <2>3. CASE ~Accepting /\ RestoreRaises(r, TRUE)
        <3>1. EndRestore(r) /\ UNCHANGED failedRestores
            BY <2>3 DEF RestoreRaises
        <3> QED
            BY <1>6, <2>1, <2>3, <3>1
    <2>4. CASE /\ restoring' = [restoring EXCEPT ![r].pc = "sending"]
               /\ UNCHANGED <<locks, failedRestores, todo>>
        <3> DEFINE new == [restoring[r] EXCEPT !.pc = "sending"]
        <3>1. restoring' = [restoring EXCEPT ![r] = new]
            BY <2>4
        <3>2. /\ new \in [key : Keys, pc : {"want", "sending"}, step : {1, 2}, cut : BOOLEAN, of : Nat]
              /\ new.cut = restoring[r].cut /\ new.key = restoring[r].key
            <4> DEFINE Busy == [key : Keys, pc : {"want", "sending"}, step : {1, 2},
                                cut : BOOLEAN, of : Nat]
            <4>1. restoring[r] \in Busy
                BY <1>4, <2>1
            <4>2. \A e \in Busy : LET busy == [e EXCEPT !.pc = "sending"]
                                 IN busy \in Busy /\ busy.cut = e.cut /\ busy.key = e.key
                OBVIOUS
            <4> QED
                BY <4>1, <4>2
        <3> HIDE DEF new
        <3>3. restoring'["bringUp"].key = restoring["bringUp"].key
            BY <1>2, <1>4, <3>1, <3>2
        <3>4. \A k \in Keys : LiveOrKnown(k) => LiveOrKnown(k)'
            BY <2>1, <2>4, <3>3 DEF LiveOrKnown
        <3> QED
            BY <1>3, <2>4, <3>1, <3>2, <3>4
    <2> QED
        BY <1>7, <2>2, <2>3, <2>4 DEF RestoreLocked
<1>8. ASSUME NEW r \in Restorers, RestoreAccepted(r) PROVE LiveInv'
    <2>1. /\ restoring[r].pc = "sending" /\ venue' = venue \cup {RestoreRequest(r)}
          /\ restoring[r].key \in Keys
        BY <1>4, <1>8 DEF RestoreAccepted
    <2>2. CASE /\ restoring[r].step = 1
               /\ restoring' = [restoring EXCEPT ![r].step = 2, ![r].pc = "want"]
               /\ locks' = [ReleaseAll(r) EXCEPT ![restoring[r].key] = Append(@, r)]
               /\ UNCHANGED <<maybe, failedRestores, todo>>
        <3> DEFINE new == [restoring[r] EXCEPT !.step = 2, !.pc = "want"]
        <3>1. restoring' = [restoring EXCEPT ![r] = new]
            BY <1>0, <2>2 DEF RestoringInv
        <3>2. /\ new \in [key : Keys, pc : {"want", "sending"}, step : {1, 2}, cut : BOOLEAN, of : Nat]
              /\ new.cut = restoring[r].cut /\ new.key = restoring[r].key
            <4> DEFINE Busy == [key : Keys, pc : {"want", "sending"}, step : {1, 2},
                                cut : BOOLEAN, of : Nat]
            <4>1. restoring[r] \in Busy
                BY <1>4, <2>1
            <4>2. \A e \in Busy : LET busy == [e EXCEPT !.step = 2, !.pc = "want"]
                                 IN busy \in Busy /\ busy.cut = e.cut /\ busy.key = e.key
                OBVIOUS
            <4> QED
                BY <4>1, <4>2
        <3> HIDE DEF new
        <3>3. restoring'["bringUp"].key = restoring["bringUp"].key
            BY <1>2, <1>4, <3>1, <3>2
        <3>4. \A k \in Keys : LiveOrKnown(k) => LiveOrKnown(k)'
            BY <2>1, <2>2, <3>3 DEF LiveOrKnown
        <3> QED
            BY <1>3, <2>1, <2>2, <3>1, <3>2, <3>4
    <2>3. CASE restoring[r].step = 2 /\ maybe' = maybe \ {restoring[r].key} /\ RestoreReturns(r)
        <3>1. /\ EndRestore(r) /\ UNCHANGED todo
              /\ failedRestores' = failedRestores \/ failedRestores' = failedRestores \ {restoring[r].key}
            BY <2>3 DEF RestoreReturns
        <3>2. PICK key : key = restoring[r].key
            OBVIOUS
        <3>3. LiveOrKnown(key)'
            BY <2>1, <2>3, <3>2 DEF RestoreRequest, LiveOrKnown
        <3> QED
            BY <1>6, <2>1, <2>3, <3>1, <3>2, <3>3
    <2> QED
        BY <1>8, <2>2, <2>3 DEF RestoreAccepted
<1>9. ASSUME NEW r \in Restorers, RestoreFails(r) PROVE LiveInv'
    <2>1. /\ restoring[r].pc = "sending" /\ venue \subseteq venue' /\ UNCHANGED maybe
          /\ restoring[r].key \in Keys /\ EndRestore(r)
          /\ failedRestores' = IF r = "bringUp" /\ ~restoring[r].cut
                               THEN failedRestores \cup {restoring[r].key} ELSE failedRestores
          /\ todo' = IF r = "bringUp" /\ restoring[r].cut THEN {} ELSE todo
        BY <1>4, <1>9 DEF RestoreFails, RestoreRaises
    <2>2. Accepting /\ r = "bringUp" => ~restoring[r].cut
        BY <1>0 DEF RestoringInv
    <2> QED
        BY <1>6, <2>1, <2>2 DEF LiveOrKnown
<1> QED
    BY <1>5, <1>7, <1>8, <1>9

LEMMA LiveStep == LiveInv /\ [Next]_vars => LiveInv'
<1> SUFFICES ASSUME LiveInv, [Next]_vars PROVE LiveInv'
    OBVIOUS
<1>1. CASE UNCHANGED vars
    <2>1. RegistryInv'
        BY RegistryStep DEF LiveInv
    <2> QED
        BY <1>1, <2>1 DEF vars, callVars, venueVars, LiveInv, LocksInv, OwnLocks, AloneInv, RestoringInv,
                          LiveWhileUp, LiveOrKnown, Accepting, Holds
<1> QED
    BY <1>1, BeginLive, SubscribeLive, ReleaseLive, SessionLive, RestoreLive DEF Next

LEMMA LiveInit == Init => LiveInv
<1> SUFFICES ASSUME Init PROVE LiveInv
    OBVIOUS
<1>1. RegistryInv
    BY RegistryInit
<1>2. \A p \in Calls : calls[p].pc = "idle"
    BY NoCallTyped DEF Init
<1>3. LocksInv /\ AloneInv
    BY <1>2 DEF Init, LocksInv, AloneInv, OwnLocks
<1>4. RestoringInv
    BY NoRestoreShape DEF Init, RestoringInv, Accepting, Restorers
<1>5. LiveWhileUp
    BY DEF Init, LiveWhileUp, Accepting
<1> QED
    BY <1>1, <1>3, <1>4, <1>5 DEF LiveInv

\* Whatever calls overlap, fail, time out or are cancelled, over whichever losses and
\* bring-ups: once everything is quiet on a session that is ready, a counted key is
\* streamed by the venue, or listed for a restore retry, or marked as unknown.
THEOREM CountedStaysLive == Spec => []CountedIsLive
<1>1. LiveInv => CountedIsLive
    <2> SUFFICES ASSUME LiveInv, session = "ready", Quiet, NEW k \in Keys,
                        consumers[k] # {}, k = "bars" => ~legCut
                 PROVE  k \in venue \cup failedRestores \cup maybe
        BY DEF CountedIsLive
    <2>1. LiveOrKnown(k) /\ todo = {} /\ k # "none"
        BY DEF LiveInv, LiveWhileUp, Accepting, Quiet, Keys
    <2>2. restoring["bringUp"].key = "none"
        BY NoRestoreShape DEF LiveInv, RestoringInv, Quiet, Restorers
    <2> QED
        BY <2>1, <2>2 DEF LiveOrKnown
<1> QED
    BY <1>1, LiveInit, LiveStep, PTL DEF Spec

=============================================================================
