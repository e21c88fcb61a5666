---------------------------- MODULE DeliveryProofs ----------------------------
(***************************************************************************)
(* Proofs about Delivery, for any number of records, detaches and          *)
(* reconnects: Nautilus is told of things in the order they were made,     *)
(* whatever waits in the outbox has a delivery that will be woken, and no  *)
(* answer to a command is lost.                                            *)
(*                                                                         *)
(* The order is that of the line seen, queue, outbox.  Ids grow along the  *)
(* queue and the outbox, and the outbox comes after all the rest; what is  *)
(* in Nautilus's queue is still tracked, so a report goes ahead of it only *)
(* where a detach has let go of it.                                        *)
(***************************************************************************)
EXTENDS Delivery, TLAPS, FiniteSetTheorems, SequenceTheorems, WellFoundedInduction

-----------------------------------------------------------------------------
(* The operators *)

\* The places picked are counted through in their order, each once (IdsAt()).
LEMMA PlacesInOrder ==
    ASSUME NEW items, NEW places, NEW L \in Nat, places \subseteq 1..L
    PROVE  LET n == Cardinality(places) IN
           /\ n \in Nat
           /\ DOMAIN IdsAt(items, places) = 1..n
           /\ \E at \in [1..n -> places] :
                 /\ \A m \in 1..n : IdsAt(items, places)[m] = items[at[m]].id
                 /\ \A m, k \in 1..n : m < k => at[m] < at[k]
                 /\ \A i \in places : \E m \in 1..n : at[m] = i
<1> DEFINE n == Cardinality(places)
           upTo(i) == {k \in places : k <= i}
           rank == [i \in places |-> Cardinality(upTo(i))]
           at == [m \in 1..n |-> CHOOSE i \in places : Cardinality(upTo(i)) = m]
<1>0. \A i \in places : i \in Nat
  OBVIOUS
<1>1. IsFiniteSet(places) /\ n \in Nat
  <2>1. IsFiniteSet(1..L)
    BY FS_Interval
  <2> QED BY <2>1, FS_Subset, FS_CardinalityType
<1>2. ASSUME NEW i \in places
      PROVE  /\ IsFiniteSet(upTo(i)) /\ Cardinality(upTo(i)) \in 1..n
             /\ Cardinality(upTo(i)) \in Nat
  <2>1. IsFiniteSet(upTo(i)) /\ Cardinality(upTo(i)) <= n
    BY <1>1, FS_Subset
  <2>2. Cardinality(upTo(i)) \in Nat
    BY <2>1, FS_CardinalityType
  <2>3. i \in upTo(i)
    OBVIOUS
  <2>4. Cardinality(upTo(i)) # 0
    BY <2>1, <2>3, FS_EmptySet
  <2> QED BY <1>1, <2>1, <2>2, <2>4
<1>3. ASSUME NEW i \in places, NEW j \in places, i < j
      PROVE  Cardinality(upTo(i)) < Cardinality(upTo(j))
  <2>1. upTo(i) \subseteq upTo(j) /\ j \in upTo(j) /\ j \notin upTo(i)
    <3>1. i \in Nat /\ j \in Nat /\ i < j
      BY <1>0, <1>3
    <3>2. ASSUME NEW k \in upTo(i)
          PROVE  k \in upTo(j)
      BY <3>1, <3>2, <1>0
    <3>3. j \in upTo(j) /\ j \notin upTo(i)
      BY <3>1
    <3> QED BY <3>2, <3>3
  <2>2. Cardinality(upTo(i)) <= Cardinality(upTo(j)) /\ Cardinality(upTo(i)) # Cardinality(upTo(j))
    BY <2>1, <1>2, FS_Subset
  <2> QED BY <2>2, <1>2
<1> HIDE DEF upTo
<1>4. rank \in Injection(places, 1..n)
  <2>1. rank \in [places -> 1..n]
    BY <1>2
  <2>2. \A i, j \in places : i # j => rank[i] # rank[j]
    <3> SUFFICES ASSUME NEW i \in places, NEW j \in places, i # j
                 PROVE  rank[i] # rank[j]
      OBVIOUS
    <3>1. i < j \/ j < i
      OBVIOUS
    <3> QED BY <3>1, <1>2, <1>3
  <2> QED BY <2>1, <2>2 DEF Injection, IsInjective
<1>5. IsFiniteSet(1..n) /\ Cardinality(1..n) = n
  BY <1>1, FS_Interval
<1>6. rank \in Surjection(places, 1..n)
  BY <1>4, <1>5, FS_Injection
<1>7. \A m \in 1..n : at[m] \in places /\ Cardinality(upTo(at[m])) = m
  <2> SUFFICES ASSUME NEW m \in 1..n
               PROVE  at[m] \in places /\ Cardinality(upTo(at[m])) = m
    OBVIOUS
  <2>1. \E i \in places : rank[i] = m
    BY <1>6 DEF Surjection
  <2> QED BY <2>1
<1>8. \A m, k \in 1..n : m < k => at[m] < at[k]
  <2> SUFFICES ASSUME NEW m \in 1..n, NEW k \in 1..n, m < k
               PROVE  at[m] < at[k]
    OBVIOUS
  <2>1. at[m] \in places /\ at[k] \in places /\ Cardinality(upTo(at[m])) < Cardinality(upTo(at[k]))
    BY <1>7
  <2> HIDE DEF at
  <2>2. PICK i \in places, j \in places : i = at[m] /\ j = at[k]
    BY <2>1
  <2>3. i \in Nat /\ j \in Nat /\ (j < i => Cardinality(upTo(j)) < Cardinality(upTo(i)))
    BY <1>0, <1>3
  <2>4. Cardinality(upTo(i)) \in Nat /\ Cardinality(upTo(j)) \in Nat
    BY <1>2
  <2> QED BY <2>1, <2>2, <2>3, <2>4
<1>9. \A i \in places : \E m \in 1..n : at[m] = i
  <2> SUFFICES ASSUME NEW i \in places
               PROVE  \E m \in 1..n : at[m] = i
    OBVIOUS
  <2>1. PICK m \in 1..n : m = Cardinality(upTo(i))
    BY <1>2
  <2>2. at[m] \in places /\ Cardinality(upTo(at[m])) = Cardinality(upTo(i))
    BY <1>7, <2>1
  <2> HIDE DEF at
  <2>3. PICK j \in places : j = at[m]
    BY <2>2
  <2>4. /\ i \in Nat /\ j \in Nat
        /\ j < i => Cardinality(upTo(j)) < Cardinality(upTo(i))
        /\ i < j => Cardinality(upTo(i)) < Cardinality(upTo(j))
    BY <1>0, <1>3
  <2>5. Cardinality(upTo(i)) \in Nat /\ Cardinality(upTo(j)) \in Nat
    BY <1>2
  <2> QED BY <2>2, <2>3, <2>4, <2>5
<1>10. IdsAt(items, places) = [m \in 1..n |-> items[at[m]].id]
  BY DEF IdsAt, upTo
<1>11. at \in [1..n -> places]
  BY <1>7
<1> HIDE DEF at
<1> QED BY <1>1, <1>8, <1>9, <1>10, <1>11

\* A set of places that is not empty has a first.
LEMMA LeastPlace ==
    ASSUME NEW S, S \subseteq Nat, S # {}
    PROVE  \E x \in S : \A y \in S : x <= y
<1>1. PICK x \in S : \A y \in S : ~(<<y, x>> \in OpToRel(<, Nat))
  BY NatLessThanWellFounded, WFMin
<1>2. \A y \in S : ~(y < x)
  BY <1>1 DEF OpToRel
<1> QED BY <1>2

\* A turn of the delivery is the outbox up to some place: no report in it comes after an
\* event in it, and if it leaves anything behind it has sent an event.
LEMMA TurnTakes ==
    ASSUME NEW T, outbox \in Seq(T)
    PROVE  \E last \in 0..Len(outbox) :
              /\ Turn = SubSeq(outbox, 1, last)
              /\ \A i \in 1..last, j \in 1..last :
                    (AppliedAtOnce(outbox[i]) /\ IsEvent(outbox[j])) => i < j
              /\ last # Len(outbox) => \E j \in 1..last : IsEvent(outbox[j])
<1> DEFINE blocked == {i \in DOMAIN outbox : /\ AppliedAtOnce(outbox[i])
                                             /\ \E j \in 1..(i - 1) : IsEvent(outbox[j])}
           Stops(n) == (\A i \in blocked : n < i) /\ (n = Len(outbox) \/ n + 1 \in blocked)
<1>1. Len(outbox) \in Nat /\ DOMAIN outbox = 1..Len(outbox)
  BY LenProperties
<1>2. /\ blocked \subseteq 1..Len(outbox)
      /\ \A i \in 1..Len(outbox) : \A j \in 1..(i - 1) :
            (AppliedAtOnce(outbox[i]) /\ IsEvent(outbox[j])) => i \in blocked
      /\ \A i \in blocked : \E j \in 1..(i - 1) : IsEvent(outbox[j])
  BY <1>1
<1>3. Turn = SubSeq(outbox, 1, CHOOSE n \in 0..Len(outbox) : Stops(n))
  BY DEF Turn
<1> HIDE DEF blocked
<1>4. \A y \in blocked : y \in Nat /\ y <= Len(outbox)
  BY <1>1, <1>2
<1>5. \E n \in 0..Len(outbox) : Stops(n)
  <2>1. CASE blocked = {}
    <3>1. Len(outbox) \in 0..Len(outbox) /\ Stops(Len(outbox))
      BY <1>1, <2>1
    <3> QED BY <3>1
  <2>2. CASE blocked # {}
    <3>1. blocked \subseteq Nat
      BY <1>4
    <3>2. PICK x \in blocked : \A y \in blocked : x <= y
      BY <3>1, <2>2, LeastPlace
    <3>3. x \in 1..Len(outbox)
      BY <1>2
    <3>4. x - 1 \in 0..Len(outbox) /\ Stops(x - 1)
      BY <3>2, <3>3, <1>1, <1>4
    <3> QED BY <3>4
  <2> QED BY <2>1, <2>2
<1>6. PICK last \in 0..Len(outbox) : Stops(last) /\ Turn = SubSeq(outbox, 1, last)
  BY <1>3, <1>5
<1> HIDE DEF Stops
<1> last \in Nat /\ last <= Len(outbox)
  BY <1>1
<1>7. ASSUME NEW i \in 1..last, NEW j \in 1..last,
             AppliedAtOnce(outbox[i]), IsEvent(outbox[j])
      PROVE  i < j
  <2>1. i # j
    BY <1>7 DEF AppliedAtOnce, IsEvent
  <2>2. i \in 1..Len(outbox) /\ i <= last /\ i \in Nat /\ j \in Nat /\ 1 <= j
    BY <1>1
  <2>3. i \notin blocked
    BY <1>4, <1>6, <2>2 DEF Stops
  <2>4. ~(j \in 1..(i - 1))
    BY <1>2, <1>7, <2>2, <2>3
  <2> QED BY <2>1, <2>2, <2>4
<1>8. ASSUME last # Len(outbox)
      PROVE  \E j \in 1..last : IsEvent(outbox[j])
  <2>1. last + 1 \in blocked
    BY <1>6, <1>8 DEF Stops
  <2>2. (last + 1) - 1 = last
    OBVIOUS
  <2> QED BY <1>2, <2>1, <2>2
<1> QED BY <1>6, <1>7, <1>8

-----------------------------------------------------------------------------
(* The invariant *)

\* Everything made so far has a number up to made.
Numbered ==
    /\ \A i \in DOMAIN outbox : outbox[i].id <= made
    /\ \A i \in DOMAIN queue : queue[i] <= made
    /\ \A i \in DOMAIN seen : seen[i] <= made
    /\ mark <= made

\* The outbox is in order, and after everything Nautilus was given.
OutboxIsLast ==
    /\ \A i, j \in DOMAIN outbox : i < j => outbox[i].id < outbox[j].id
    /\ \A i \in DOMAIN queue, j \in DOMAIN outbox : queue[i] < outbox[j].id
    /\ \A i \in DOMAIN seen, j \in DOMAIN outbox : seen[i] < outbox[j].id

\* The events sent are taken in order, each once.
QueueInOrder ==
    /\ \A i, j \in DOMAIN queue : i < j => queue[i] < queue[j]
    /\ \A i \in DOMAIN seen, j \in DOMAIN queue : seen[i] # queue[j]

\* An event Nautilus has not taken is tracked, but for those a detach let go of; only the
\* latter are ever overtaken.
QueueIsTracked == \A i \in DOMAIN queue : queue[i] \in unapplied \cup loose
OvertakesLooseOnly ==
    \A i \in DOMAIN seen, j \in DOMAIN queue : queue[j] \notin loose => seen[i] < queue[j]

\* All of it that is about order.
LineInv ==
    /\ Numbered
    /\ OutboxIsLast
    /\ QueueInOrder
    /\ QueueIsTracked
    /\ OvertakesLooseOnly
    /\ InOrder

\* There is a delivery exactly while the outbox holds something.
DeliveryRuns == outbox # <<>> <=> task # "none"

\* The outbox's item of an answer says that it is one, so a turn or a detach sends it; an
\* id yet to be given out is not an answer's.
AnswersMarked ==
    \A i \in DOMAIN outbox : outbox[i].id \in answers => outbox[i].kind = "answer"
AnswersNumbered == \A id \in answers : id \in Nat /\ id <= made

DeliveryInv ==
    /\ TypeOK
    /\ LineInv
    /\ DeliveryRuns
    /\ NothingStranded
    /\ ReloadAfterOutbox
    /\ AnswersKept
    /\ AnswersMarked
    /\ AnswersNumbered

Items == [id : 1..MaxMade, kind : RecordKinds \cup {"answer"}]
MadeIds == 1..MaxMade

LEMMA Lists ==
    ASSUME TypeOK
    PROVE  /\ outbox \in Seq(Items) /\ queue \in Seq(MadeIds) /\ seen \in Seq(MadeIds)
           /\ Len(outbox) \in Nat /\ Len(queue) \in Nat /\ Len(seen) \in Nat
           /\ DOMAIN outbox = 1..Len(outbox)
           /\ DOMAIN queue = 1..Len(queue) /\ DOMAIN seen = 1..Len(seen)
           /\ \A i \in 1..Len(outbox) : outbox[i] \in Items /\ outbox[i].id \in Nat
           /\ \A i \in 1..Len(queue) : queue[i] \in MadeIds /\ queue[i] \in Nat
           /\ \A i \in 1..Len(seen) : seen[i] \in MadeIds /\ seen[i] \in Nat
           /\ made \in Nat /\ mark \in Nat /\ MaxMade \in Nat
<1>1. MaxMade \in Nat /\ made \in Nat /\ mark \in Nat
  BY DeliveryAssumption DEF TypeOK
<1>2. outbox \in Seq(Items) /\ queue \in Seq(MadeIds) /\ seen \in Seq(MadeIds)
  BY DEF TypeOK, Items, MadeIds
<1>3. /\ Len(outbox) \in Nat /\ Len(queue) \in Nat /\ Len(seen) \in Nat
      /\ DOMAIN outbox = 1..Len(outbox)
      /\ DOMAIN queue = 1..Len(queue) /\ DOMAIN seen = 1..Len(seen)
  BY <1>2, LenProperties
<1>4. \A i \in 1..Len(outbox) : outbox[i] \in Items
  BY <1>2, ElementOfSeq
<1>5. \A i \in 1..Len(queue) : queue[i] \in MadeIds
  BY <1>2, ElementOfSeq
<1>6. \A i \in 1..Len(seen) : seen[i] \in MadeIds
  BY <1>2, ElementOfSeq
<1>7. (\A x \in MadeIds : x \in Nat) /\ (\A x \in Items : x.id \in Nat)
  BY <1>1 DEF MadeIds, Items
<1> QED BY <1>1, <1>2, <1>3, <1>4, <1>5, <1>6, <1>7

\* What is picked of a list is a list of ids, in the list's order.
LEMMA IdsPicked ==
    ASSUME NEW items \in Seq(Items), NEW places, places \subseteq DOMAIN items
    PROVE  LET ids == IdsAt(items, places) IN
           /\ ids \in Seq(MadeIds) /\ Len(ids) \in Nat
           /\ \E at \in [1..Len(ids) -> places] :
                 /\ \A m \in 1..Len(ids) : ids[m] = items[at[m]].id
                 /\ \A m, k \in 1..Len(ids) : m < k => at[m] < at[k]
                 /\ \A i \in places : \E m \in 1..Len(ids) : at[m] = i
<1>1. PICK n, ids : n = Cardinality(places) /\ ids = IdsAt(items, places)
  OBVIOUS
<1>2. Len(items) \in Nat /\ places \subseteq 1..Len(items)
  BY LenProperties
<1>3. /\ n \in Nat /\ DOMAIN ids = 1..n
      /\ \E at \in [1..n -> places] :
            /\ \A m \in 1..n : ids[m] = items[at[m]].id
            /\ \A m, k \in 1..n : m < k => at[m] < at[k]
            /\ \A i \in places : \E m \in 1..n : at[m] = i
  BY <1>1, <1>2, PlacesInOrder
<1>4. ids = [m \in 1..n |-> ids[m]]
  BY <1>1, <1>3 DEF IdsAt
<1>5. \A m \in 1..n : ids[m] \in MadeIds
  <2>1. \A i \in places : items[i] \in Items
    BY <1>2, ElementOfSeq
  <2>2. \A x \in Items : x.id \in MadeIds
    BY DEF Items, MadeIds
  <2> QED BY <1>3, <2>1, <2>2
<1>6. ids \in [1..n -> MadeIds]
  BY <1>4, <1>5
<1>7. ids \in Seq(MadeIds) /\ Len(ids) = n
  BY <1>3, <1>6, SeqDef
<1> QED BY <1>1, <1>3, <1>7, SMTT(30)

\* A part of a list.
LEMMA PartOf ==
    ASSUME NEW T, NEW s \in Seq(T), NEW a \in Nat, NEW b \in Nat, a <= b, b <= Len(s)
    PROVE  /\ SubSeq(s, a + 1, b) \in Seq(T)
           /\ Len(SubSeq(s, a + 1, b)) = b - a
           /\ \A i \in 1..(b - a) : SubSeq(s, a + 1, b)[i] = s[a + i]
<1>1. PICK p, m : p = SubSeq(s, m, b) /\ m = a + 1
  OBVIOUS
<1>2. m \in Int /\ b \in Int /\ Len(s) \in Nat
  BY <1>1, LenProperties
<1>3. \A i \in m..b : i \in 1..Len(s)
  BY <1>1, <1>2
<1>4. \A i \in m..b : s[i] \in T
  BY <1>3, ElementOfSeq
<1>5. /\ p \in Seq(T)
      /\ Len(p) = IF m <= b THEN b - m + 1 ELSE 0
      /\ \A i \in 1..(b - m + 1) : p[i] = s[m + i - 1]
  BY <1>1, <1>2, <1>4, SubSeqProperties
<1>6. b - m + 1 = b - a /\ (IF m <= b THEN b - m + 1 ELSE 0) = b - a
  BY <1>1
<1>7. \A i \in 1..(b - a) : m + i - 1 = a + i
  BY <1>1
<1>8. \A i \in 1..(b - a) : p[i] = s[m + i - 1]
  BY <1>5, <1>6
<1>9. \A i \in 1..(b - a) : p[i] = s[a + i]
  BY <1>7, <1>8
<1> QED BY <1>1, <1>5, <1>6, <1>9

\* What a turn of the delivery does to the line: it takes the first items of the outbox, ne
\* events and nr reports of them, the reports ahead of the events.
TurnDoes(last, ne, nr, event, report) ==
    /\ outbox' \in Seq(Items) /\ Len(outbox') = Len(outbox) - last
    /\ \A i \in 1..(Len(outbox) - last) : outbox'[i] = outbox[last + i]
    /\ queue' \in Seq(MadeIds) /\ Len(queue') = Len(queue) + ne
    /\ \A i \in 1..Len(queue) : queue'[i] = queue[i]
    /\ \A m \in 1..ne : queue'[Len(queue) + m] = outbox[event[m]].id
    /\ seen' \in Seq(MadeIds) /\ Len(seen') = Len(seen) + nr
    /\ \A i \in 1..Len(seen) : seen'[i] = seen[i]
    /\ \A m \in 1..nr : seen'[Len(seen) + m] = outbox[report[m]].id
    /\ \A m, k \in 1..ne : m < k => event[m] < event[k]
    /\ \A m, k \in 1..nr : m < k => report[m] < report[k]
    /\ \A m \in 1..nr, k \in 1..ne : report[m] < event[k]
    /\ unapplied' = {outbox[event[m]].id : m \in 1..ne}
    /\ \A i \in 1..last : outbox[i].kind = "answer" => \E m \in 1..ne : event[m] = i
    /\ last # Len(outbox) => ne # 0

LEMMA TurnEffects ==
    ASSUME TypeOK, TakesTurn(Turn)
    PROVE  \E last \in 0..Len(outbox), ne \in Nat, nr \in Nat :
           \E event \in [1..ne -> 1..last], report \in [1..nr -> 1..last] :
              TurnDoes(last, ne, nr, event, report)
<1>0. /\ outbox \in Seq(Items) /\ queue \in Seq(MadeIds) /\ seen \in Seq(MadeIds)
      /\ Len(outbox) \in Nat /\ Len(queue) \in Nat /\ Len(seen) \in Nat
  BY Lists
<1>1. PICK last \in 0..Len(outbox) :
          /\ Turn = SubSeq(outbox, 1, last)
          /\ \A i \in 1..last, j \in 1..last :
                (AppliedAtOnce(outbox[i]) /\ IsEvent(outbox[j])) => i < j
          /\ last # Len(outbox) => \E j \in 1..last : IsEvent(outbox[j])
  BY <1>0, TurnTakes
<1> last \in Nat /\ last <= Len(outbox)
  BY <1>0
<1>2. /\ Turn \in Seq(Items) /\ Len(Turn) = last /\ DOMAIN Turn = 1..last
      /\ \A i \in 1..last : Turn[i] = outbox[i]
  <2>1. 0 + 1 = 1 /\ last - 0 = last /\ \A i \in 1..last : 0 + i = i
    OBVIOUS
  <2>2. /\ SubSeq(outbox, 0 + 1, last) \in Seq(Items)
        /\ Len(SubSeq(outbox, 0 + 1, last)) = last - 0
        /\ \A i \in 1..(last - 0) : SubSeq(outbox, 0 + 1, last)[i] = outbox[0 + i]
    BY <1>0, PartOf
  <2>3. /\ Turn \in Seq(Items) /\ Len(Turn) = last
        /\ \A i \in 1..last : Turn[i] = outbox[i]
    BY <2>1, <2>2, <1>1
  <2> QED BY <2>3, LenProperties
<1>3. /\ outbox' = SubSeq(outbox, last + 1, Len(outbox))
      /\ queue' = queue \o Events(Turn)
      /\ seen' = seen \o Reports(Turn)
      /\ unapplied' = ToSet(Events(Turn))
  BY <1>2 DEF TakesTurn
<1>4. /\ outbox' \in Seq(Items) /\ Len(outbox') = Len(outbox) - last
      /\ \A i \in 1..(Len(outbox) - last) : outbox'[i] = outbox[last + i]
  BY <1>0, <1>3, PartOf
<1>5a. PICK sent, ne : sent = Events(Turn) /\ ne = Len(sent)
  OBVIOUS
<1>5. /\ sent \in Seq(MadeIds) /\ ne \in Nat
      /\ \E at \in [1..ne -> {i \in DOMAIN Turn : IsEvent(Turn[i])}] :
          /\ \A m \in 1..ne : sent[m] = Turn[at[m]].id
          /\ \A m, k \in 1..ne : m < k => at[m] < at[k]
          /\ \A i \in {i \in DOMAIN Turn : IsEvent(Turn[i])} : \E m \in 1..ne : at[m] = i
  <2>1. PICK p : p = {i \in DOMAIN Turn : IsEvent(Turn[i])}
    OBVIOUS
  <2>2. p \subseteq DOMAIN Turn /\ sent = IdsAt(Turn, p)
    BY <1>5a, <2>1 DEF Events
  <2>3. /\ sent \in Seq(MadeIds) /\ ne \in Nat
        /\ \E at \in [1..ne -> p] :
              /\ \A m \in 1..ne : sent[m] = Turn[at[m]].id
              /\ \A m, k \in 1..ne : m < k => at[m] < at[k]
              /\ \A i \in p : \E m \in 1..ne : at[m] = i
    <3>1. Turn \in Seq(Items)
      BY <1>2
    <3>2. /\ IdsAt(Turn, p) \in Seq(MadeIds) /\ Len(IdsAt(Turn, p)) \in Nat
          /\ \E at \in [1..Len(IdsAt(Turn, p)) -> p] :
                /\ \A m \in 1..Len(IdsAt(Turn, p)) : IdsAt(Turn, p)[m] = Turn[at[m]].id
                /\ \A m, k \in 1..Len(IdsAt(Turn, p)) : m < k => at[m] < at[k]
                /\ \A i \in p : \E m \in 1..Len(IdsAt(Turn, p)) : at[m] = i
      BY <2>2, <3>1, IdsPicked
    <3> QED BY <1>5a, <2>2, <3>2
  <2> QED BY <2>1, <2>3
<1>5b. PICK event \in [1..ne -> {i \in DOMAIN Turn : IsEvent(Turn[i])}] :
          /\ \A m \in 1..ne : sent[m] = Turn[event[m]].id
          /\ \A m, k \in 1..ne : m < k => event[m] < event[k]
          /\ \A i \in {i \in DOMAIN Turn : IsEvent(Turn[i])} : \E m \in 1..ne : event[m] = i
  BY <1>5
<1>6a. PICK told, nr : told = Reports(Turn) /\ nr = Len(told)
  OBVIOUS
<1>6. /\ told \in Seq(MadeIds) /\ nr \in Nat
      /\ \E at \in [1..nr -> {i \in DOMAIN Turn : AppliedAtOnce(Turn[i])}] :
          /\ \A m \in 1..nr : told[m] = Turn[at[m]].id
          /\ \A m, k \in 1..nr : m < k => at[m] < at[k]
          /\ \A i \in {i \in DOMAIN Turn : AppliedAtOnce(Turn[i])} : \E m \in 1..nr : at[m] = i
  <2>1. PICK p : p = {i \in DOMAIN Turn : AppliedAtOnce(Turn[i])}
    OBVIOUS
  <2>2. p \subseteq DOMAIN Turn /\ told = IdsAt(Turn, p)
    BY <1>6a, <2>1 DEF Reports
  <2>3. /\ told \in Seq(MadeIds) /\ nr \in Nat
        /\ \E at \in [1..nr -> p] :
              /\ \A m \in 1..nr : told[m] = Turn[at[m]].id
              /\ \A m, k \in 1..nr : m < k => at[m] < at[k]
              /\ \A i \in p : \E m \in 1..nr : at[m] = i
    <3>1. Turn \in Seq(Items)
      BY <1>2
    <3>2. /\ IdsAt(Turn, p) \in Seq(MadeIds) /\ Len(IdsAt(Turn, p)) \in Nat
          /\ \E at \in [1..Len(IdsAt(Turn, p)) -> p] :
                /\ \A m \in 1..Len(IdsAt(Turn, p)) : IdsAt(Turn, p)[m] = Turn[at[m]].id
                /\ \A m, k \in 1..Len(IdsAt(Turn, p)) : m < k => at[m] < at[k]
                /\ \A i \in p : \E m \in 1..Len(IdsAt(Turn, p)) : at[m] = i
      BY <2>2, <3>1, IdsPicked, SMTT(30)
    <3> QED BY <1>6a, <2>2, <3>2
  <2> QED BY <2>1, <2>3
<1>6b. PICK report \in [1..nr -> {i \in DOMAIN Turn : AppliedAtOnce(Turn[i])}] :
          /\ \A m \in 1..nr : told[m] = Turn[report[m]].id
          /\ \A m, k \in 1..nr : m < k => report[m] < report[k]
          /\ \A i \in {i \in DOMAIN Turn : AppliedAtOnce(Turn[i])} : \E m \in 1..nr : report[m] = i
  BY <1>6
<1>7. /\ queue' \in Seq(MadeIds) /\ Len(queue') = Len(queue) + ne
      /\ \A i \in 1..Len(queue) : queue'[i] = queue[i]
      /\ \A m \in 1..ne : queue'[Len(queue) + m] = sent[m]
  BY <1>0, <1>3, <1>5, <1>5a, ConcatProperties
<1>8. /\ seen' \in Seq(MadeIds) /\ Len(seen') = Len(seen) + nr
      /\ \A i \in 1..Len(seen) : seen'[i] = seen[i]
      /\ \A m \in 1..nr : seen'[Len(seen) + m] = told[m]
  BY <1>0, <1>3, <1>6, <1>6a, ConcatProperties
<1>9. /\ event \in [1..ne -> 1..last] /\ \A m \in 1..ne : IsEvent(outbox[event[m]])
      /\ \A m \in 1..ne : sent[m] = outbox[event[m]].id
  BY <1>2, <1>5, <1>5a, <1>5b, ZenonT(40)
<1>10. /\ report \in [1..nr -> 1..last] /\ \A m \in 1..nr : AppliedAtOnce(outbox[report[m]])
       /\ \A m \in 1..nr : told[m] = outbox[report[m]].id
  BY <1>2, <1>6, <1>6a, <1>6b, ZenonT(40)
<1>11. \A m \in 1..nr, k \in 1..ne : report[m] < event[k]
  BY <1>1, <1>9, <1>10
<1>12. \A i \in 1..last : IsEvent(outbox[i]) => \E m \in 1..ne : event[m] = i
  BY <1>2, <1>5, <1>5a, <1>5b
<1>13. \A i \in 1..last : outbox[i].kind = "answer" => \E m \in 1..ne : event[m] = i
  BY <1>12 DEF IsEvent
<1>14. ASSUME last # Len(outbox)
       PROVE  ne # 0
  <2>1. PICK j \in 1..last : IsEvent(outbox[j])
    BY <1>1, <1>14
  <2>2. PICK m \in 1..ne : event[m] = j
    BY <1>12, <2>1
  <2> QED BY <1>5, <2>2
<1>15. unapplied' = {outbox[event[m]].id : m \in 1..ne}
  <2>1. DOMAIN sent = 1..ne
    BY <1>5, <1>5a, LenProperties
  <2>2. unapplied' = {sent[m] : m \in 1..ne}
    BY <1>3, <1>5a, <2>1 DEF ToSet
  <2> QED BY <1>9, <2>2
<1>16. /\ \A m \in 1..ne : queue'[Len(queue) + m] = outbox[event[m]].id
       /\ \A m \in 1..nr : seen'[Len(seen) + m] = outbox[report[m]].id
  BY <1>7, <1>8, <1>9, <1>10
<1>17. TurnDoes(last, ne, nr, event, report)
  BY <1>4, <1>5b, <1>6b, <1>7, <1>8, <1>11, <1>13, <1>14, <1>15, <1>16 DEF TurnDoes
<1> QED BY <1>5, <1>6, <1>9, <1>10, <1>17

-----------------------------------------------------------------------------
(* Types *)

\* A type invariant of every step of the delivery.
LEMMA TypeKept ==
    ASSUME TypeOK, [Next]_vars
    PROVE  TypeOK'
<1>0. /\ outbox \in Seq(Items) /\ queue \in Seq(MadeIds) /\ seen \in Seq(MadeIds)
      /\ made \in Nat /\ MaxMade \in Nat
  BY Lists
<1>1. ASSUME made < MaxMade, NEW kind \in RecordKinds \cup {"answer"}
      PROVE  /\ Item(kind) \in Items /\ Item(kind).id = made + 1 /\ made + 1 \in MadeIds
             /\ Append(outbox, Item(kind)) \in Seq(Items)
             /\ Append(queue, made + 1) \in Seq(MadeIds)
             /\ Append(seen, made + 1) \in Seq(MadeIds)
  <2>1. made + 1 \in MadeIds
    BY <1>0, <1>1 DEF MadeIds
  <2>2. Item(kind) \in Items /\ Item(kind).id = made + 1
    BY <2>1 DEF Item, Items, MadeIds
  <2> QED BY <1>0, <2>1, <2>2, AppendProperties
<1>2. ASSUME NEW kind \in RecordKinds, Make(kind)
      PROVE  TypeOK'
  <2>1. made < MaxMade /\ made' = made + 1 /\ made' \in 0..MaxMade
    BY <1>0, <1>2 DEF Make
  <2>2. /\ Item(kind) \in Items /\ Item(kind).id = made + 1 /\ made + 1 \in MadeIds
        /\ Append(outbox, Item(kind)) \in Seq(Items)
        /\ Append(queue, made + 1) \in Seq(MadeIds)
        /\ Append(seen, made + 1) \in Seq(MadeIds)
    BY <1>1, <2>1
  <2>3. outbox' \in Seq(Items) /\ queue' \in Seq(MadeIds) /\ seen' \in Seq(MadeIds)
    BY <1>0, <1>2, <2>2 DEF Make, HandleRecord, nautilus
  <2>4. unapplied' \subseteq MadeIds /\ task' \in {"none", "started", "waiting", "woken"}
    BY <1>2, <2>2 DEF Make, Forget, StillUnapplied, TypeOK, MadeIds
  <2> QED BY <1>2, <2>1, <2>3, <2>4 DEF Make, HandleRecord, nautilus, TypeOK, Items, MadeIds
<1>3. ASSUME Answer
      PROVE  TypeOK'
  <2>1. made < MaxMade /\ made' = made + 1 /\ made' \in 0..MaxMade
    BY <1>0, <1>3 DEF Answer
  <2>2. /\ Item("answer") \in Items /\ Item("answer").id = made + 1 /\ made + 1 \in MadeIds
        /\ Append(outbox, Item("answer")) \in Seq(Items)
        /\ Append(queue, made + 1) \in Seq(MadeIds)
    BY <1>1, <2>1
  <2>3. outbox' \in Seq(Items) /\ queue' \in Seq(MadeIds)
    BY <1>0, <1>3, <2>2 DEF Answer, Sends
  <2>4. unapplied' \subseteq MadeIds /\ answers' \subseteq MadeIds
    BY <1>3, <2>2 DEF Answer, TypeOK, MadeIds
  <2> QED BY <1>3, <2>1, <2>3, <2>4 DEF Answer, TypeOK, Items, MadeIds
<1>4. ASSUME Deliver
      PROVE  TypeOK'
  <2>1. CASE StillUnapplied # {}
    BY <1>4, <2>1 DEF Deliver, StillUnapplied, TypeOK
  <2>2. CASE StillUnapplied = {}
    <3>1. TakesTurn(Turn)
      BY <1>4, <2>2 DEF Deliver
    <3>2. PICK last \in 0..Len(outbox), ne \in Nat, nr \in Nat :
             \E event \in [1..ne -> 1..last], report \in [1..nr -> 1..last] :
                TurnDoes(last, ne, nr, event, report)
      BY <3>1, TurnEffects
    <3>3. PICK event \in [1..ne -> 1..last], report \in [1..nr -> 1..last] :
             TurnDoes(last, ne, nr, event, report)
      BY <3>2
    <3>4. /\ outbox' \in Seq(Items) /\ queue' \in Seq(MadeIds) /\ seen' \in Seq(MadeIds)
          /\ unapplied' = {outbox[event[m]].id : m \in 1..ne}
      BY <3>3 DEF TurnDoes
    <3>5. \A m \in 1..ne : outbox[event[m]].id \in MadeIds
      <4>1. Len(outbox) \in Nat /\ \A i \in 1..Len(outbox) : outbox[i] \in Items
        BY Lists
      <4>2. \A m \in 1..ne : event[m] \in 1..Len(outbox)
        BY <4>1
      <4>3. \A x \in Items : x.id \in MadeIds
        BY DEF Items, MadeIds
      <4> QED BY <4>1, <4>2, <4>3
    <3>6. unapplied' \subseteq MadeIds
      BY <3>4, <3>5
    <3>7. /\ task' \in {"none", "waiting"} /\ wake' \in {"none", "task"}
          /\ UNCHANGED <<made, dying, attached, reload, mark, refused, answers, loose, detaches,
                         reloads>>
      BY <1>4, <3>1 DEF Deliver, TakesTurn
    <3> QED BY <3>4, <3>6, <3>7 DEF TypeOK, Items, MadeIds
  <2> QED BY <2>1, <2>2
<1>5. ASSUME OldEnds
      PROVE  TypeOK'
  BY <1>5 DEF OldEnds, nautilus, TypeOK
<1>6. ASSUME NEW ok \in BOOLEAN, NautilusTakes(ok)
      PROVE  TypeOK'
  <2>1. queue # <<>> /\ queue' = Tail(queue) /\ seen' = Append(seen, Head(queue))
    BY <1>6 DEF NautilusTakes
  <2>2. Head(queue) \in MadeIds /\ queue' \in Seq(MadeIds)
    BY <1>0, <2>1, HeadTailProperties
  <2>3. seen' \in Seq(MadeIds)
    BY <1>0, <2>1, <2>2, AppendProperties
  <2>4. unapplied' \subseteq MadeIds /\ task' \in {"none", "started", "waiting", "woken"}
    BY <1>6 DEF NautilusTakes, Forget, TypeOK, MadeIds
  <2>5. refused' \subseteq MadeIds
    BY <1>6, <2>2 DEF NautilusTakes, TypeOK, MadeIds
  <2> QED BY <1>6, <2>2, <2>3, <2>4, <2>5 DEF NautilusTakes, TypeOK, MadeIds
<1>7. ASSUME NEW id \in unapplied, Expire(id)
      PROVE  TypeOK'
  BY <1>7 DEF Expire, Forget, nautilus, TypeOK
<1>8. ASSUME Detach
      PROVE  TypeOK'
  <2>1. PICK kept : kept = KeptAtDetach(outbox)
    OBVIOUS
  <2>2. PICK p : p = {i \in DOMAIN outbox : outbox[i].kind = "answer"}
    OBVIOUS
  <2>3. p \subseteq DOMAIN outbox /\ kept = IdsAt(outbox, p)
    BY <2>1, <2>2 DEF KeptAtDetach
  <2>4. kept \in Seq(MadeIds)
    BY <1>0, <2>3, IdsPicked
  <2>5. queue' \in Seq(MadeIds)
    BY <1>0, <1>8, <2>1, <2>4, ConcatProperties DEF Detach
  <2>6. ToSet(queue') \subseteq MadeIds
    <3>1. \A i \in DOMAIN queue' : queue'[i] \in MadeIds
      BY <2>5, LenProperties, ElementOfSeq
    <3> QED BY <3>1 DEF ToSet
  <2>7. loose' \subseteq MadeIds
    BY <1>8, <2>6 DEF Detach, TypeOK, MadeIds
  <2>8. detaches' \in 0..MaxDetaches
    BY <1>8, DeliveryAssumption DEF Detach, TypeOK
  <2>9. outbox' \in Seq(Items) /\ unapplied' \subseteq MadeIds
    BY <1>8, EmptySeq DEF Detach
  <2>10. dying' \in BOOLEAN /\ attached' \in BOOLEAN
    BY <1>8 DEF Detach
  <2> QED BY <1>8, <2>5, <2>7, <2>8, <2>9, <2>10 DEF Detach, TypeOK, Items, MadeIds
<1>9. ASSUME Attach
      PROVE  TypeOK'
  BY <1>9 DEF Attach, nautilus, TypeOK
<1>10. ASSUME ReloadStarts
       PROVE  TypeOK'
  BY <1>10, DeliveryAssumption DEF ReloadStarts, nautilus, TypeOK
<1>11. ASSUME ReloadGoesOn \/ ReloadEnds
       PROVE  TypeOK'
  BY <1>11 DEF ReloadGoesOn, ReloadEnds, nautilus, TypeOK
<1>12. ASSUME UNCHANGED vars
       PROVE  TypeOK'
  BY <1>12 DEF vars, nautilus, TypeOK
<1> QED
  BY <1>2, <1>3, <1>4, <1>5, <1>6, <1>7, <1>8, <1>9, <1>10, <1>11, <1>12 DEF Next

-----------------------------------------------------------------------------
(* The order *)

\* What is appended to a list comes last in it.
LEMMA AppendedLast ==
    ASSUME NEW T, NEW s \in Seq(T), NEW x \in T
    PROVE  /\ Append(s, x) \in Seq(T) /\ Len(s) \in Nat
           /\ DOMAIN s = 1..Len(s) /\ DOMAIN Append(s, x) = 1..(Len(s) + 1)
           /\ \A i \in 1..Len(s) : Append(s, x)[i] = s[i]
           /\ Append(s, x)[Len(s) + 1] = x
           /\ \A i \in 1..(Len(s) + 1) : i \in 1..Len(s) \/ i = Len(s) + 1
<1>1. Len(s) \in Nat /\ DOMAIN s = 1..Len(s)
  BY LenProperties
<1>2. /\ Append(s, x) \in Seq(T) /\ Len(Append(s, x)) = Len(s) + 1
      /\ \A i \in 1..Len(s) : Append(s, x)[i] = s[i]
      /\ Append(s, x)[Len(s) + 1] = x
  BY AppendProperties
<1>3. DOMAIN Append(s, x) = 1..(Len(s) + 1)
  BY <1>2, LenProperties
<1>4. \A i \in 1..(Len(s) + 1) : i \in 1..Len(s) \/ i = Len(s) + 1
  BY <1>1
<1> QED BY <1>1, <1>2, <1>3, <1>4

\* Something made is put in the outbox.
LEMMA LineHeld ==
    ASSUME TypeOK, LineInv, NEW item \in Items, item.id = made + 1,
           made' = made + 1, outbox' = Append(outbox, item),
           UNCHANGED <<queue, seen, loose, mark>>,
           \A i \in DOMAIN queue : queue[i] \in unapplied' \cup loose
    PROVE  LineInv'
<1>1. /\ made \in Nat /\ mark \in Nat /\ outbox \in Seq(Items)
      /\ Len(outbox) \in Nat /\ DOMAIN outbox = 1..Len(outbox)
      /\ \A i \in DOMAIN outbox : outbox[i].id \in Nat
      /\ \A i \in DOMAIN queue : queue[i] \in Nat
      /\ \A i \in DOMAIN seen : seen[i] \in Nat
  BY Lists
<1>2. /\ DOMAIN outbox' = 1..(Len(outbox) + 1)
      /\ \A i \in 1..Len(outbox) : outbox'[i] = outbox[i]
      /\ outbox'[Len(outbox) + 1] = item
      /\ \A i \in 1..(Len(outbox) + 1) : i \in 1..Len(outbox) \/ i = Len(outbox) + 1
  BY <1>1, AppendedLast
<1>3. Numbered'
  BY <1>1, <1>2 DEF LineInv, Numbered
<1>4. OutboxIsLast'
  <2>1. \A i, j \in DOMAIN outbox' : i < j => outbox'[i].id < outbox'[j].id
    BY <1>1, <1>2 DEF LineInv, Numbered, OutboxIsLast
  <2>2. \A i \in DOMAIN queue, j \in DOMAIN outbox' : queue[i] < outbox'[j].id
    BY <1>1, <1>2 DEF LineInv, Numbered, OutboxIsLast
  <2>3. \A i \in DOMAIN seen, j \in DOMAIN outbox' : seen[i] < outbox'[j].id
    BY <1>1, <1>2 DEF LineInv, Numbered, OutboxIsLast
  <2> QED BY <2>1, <2>2, <2>3 DEF OutboxIsLast
<1>5. QueueInOrder' /\ QueueIsTracked' /\ OvertakesLooseOnly' /\ InOrder'
  BY DEF LineInv, QueueInOrder, QueueIsTracked, OvertakesLooseOnly, InOrder
<1> QED BY <1>3, <1>4, <1>5 DEF LineInv

\* An event is sent, the outbox empty.
LEMMA LineSent ==
    ASSUME TypeOK, LineInv, made < MaxMade, made' = made + 1, outbox = <<>>, outbox' = outbox,
           queue' = Append(queue, made + 1), UNCHANGED <<seen, loose, mark>>,
           unapplied \cup {made + 1} \subseteq unapplied'
    PROVE  LineInv'
<1>1. /\ made \in Nat /\ mark \in Nat /\ queue \in Seq(MadeIds)
      /\ Len(queue) \in Nat /\ DOMAIN queue = 1..Len(queue)
      /\ \A i \in DOMAIN queue : queue[i] \in Nat
      /\ \A i \in DOMAIN seen : seen[i] \in Nat
      /\ made + 1 \in MadeIds
  BY Lists DEF MadeIds
<1>2. /\ DOMAIN queue' = 1..(Len(queue) + 1)
      /\ \A i \in 1..Len(queue) : queue'[i] = queue[i]
      /\ queue'[Len(queue) + 1] = made + 1
      /\ \A i \in 1..(Len(queue) + 1) : i \in 1..Len(queue) \/ i = Len(queue) + 1
  BY <1>1, AppendedLast
<1>3. DOMAIN outbox' = {}
  OBVIOUS
<1>4. Numbered'
  BY <1>1, <1>2, <1>3 DEF LineInv, Numbered
<1>5. OutboxIsLast'
  BY <1>3 DEF OutboxIsLast
<1>6. QueueInOrder'
  <2>1. \A i, j \in DOMAIN queue' : i < j => queue'[i] < queue'[j]
    BY <1>1, <1>2 DEF LineInv, Numbered, QueueInOrder
  <2>2. \A i \in DOMAIN seen, j \in DOMAIN queue' : seen[i] # queue'[j]
    BY <1>1, <1>2 DEF LineInv, Numbered, QueueInOrder
  <2> QED BY <2>1, <2>2 DEF QueueInOrder
<1>7. QueueIsTracked'
  BY <1>1, <1>2 DEF LineInv, QueueIsTracked
<1>8. OvertakesLooseOnly'
  BY <1>1, <1>2 DEF LineInv, Numbered, OvertakesLooseOnly
<1>9. InOrder'
  BY DEF LineInv, InOrder
<1> QED BY <1>4, <1>5, <1>6, <1>7, <1>8, <1>9 DEF LineInv

\* A report goes to Nautilus at once, the outbox empty and no event left to wait for.
LEMMA LineTold ==
    ASSUME TypeOK, LineInv, made < MaxMade, made' = made + 1, outbox = <<>>, outbox' = outbox,
           seen' = Append(seen, made + 1), UNCHANGED <<queue, loose, mark>>,
           StillUnapplied = {}
    PROVE  LineInv'
<1>1. /\ made \in Nat /\ mark \in Nat /\ seen \in Seq(MadeIds)
      /\ Len(seen) \in Nat /\ DOMAIN seen = 1..Len(seen)
      /\ \A i \in DOMAIN queue : queue[i] \in Nat
      /\ \A i \in DOMAIN seen : seen[i] \in Nat
      /\ made + 1 \in MadeIds
  BY Lists DEF MadeIds
<1>2. /\ DOMAIN seen' = 1..(Len(seen) + 1)
      /\ \A i \in 1..Len(seen) : seen'[i] = seen[i]
      /\ seen'[Len(seen) + 1] = made + 1
      /\ \A i \in 1..(Len(seen) + 1) : i \in 1..Len(seen) \/ i = Len(seen) + 1
  BY <1>1, AppendedLast
<1>3. DOMAIN outbox' = {}
  OBVIOUS
<1>4. \A i \in DOMAIN queue : queue[i] \in loose
  BY DEF LineInv, QueueInOrder, QueueIsTracked, StillUnapplied, Settled, ToSet
<1>5. Numbered'
  BY <1>1, <1>2, <1>3 DEF LineInv, Numbered
<1>6. OutboxIsLast'
  BY <1>3 DEF OutboxIsLast
<1>7. QueueInOrder'
  BY <1>1, <1>2 DEF LineInv, Numbered, QueueInOrder
<1>8. QueueIsTracked' /\ OvertakesLooseOnly'
  BY <1>4 DEF QueueIsTracked, OvertakesLooseOnly
<1>9. InOrder'
  BY <1>1, <1>2 DEF LineInv, Numbered, InOrder
<1> QED BY <1>5, <1>6, <1>7, <1>8, <1>9 DEF LineInv

\* Nothing on the line moves, and what the tracking lets go of Nautilus has taken.
LEMMA LineStands ==
    ASSUME TypeOK, LineInv, made' \in Nat, made <= made',
           UNCHANGED <<outbox, queue, seen, loose>>, mark' \in Nat, mark' <= made',
           \A i \in DOMAIN queue : queue[i] \in unapplied => queue[i] \in unapplied'
    PROVE  LineInv'
<1>1. /\ made \in Nat
      /\ \A i \in DOMAIN outbox : outbox[i].id \in Nat
      /\ \A i \in DOMAIN queue : queue[i] \in Nat
      /\ \A i \in DOMAIN seen : seen[i] \in Nat
  BY Lists
<1>2. Numbered'
  BY <1>1 DEF LineInv, Numbered
<1>3. OutboxIsLast' /\ QueueInOrder' /\ OvertakesLooseOnly' /\ InOrder'
  BY DEF LineInv, OutboxIsLast, QueueInOrder, OvertakesLooseOnly, InOrder
<1>4. QueueIsTracked'
  BY DEF LineInv, QueueIsTracked
<1> QED BY <1>2, <1>3, <1>4 DEF LineInv

\* Nautilus takes the event at the head of its queue.
LEMMA LineTaken ==
    ASSUME TypeOK, LineInv, queue # <<>>, queue' = Tail(queue),
           seen' = Append(seen, Head(queue)), UNCHANGED <<made, outbox, loose, mark>>,
           unapplied \ {Head(queue)} \subseteq unapplied'
    PROVE  LineInv'
<1>1. /\ made \in Nat /\ mark \in Nat /\ queue \in Seq(MadeIds) /\ seen \in Seq(MadeIds)
      /\ Len(queue) \in Nat /\ DOMAIN queue = 1..Len(queue)
      /\ Len(seen) \in Nat /\ DOMAIN seen = 1..Len(seen)
      /\ \A i \in DOMAIN queue : queue[i] \in Nat
      /\ \A i \in DOMAIN seen : seen[i] \in Nat
  BY Lists
<1>2. /\ 1 \in DOMAIN queue /\ Head(queue) = queue[1] /\ Head(queue) \in MadeIds
      /\ DOMAIN queue' = 1..(Len(queue) - 1)
      /\ \A i \in DOMAIN queue' : /\ queue'[i] = queue[i + 1]
                                  /\ i + 1 \in DOMAIN queue /\ 1 < i + 1 /\ i \in Nat
  <2>1. Len(queue) # 0
    BY <1>1
  <2>2. 1 \in DOMAIN queue /\ Head(queue) = queue[1]
    BY <1>1, <2>1
  <2>3. /\ Head(queue) \in MadeIds /\ Tail(queue) \in Seq(MadeIds)
        /\ Len(Tail(queue)) = Len(queue) - 1
        /\ \A i \in 1..Len(Tail(queue)) : Tail(queue)[i] = queue[i + 1]
    BY <1>1, HeadTailProperties
  <2>4. DOMAIN queue' = 1..(Len(queue) - 1)
    BY <2>3, LenProperties
  <2>5. \A i \in DOMAIN queue' : i + 1 \in DOMAIN queue /\ 1 < i + 1 /\ i \in Nat
    BY <1>1, <2>4
  <2> QED BY <2>2, <2>3, <2>4, <2>5
<1>3. PICK h : h = Head(queue)
  OBVIOUS
<1>4. /\ DOMAIN seen' = 1..(Len(seen) + 1)
      /\ \A i \in 1..Len(seen) : seen'[i] = seen[i]
      /\ seen'[Len(seen) + 1] = h
      /\ \A i \in 1..(Len(seen) + 1) : i \in 1..Len(seen) \/ i = Len(seen) + 1
  BY <1>1, <1>2, <1>3, AppendedLast
<1>5. /\ h \in Nat /\ h = queue[1]
      /\ \A i \in DOMAIN queue' : queue'[i] \in Nat /\ h < queue'[i]
  BY <1>1, <1>2, <1>3 DEF LineInv, QueueInOrder
<1>6. Numbered'
  <2>1. \A i \in DOMAIN queue' : queue'[i] <= made'
    BY <1>1, <1>2 DEF LineInv, Numbered
  <2>2. \A i \in DOMAIN seen' : seen'[i] <= made'
    BY <1>1, <1>2, <1>4, <1>5 DEF LineInv, Numbered
  <2> QED BY <2>1, <2>2 DEF LineInv, Numbered
<1>7. OutboxIsLast'
  <2>1. \A i \in DOMAIN queue', j \in DOMAIN outbox : queue'[i] < outbox[j].id
    BY <1>1, <1>2 DEF LineInv, OutboxIsLast
  <2>2. \A i \in DOMAIN seen', j \in DOMAIN outbox : seen'[i] < outbox[j].id
    BY <1>1, <1>2, <1>4, <1>5, ZenonT(40) DEF LineInv, OutboxIsLast
  <2> QED BY <2>1, <2>2 DEF LineInv, OutboxIsLast
<1>8. QueueInOrder'
  <2>1. \A i, j \in DOMAIN queue' : i < j => queue'[i] < queue'[j]
    <3> SUFFICES ASSUME NEW i \in DOMAIN queue', NEW j \in DOMAIN queue', i < j
                 PROVE  queue'[i] < queue'[j]
      OBVIOUS
    <3>1. i + 1 < j + 1 /\ i + 1 \in DOMAIN queue /\ j + 1 \in DOMAIN queue
      BY <1>2
    <3> QED BY <1>2, <3>1 DEF LineInv, QueueInOrder
  <2>2. \A i \in DOMAIN seen', j \in DOMAIN queue' : seen'[i] # queue'[j]
    BY <1>1, <1>2, <1>4, <1>5 DEF LineInv, QueueInOrder
  <2> QED BY <2>1, <2>2 DEF QueueInOrder
<1>9. QueueIsTracked'
  <2> SUFFICES ASSUME NEW i \in DOMAIN queue'
               PROVE  queue'[i] \in unapplied' \cup loose
    BY DEF QueueIsTracked
  <2>1. queue'[i] \in unapplied \cup loose
    BY <1>2 DEF LineInv, QueueIsTracked
  <2>2. queue'[i] # h
    BY <1>5
  <2> QED BY <1>3, <2>1, <2>2
<1>10. OvertakesLooseOnly'
  <2> SUFFICES ASSUME NEW i \in DOMAIN seen', NEW j \in DOMAIN queue', queue'[j] \notin loose
               PROVE  seen'[i] < queue'[j]
    BY DEF OvertakesLooseOnly
  <2>1. CASE i \in 1..Len(seen)
    BY <1>1, <1>2, <1>4, <2>1 DEF LineInv, OvertakesLooseOnly
  <2>2. CASE i = Len(seen) + 1
    BY <1>4, <1>5, <2>2
  <2> QED BY <1>4, <2>1, <2>2
<1>11. InOrder'
  <2> SUFFICES ASSUME NEW i \in DOMAIN seen', NEW j \in DOMAIN seen', i < j,
                      seen'[j] \notin loose
               PROVE  seen'[i] < seen'[j]
    BY DEF InOrder
  <2>1. i \in 1..Len(seen) /\ seen'[i] = seen[i]
    BY <1>1, <1>4
  <2>2. CASE j \in 1..Len(seen)
    BY <1>1, <1>4, <2>1, <2>2 DEF LineInv, InOrder
  <2>3. CASE j = Len(seen) + 1
    BY <1>1, <1>2, <1>4, <1>5, <2>1, <2>3 DEF LineInv, OvertakesLooseOnly
  <2> QED BY <1>4, <2>2, <2>3
<1> QED BY <1>6, <1>7, <1>8, <1>9, <1>10, <1>11 DEF LineInv

\* A turn of the delivery, with no event left to wait for.
LEMMA LineTurn ==
    ASSUME TypeOK, LineInv, StillUnapplied = {}, UNCHANGED <<made, loose, mark>>,
           NEW last \in 0..Len(outbox), NEW ne \in Nat, NEW nr \in Nat,
           NEW event \in [1..ne -> 1..last], NEW report \in [1..nr -> 1..last],
           TurnDoes(last, ne, nr, event, report)
    PROVE  LineInv'
<1>1. /\ made \in Nat /\ mark \in Nat
      /\ Len(outbox) \in Nat /\ DOMAIN outbox = 1..Len(outbox)
      /\ Len(queue) \in Nat /\ DOMAIN queue = 1..Len(queue)
      /\ Len(seen) \in Nat /\ DOMAIN seen = 1..Len(seen)
      /\ \A i \in DOMAIN outbox : outbox[i].id \in Nat
      /\ \A i \in DOMAIN queue : queue[i] \in Nat
      /\ \A i \in DOMAIN seen : seen[i] \in Nat
  BY Lists
<1>2. last \in Nat /\ last <= Len(outbox)
  BY <1>1
<1>3. DOMAIN outbox' = 1..(Len(outbox) - last)
  <2>1. outbox' \in Seq(Items) /\ Len(outbox') = Len(outbox) - last
    BY DEF TurnDoes
  <2> QED BY <2>1, LenProperties
<1>4. DOMAIN queue' = 1..(Len(queue) + ne)
  <2>1. queue' \in Seq(MadeIds) /\ Len(queue') = Len(queue) + ne
    BY DEF TurnDoes
  <2> QED BY <2>1, LenProperties
<1>5. DOMAIN seen' = 1..(Len(seen) + nr)
  <2>1. seen' \in Seq(MadeIds) /\ Len(seen') = Len(seen) + nr
    BY DEF TurnDoes
  <2> QED BY <2>1, LenProperties
<1>6. \A i \in DOMAIN outbox' :
         /\ last + i \in DOMAIN outbox /\ outbox'[i] = outbox[last + i] /\ last < last + i
         /\ i \in Nat
  <2>1. \A i \in 1..(Len(outbox) - last) : outbox'[i] = outbox[last + i]
    BY DEF TurnDoes
  <2>2. \A i \in 1..(Len(outbox) - last) : last + i \in 1..Len(outbox) /\ last < last + i
    BY <1>1, <1>2
  <2> QED BY <1>1, <1>3, <2>1, <2>2
\* An event of the queue is an old one, or one of the turn.
<1>7. \A i \in DOMAIN queue' :
         \/ i \in DOMAIN queue /\ queue'[i] = queue[i]
         \/ \E m \in 1..ne : i = Len(queue) + m /\ queue'[i] = outbox[event[m]].id
  <2> SUFFICES ASSUME NEW i \in 1..(Len(queue) + ne), i \notin 1..Len(queue)
               PROVE  \E m \in 1..ne : i = Len(queue) + m /\ queue'[i] = outbox[event[m]].id
    BY <1>1, <1>4 DEF TurnDoes
  <2>1. PICK m \in 1..ne : i = Len(queue) + m
    <3>1. i - Len(queue) \in 1..ne /\ i = Len(queue) + (i - Len(queue))
      BY <1>1
    <3> QED BY <3>1
  <2> QED BY <2>1 DEF TurnDoes
<1>8. \A i \in DOMAIN seen' :
         \/ i \in DOMAIN seen /\ seen'[i] = seen[i]
         \/ \E m \in 1..nr : i = Len(seen) + m /\ seen'[i] = outbox[report[m]].id
  <2> SUFFICES ASSUME NEW i \in 1..(Len(seen) + nr), i \notin 1..Len(seen)
               PROVE  \E m \in 1..nr : i = Len(seen) + m /\ seen'[i] = outbox[report[m]].id
    BY <1>1, <1>5 DEF TurnDoes
  <2>1. PICK m \in 1..nr : i = Len(seen) + m
    <3>1. i - Len(seen) \in 1..nr /\ i = Len(seen) + (i - Len(seen))
      BY <1>1
    <3> QED BY <3>1
  <2> QED BY <2>1 DEF TurnDoes
<1>9. /\ \A m \in 1..ne : event[m] \in DOMAIN outbox /\ event[m] \in Nat /\ event[m] <= last
      /\ \A m \in 1..nr : report[m] \in DOMAIN outbox /\ report[m] \in Nat /\ report[m] <= last
  BY <1>1, <1>2
<1>10. /\ \A m, k \in 1..ne : m < k => event[m] < event[k]
       /\ \A m, k \in 1..nr : m < k => report[m] < report[k]
       /\ \A m \in 1..nr, k \in 1..ne : report[m] < event[k]
       /\ unapplied' = {outbox[event[m]].id : m \in 1..ne}
  BY DEF TurnDoes
<1>11. /\ \A i, j \in DOMAIN outbox : i < j => outbox[i].id < outbox[j].id
       /\ \A i \in DOMAIN queue, j \in DOMAIN outbox : queue[i] < outbox[j].id
       /\ \A i \in DOMAIN seen, j \in DOMAIN outbox : seen[i] < outbox[j].id
  BY DEF LineInv, OutboxIsLast
<1>12. \A i \in DOMAIN queue : queue[i] \in loose
  BY DEF LineInv, QueueInOrder, QueueIsTracked, StillUnapplied, Settled, ToSet
<1>13. Numbered'
  <2>1. \A i \in DOMAIN outbox' : outbox'[i].id <= made'
    BY <1>6 DEF LineInv, Numbered
  <2>2. \A i \in DOMAIN queue' : queue'[i] <= made'
    BY <1>7, <1>9 DEF LineInv, Numbered
  <2>3. \A i \in DOMAIN seen' : seen'[i] <= made'
    BY <1>8, <1>9 DEF LineInv, Numbered
  <2> QED BY <2>1, <2>2, <2>3 DEF LineInv, Numbered
<1>14. OutboxIsLast'
  <2>1. \A i, j \in DOMAIN outbox' : i < j => outbox'[i].id < outbox'[j].id
    <3> SUFFICES ASSUME NEW i \in DOMAIN outbox', NEW j \in DOMAIN outbox', i < j
                 PROVE  outbox'[i].id < outbox'[j].id
      OBVIOUS
    <3>1. last + i < last + j
      BY <1>2, <1>6
    <3> QED BY <1>6, <1>11, <3>1
  <2>2. ASSUME NEW k \in DOMAIN outbox, NEW j \in DOMAIN outbox', k <= last
        PROVE  outbox[k].id < outbox'[j].id
    <3>1. k < last + j
      BY <1>1, <1>2, <1>6, <2>2
    <3> QED BY <1>6, <1>11, <3>1
  <2>3. \A i \in DOMAIN queue', j \in DOMAIN outbox' : queue'[i] < outbox'[j].id
    <3> SUFFICES ASSUME NEW i \in DOMAIN queue', NEW j \in DOMAIN outbox'
                 PROVE  queue'[i] < outbox'[j].id
      OBVIOUS
    <3>1. CASE i \in DOMAIN queue /\ queue'[i] = queue[i]
      BY <1>6, <1>11, <3>1
    <3>2. CASE \E m \in 1..ne : i = Len(queue) + m /\ queue'[i] = outbox[event[m]].id
      BY <1>9, <2>2, <3>2
    <3> QED BY <1>7, <3>1, <3>2
  <2>4. \A i \in DOMAIN seen', j \in DOMAIN outbox' : seen'[i] < outbox'[j].id
    <3> SUFFICES ASSUME NEW i \in DOMAIN seen', NEW j \in DOMAIN outbox'
                 PROVE  seen'[i] < outbox'[j].id
      OBVIOUS
    <3>1. CASE i \in DOMAIN seen /\ seen'[i] = seen[i]
      BY <1>6, <1>11, <3>1
    <3>2. CASE \E m \in 1..nr : i = Len(seen) + m /\ seen'[i] = outbox[report[m]].id
      BY <1>9, <2>2, <3>2
    <3> QED BY <1>8, <3>1, <3>2
  <2> QED BY <2>1, <2>3, <2>4 DEF OutboxIsLast
<1>15. ASSUME NEW i \in DOMAIN seen', NEW m \in 1..ne
       PROVE  seen'[i] < outbox[event[m]].id
  <2>1. CASE i \in DOMAIN seen /\ seen'[i] = seen[i]
    BY <1>9, <1>11, <2>1
  <2>2. CASE \E k \in 1..nr : i = Len(seen) + k /\ seen'[i] = outbox[report[k]].id
    BY <1>9, <1>10, <1>11, <2>2
  <2> QED BY <1>8, <2>1, <2>2
<1>16. \A i \in DOMAIN seen' : seen'[i] \in Nat
  BY <1>1, <1>8, <1>9
<1>17. QueueInOrder'
  <2>1. \A i, j \in DOMAIN queue' : i < j => queue'[i] < queue'[j]
    <3> SUFFICES ASSUME NEW i \in DOMAIN queue', NEW j \in DOMAIN queue', i < j
                 PROVE  queue'[i] < queue'[j]
      OBVIOUS
    <3>1. CASE j \in DOMAIN queue /\ queue'[j] = queue[j]
      <4>1. ~\E m \in 1..ne : i = Len(queue) + m
        BY <1>1, <3>1
      <4>2. i \in DOMAIN queue /\ queue'[i] = queue[i]
        BY <1>7, <4>1
      <4> QED BY <3>1, <4>2 DEF LineInv, QueueInOrder
    <3>2. CASE \E m \in 1..ne : j = Len(queue) + m /\ queue'[j] = outbox[event[m]].id
      <4>1. PICK m \in 1..ne : j = Len(queue) + m /\ queue'[j] = outbox[event[m]].id
        BY <3>2
      <4>2. CASE i \in DOMAIN queue /\ queue'[i] = queue[i]
        BY <1>9, <1>11, <4>1, <4>2
      <4>3. CASE \E k \in 1..ne : i = Len(queue) + k /\ queue'[i] = outbox[event[k]].id
        <5>1. PICK k \in 1..ne : i = Len(queue) + k /\ queue'[i] = outbox[event[k]].id
          BY <4>3
        <5>2. k < m
          BY <1>1, <4>1, <5>1
        <5> QED BY <1>9, <1>10, <1>11, <4>1, <5>1, <5>2
      <4> QED BY <1>7, <4>2, <4>3
    <3> QED BY <1>7, <3>1, <3>2
  <2>2. \A i \in DOMAIN seen', j \in DOMAIN queue' : seen'[i] # queue'[j]
    <3> SUFFICES ASSUME NEW i \in DOMAIN seen', NEW j \in DOMAIN queue'
                 PROVE  seen'[i] # queue'[j]
      OBVIOUS
    <3>1. CASE \E m \in 1..ne : j = Len(queue) + m /\ queue'[j] = outbox[event[m]].id
      <4>1. PICK m \in 1..ne : queue'[j] = outbox[event[m]].id
        BY <3>1
      <4>2. seen'[i] < outbox[event[m]].id /\ outbox[event[m]].id \in Nat /\ seen'[i] \in Nat
        BY <1>1, <1>9, <1>15, <1>16
      <4> QED BY <4>1, <4>2
    <3>2. CASE j \in DOMAIN queue /\ queue'[j] = queue[j]
      <4>1. CASE i \in DOMAIN seen /\ seen'[i] = seen[i]
        BY <3>2, <4>1 DEF LineInv, QueueInOrder
      <4>2. CASE \E k \in 1..nr : i = Len(seen) + k /\ seen'[i] = outbox[report[k]].id
        BY <1>1, <1>9, <1>11, <3>2, <4>2
      <4> QED BY <1>8, <4>1, <4>2
    <3> QED BY <1>7, <3>1, <3>2
  <2> QED BY <2>1, <2>2 DEF QueueInOrder
<1>18. QueueIsTracked'
  BY <1>7, <1>10, <1>12 DEF QueueIsTracked
<1>19. OvertakesLooseOnly'
  BY <1>7, <1>12, <1>15 DEF OvertakesLooseOnly
<1>20. InOrder'
  <2> SUFFICES ASSUME NEW i \in DOMAIN seen', NEW j \in DOMAIN seen', i < j,
                      seen'[j] \notin loose
               PROVE  seen'[i] < seen'[j]
    BY DEF InOrder
  <2>1. CASE j \in DOMAIN seen /\ seen'[j] = seen[j]
    <3>1. ~\E m \in 1..nr : i = Len(seen) + m
      BY <1>1, <2>1
    <3>2. i \in DOMAIN seen /\ seen'[i] = seen[i]
      BY <1>8, <3>1
    <3> QED BY <2>1, <3>2 DEF LineInv, InOrder
  <2>2. CASE \E m \in 1..nr : j = Len(seen) + m /\ seen'[j] = outbox[report[m]].id
    <3>1. PICK m \in 1..nr : j = Len(seen) + m /\ seen'[j] = outbox[report[m]].id
      BY <2>2
    <3>2. CASE i \in DOMAIN seen /\ seen'[i] = seen[i]
      BY <1>9, <1>11, <3>1, <3>2
    <3>3. CASE \E k \in 1..nr : i = Len(seen) + k /\ seen'[i] = outbox[report[k]].id
      <4>1. PICK k \in 1..nr : i = Len(seen) + k /\ seen'[i] = outbox[report[k]].id
        BY <3>3
      <4>2. k < m
        BY <1>1, <3>1, <4>1
      <4> QED BY <1>9, <1>10, <1>11, <3>1, <4>1, <4>2
    <3> QED BY <1>8, <3>2, <3>3
  <2> QED BY <1>8, <2>1, <2>2
<1> QED BY <1>13, <1>14, <1>17, <1>18, <1>19, <1>20 DEF LineInv

\* What a detach does to the line: the answers of the outbox, in their order, go to
\* Nautilus's queue, of which nothing is tracked any more.
DetachDoes(n, answer) ==
    /\ Len(queue') = Len(queue) + n /\ DOMAIN queue' = 1..(Len(queue) + n)
    /\ \A i \in DOMAIN queue' :
          \/ i \in DOMAIN queue /\ queue'[i] = queue[i]
          \/ \E m \in 1..n : i = Len(queue) + m /\ queue'[i] = outbox[answer[m]].id
    /\ \A i \in DOMAIN queue : i \in DOMAIN queue' /\ queue'[i] = queue[i]
    /\ \A m \in 1..n : /\ Len(queue) + m \in DOMAIN queue'
                       /\ queue'[Len(queue) + m] = outbox[answer[m]].id
    /\ \A m, k \in 1..n : m < k => answer[m] < answer[k]
    /\ \A i \in DOMAIN outbox : outbox[i].kind = "answer" => \E m \in 1..n : answer[m] = i
    /\ \A i \in DOMAIN queue' : queue'[i] \in loose'

LEMMA DetachEffects ==
    ASSUME TypeOK, Detach
    PROVE  \E n \in Nat : \E answer \in [1..n -> DOMAIN outbox] : DetachDoes(n, answer)
<1>0. /\ outbox \in Seq(Items) /\ queue \in Seq(MadeIds)
      /\ Len(queue) \in Nat /\ DOMAIN queue = 1..Len(queue)
  BY Lists
<1>1. PICK kept, n : kept = KeptAtDetach(outbox) /\ n = Len(kept)
  OBVIOUS
<1>2. PICK p : p = {i \in DOMAIN outbox : outbox[i].kind = "answer"}
  OBVIOUS
<1>3. p \subseteq DOMAIN outbox /\ kept = IdsAt(outbox, p)
  BY <1>1, <1>2 DEF KeptAtDetach
<1>4. /\ IdsAt(outbox, p) \in Seq(MadeIds) /\ Len(IdsAt(outbox, p)) \in Nat
      /\ \E at \in [1..Len(IdsAt(outbox, p)) -> p] :
            /\ \A m \in 1..Len(IdsAt(outbox, p)) : IdsAt(outbox, p)[m] = outbox[at[m]].id
            /\ \A m, k \in 1..Len(IdsAt(outbox, p)) : m < k => at[m] < at[k]
            /\ \A i \in p : \E m \in 1..Len(IdsAt(outbox, p)) : at[m] = i
  <2>1. outbox \in Seq(Items) /\ p \subseteq DOMAIN outbox
    BY <1>0, <1>3
  <2> HIDE <1>0, <1>1, <1>2, <1>3
  <2> QED  BY <2>1, IdsPicked, SMTT(30)
<1>5. kept \in Seq(MadeIds) /\ n \in Nat
  BY <1>1, <1>3, <1>4
<1>6. PICK answer \in [1..n -> p] :
         /\ \A m \in 1..n : kept[m] = outbox[answer[m]].id
         /\ \A m, k \in 1..n : m < k => answer[m] < answer[k]
         /\ \A i \in p : \E m \in 1..n : answer[m] = i
  BY <1>1, <1>3, <1>4
<1>7. /\ queue' \in Seq(MadeIds) /\ Len(queue') = Len(queue) + n
      /\ \A i \in 1..(Len(queue) + n) :
            queue'[i] = IF i <= Len(queue) THEN queue[i] ELSE kept[i - Len(queue)]
  <2>1. queue' = queue \o kept
    BY <1>1 DEF Detach
  <2> QED BY <1>0, <1>1, <1>5, <2>1, ConcatProperties
<1>8. DOMAIN queue' = 1..(Len(queue) + n)
  BY <1>7, LenProperties
<1>9. \A i \in DOMAIN queue : i \in DOMAIN queue' /\ queue'[i] = queue[i]
  BY <1>0, <1>5, <1>7, <1>8
<1>10. ASSUME NEW m \in 1..n
       PROVE  /\ Len(queue) + m \in DOMAIN queue'
              /\ queue'[Len(queue) + m] = outbox[answer[m]].id
  <2>1. PICK i : i = Len(queue) + m
    OBVIOUS
  <2>2. i \in 1..(Len(queue) + n) /\ ~(i <= Len(queue)) /\ i - Len(queue) = m
    BY <1>0, <1>5, <2>1
  <2>3. queue'[i] = kept[m]
    BY <1>7, <2>2
  <2> QED BY <1>6, <1>8, <2>1, <2>2, <2>3
<1>11. ASSUME NEW i \in DOMAIN queue'
       PROVE  \/ i \in DOMAIN queue /\ queue'[i] = queue[i]
              \/ \E m \in 1..n : i = Len(queue) + m /\ queue'[i] = outbox[answer[m]].id
  <2>1. CASE i <= Len(queue)
    BY <1>0, <1>5, <1>8, <1>9, <2>1
  <2>2. CASE ~(i <= Len(queue))
    <3>1. i - Len(queue) \in 1..n /\ i = Len(queue) + (i - Len(queue))
      BY <1>0, <1>5, <1>8, <2>2
    <3> QED BY <1>10, <3>1
  <2> QED BY <2>1, <2>2
<1>12. \A i \in DOMAIN queue' : queue'[i] \in loose'
  BY DEF Detach, ToSet
<1>13. \A i \in DOMAIN outbox : outbox[i].kind = "answer" => \E m \in 1..n : answer[m] = i
  BY <1>2, <1>6
<1>14. answer \in [1..n -> DOMAIN outbox]
  BY <1>3
<1>15. DetachDoes(n, answer)
  BY <1>6, <1>7, <1>8, <1>9, <1>10, <1>11, <1>12, <1>13 DEF DetachDoes
<1> QED BY <1>5, <1>14, <1>15

\* A detach.
LEMMA LineDetach ==
    ASSUME TypeOK, LineInv, Detach,
           NEW n \in Nat, NEW answer \in [1..n -> DOMAIN outbox], DetachDoes(n, answer)
    PROVE  LineInv'
<1>1. /\ made \in Nat /\ mark \in Nat /\ Len(queue) \in Nat /\ DOMAIN queue = 1..Len(queue)
      /\ \A i \in DOMAIN outbox : outbox[i].id \in Nat
      /\ \A i \in DOMAIN queue : queue[i] \in Nat
      /\ \A i \in DOMAIN seen : seen[i] \in Nat
  BY Lists
<1>2. UNCHANGED <<made, mark, seen>> /\ DOMAIN outbox' = {} /\ loose \subseteq loose'
  BY DEF Detach
<1>3. /\ \A i, j \in DOMAIN outbox : i < j => outbox[i].id < outbox[j].id
      /\ \A i \in DOMAIN queue, j \in DOMAIN outbox : queue[i] < outbox[j].id
      /\ \A i \in DOMAIN seen, j \in DOMAIN outbox : seen[i] < outbox[j].id
  BY DEF LineInv, OutboxIsLast
<1>4. \A i \in DOMAIN queue' :
         \/ i \in DOMAIN queue /\ queue'[i] = queue[i]
         \/ \E m \in 1..n : i = Len(queue) + m /\ queue'[i] = outbox[answer[m]].id
  BY DEF DetachDoes
<1>5. Numbered'
  <2>1. \A i \in DOMAIN queue' : queue'[i] <= made
    BY <1>4 DEF LineInv, Numbered
  <2> QED BY <1>2, <2>1 DEF LineInv, Numbered
<1>6. OutboxIsLast'
  BY <1>2 DEF OutboxIsLast
<1>7. QueueInOrder'
  <2>1. \A i, j \in DOMAIN queue' : i < j => queue'[i] < queue'[j]
    <3> SUFFICES ASSUME NEW i \in DOMAIN queue', NEW j \in DOMAIN queue', i < j
                 PROVE  queue'[i] < queue'[j]
      OBVIOUS
    <3>1. CASE j \in DOMAIN queue /\ queue'[j] = queue[j]
      <4>1. ~\E m \in 1..n : i = Len(queue) + m
        BY <1>1, <3>1
      <4>2. i \in DOMAIN queue /\ queue'[i] = queue[i]
        BY <1>4, <4>1
      <4> QED BY <3>1, <4>2 DEF LineInv, QueueInOrder
    <3>2. CASE \E m \in 1..n : j = Len(queue) + m /\ queue'[j] = outbox[answer[m]].id
      <4>1. PICK m \in 1..n : j = Len(queue) + m /\ queue'[j] = outbox[answer[m]].id
        BY <3>2
      <4>2. CASE i \in DOMAIN queue /\ queue'[i] = queue[i]
        BY <1>3, <4>1, <4>2
      <4>3. CASE \E k \in 1..n : i = Len(queue) + k /\ queue'[i] = outbox[answer[k]].id
        <5>1. PICK k \in 1..n : i = Len(queue) + k /\ queue'[i] = outbox[answer[k]].id
          BY <4>3
        <5>2. k < m
          BY <1>1, <4>1, <5>1
        <5>3. answer[k] < answer[m]
          BY <5>2 DEF DetachDoes
        <5> QED BY <1>3, <4>1, <5>1, <5>3
      <4> QED BY <1>4, <4>2, <4>3
    <3> QED BY <1>4, <3>1, <3>2
  <2>2. \A i \in DOMAIN seen, j \in DOMAIN queue' : seen[i] # queue'[j]
    <3> SUFFICES ASSUME NEW i \in DOMAIN seen, NEW j \in DOMAIN queue'
                 PROVE  seen[i] # queue'[j]
      OBVIOUS
    <3>1. CASE j \in DOMAIN queue /\ queue'[j] = queue[j]
      BY <3>1 DEF LineInv, QueueInOrder
    <3>2. CASE \E m \in 1..n : j = Len(queue) + m /\ queue'[j] = outbox[answer[m]].id
      BY <1>1, <1>3, <3>2
    <3> QED BY <1>4, <3>1, <3>2
  <2> QED BY <1>2, <2>1, <2>2 DEF QueueInOrder
<1>8. QueueIsTracked' /\ OvertakesLooseOnly'
  BY DEF DetachDoes, QueueIsTracked, OvertakesLooseOnly
<1>9. InOrder'
  BY <1>2 DEF LineInv, InOrder
<1> QED BY <1>5, <1>6, <1>7, <1>8, <1>9 DEF LineInv

\* Every step keeps the line in order.
LEMMA LineKept ==
    ASSUME TypeOK, LineInv, [Next]_vars
    PROVE  LineInv'
<1>0. made \in Nat /\ mark \in Nat /\ MaxMade \in Nat /\ mark <= made
  BY Lists DEF LineInv, Numbered
<1>1. ASSUME NEW kind \in RecordKinds, Make(kind)
      PROVE  LineInv'
  <2>1. /\ made < MaxMade /\ made' = made + 1 /\ made + 1 \in MadeIds
        /\ Item(kind) \in Items /\ Item(kind).id = made + 1
    BY <1>0, <1>1 DEF Make, Item, Items, MadeIds
  \* What leaves the tracking here Nautilus has taken.
  <2>2. \A i \in DOMAIN queue : queue[i] \in StillUnapplied \/ queue[i] \notin unapplied
    BY DEF LineInv, QueueInOrder, StillUnapplied, Settled, ToSet
  <2>3. CASE IsHeld(Item(kind))
    <3>1. /\ outbox' = Append(outbox, Item(kind)) /\ UNCHANGED <<queue, seen, loose, mark>>
          /\ StillUnapplied \subseteq unapplied'
      BY <1>1, <2>3 DEF Make, Forget, nautilus, StillUnapplied
    <3>2. \A i \in DOMAIN queue : queue[i] \in unapplied' \cup loose
      BY <2>2, <3>1 DEF LineInv, QueueIsTracked
    <3> QED BY <2>1, <3>1, <3>2, LineHeld
  <2>4. CASE ~IsHeld(Item(kind))
    <3>1. /\ outbox = <<>> /\ UNCHANGED <<outbox, loose, mark>> /\ HandleRecord(Item(kind))
          /\ Item(kind).kind = kind
      BY <1>1, <2>4 DEF Make, IsHeld, HandleRecord, Item
    <3>2. CASE kind = "event"
      <4>1. queue' = Append(queue, made + 1) /\ seen' = seen
        BY <2>1, <3>1, <3>2 DEF HandleRecord
      <4>2. unapplied \cup {made + 1} \subseteq unapplied'
        BY <1>1, <2>1, <2>4, <3>2 DEF Make, AppliedAtOnce, Item
      <4> QED BY <2>1, <3>1, <4>1, <4>2, LineSent
    <3>3. CASE kind = "report"
      <4>1. seen' = Append(seen, made + 1) /\ queue' = queue
        BY <2>1, <3>1, <3>3 DEF HandleRecord
      <4>2. StillUnapplied = {}
        BY <2>4, <3>1, <3>3 DEF IsHeld, AppliedAtOnce
      <4> QED BY <2>1, <3>1, <4>1, <4>2, LineTold
    <3>4. CASE kind = "notice"
      <4>1. queue' = queue /\ seen' = seen /\ unapplied \subseteq unapplied'
        BY <1>1, <2>4, <3>1, <3>4 DEF Make, HandleRecord, AppliedAtOnce, Item
      <4>2. made' \in Nat /\ made <= made' /\ mark' \in Nat /\ mark' <= made'
        BY <1>0, <2>1, <3>1
      <4> QED BY <3>1, <4>1, <4>2, LineStands
    <3> QED BY <3>2, <3>3, <3>4 DEF RecordKinds
  <2> QED BY <2>3, <2>4
<1>2. ASSUME Answer
      PROVE  LineInv'
  <2>1. /\ made < MaxMade /\ made' = made + 1 /\ made + 1 \in MadeIds
        /\ Item("answer") \in Items /\ Item("answer").id = made + 1
        /\ UNCHANGED <<seen, loose, mark>>
    BY <1>0, <1>2 DEF Answer, Item, Items, MadeIds
  <2>2. CASE outbox # <<>>
    <3>1. outbox' = Append(outbox, Item("answer")) /\ UNCHANGED <<unapplied, queue>>
      BY <1>2, <2>2 DEF Answer
    <3>2. \A i \in DOMAIN queue : queue[i] \in unapplied' \cup loose
      BY <3>1 DEF LineInv, QueueIsTracked
    <3> QED BY <2>1, <3>1, <3>2, LineHeld
  <2>3. CASE outbox = <<>>
    <3>1. /\ queue' = Append(queue, made + 1) /\ outbox' = outbox
          /\ unapplied \cup {made + 1} \subseteq unapplied'
      BY <1>2, <2>1, <2>3 DEF Answer, Sends
    <3> QED BY <2>1, <2>3, <3>1, LineSent
  <2> QED BY <2>2, <2>3
<1>3. ASSUME Deliver
      PROVE  LineInv'
  <2>1. CASE StillUnapplied # {}
    <3>1. UNCHANGED <<made, outbox, queue, seen, loose, mark>> /\ unapplied' = StillUnapplied
      BY <1>3, <2>1 DEF Deliver
    <3>2. \A i \in DOMAIN queue : queue[i] \in unapplied => queue[i] \in unapplied'
      BY <3>1 DEF LineInv, QueueInOrder, StillUnapplied, Settled, ToSet
    <3> QED BY <1>0, <3>1, <3>2, LineStands
  <2>2. CASE StillUnapplied = {}
    <3>1. TakesTurn(Turn) /\ UNCHANGED <<made, loose, mark>>
      BY <1>3, <2>2 DEF Deliver
    <3>2. PICK last \in 0..Len(outbox), ne \in Nat, nr \in Nat :
             \E event \in [1..ne -> 1..last], report \in [1..nr -> 1..last] :
                TurnDoes(last, ne, nr, event, report)
      BY <3>1, TurnEffects
    <3> QED BY <2>2, <3>1, <3>2, LineTurn
  <2> QED BY <2>1, <2>2
<1>4. ASSUME NEW ok \in BOOLEAN, NautilusTakes(ok)
      PROVE  LineInv'
  <2>1. /\ queue # <<>> /\ queue' = Tail(queue) /\ seen' = Append(seen, Head(queue))
        /\ UNCHANGED <<made, outbox, loose, mark>>
        /\ unapplied \ {Head(queue)} \subseteq unapplied'
    BY <1>4 DEF NautilusTakes, Forget
  <2> QED BY <2>1, LineTaken
<1>5. ASSUME NEW id \in unapplied, Expire(id)
      PROVE  LineInv'
  <2>1. /\ UNCHANGED <<made, outbox, queue, seen, loose, mark>>
        /\ unapplied' = unapplied \ {id} /\ id \notin ToSet(queue)
    BY <1>5 DEF Expire, Forget, nautilus
  <2>2. \A i \in DOMAIN queue : queue[i] \in unapplied => queue[i] \in unapplied'
    BY <2>1 DEF ToSet
  <2> QED BY <1>0, <2>1, <2>2, LineStands
<1>6. ASSUME Detach
      PROVE  LineInv'
  BY <1>6, DetachEffects, LineDetach
<1>7. ASSUME OldEnds \/ Attach \/ ReloadGoesOn \/ ReloadEnds \/ UNCHANGED vars
      PROVE  LineInv'
  <2>1. UNCHANGED <<made, outbox, unapplied, queue, seen, loose, mark>>
    BY <1>7 DEF OldEnds, Attach, ReloadGoesOn, ReloadEnds, vars, nautilus
  <2> QED BY <1>0, <2>1, LineStands
<1>8. ASSUME ReloadStarts
      PROVE  LineInv'
  <2>1. UNCHANGED <<made, outbox, unapplied, queue, seen, loose>> /\ mark' = made
    BY <1>8 DEF ReloadStarts, nautilus
  <2> QED BY <1>0, <2>1, LineStands
<1> QED BY <1>1, <1>2, <1>3, <1>4, <1>5, <1>6, <1>7, <1>8 DEF Next

-----------------------------------------------------------------------------
(* The delivery and the reload *)

\* A list is empty if and only if it has no place.
LEMMA EmptyList ==
    ASSUME NEW T, NEW s \in Seq(T)
    PROVE  s = <<>> <=> Len(s) = 0
OBVIOUS

\* What the outbox holds has a delivery, and one that waits has an event to be woken by.
LEMMA DeliveryKept ==
    ASSUME TypeOK, DeliveryRuns, NothingStranded, [Next]_vars
    PROVE  DeliveryRuns' /\ NothingStranded'
<1>0. outbox \in Seq(Items) /\ Len(outbox) \in Nat
  BY Lists
<1>1. ASSUME NEW kind \in RecordKinds, Make(kind)
      PROVE  DeliveryRuns' /\ NothingStranded'
  <2>1. CASE IsHeld(Item(kind))
    <3>1. outbox' = Append(outbox, Item(kind)) /\ wake' = wake
      BY <1>1, <2>1 DEF Make
    <3>2. outbox' # <<>>
      <4>1. made < MaxMade /\ made \in Nat /\ MaxMade \in Nat
        BY <1>1, Lists DEF Make
      <4>2. Item(kind) \in Items
        BY <4>1 DEF Item, Items
      <4> QED BY <1>0, <3>1, <4>2, AppendProperties
    <3>3. task' # "none" /\ (task' = "waiting" => task = "waiting" /\ unapplied' = unapplied)
      BY <1>1, <2>1 DEF Make, Forget, NothingStranded
    <3> QED BY <3>1, <3>2, <3>3 DEF DeliveryRuns, NothingStranded
  <2>2. CASE ~IsHeld(Item(kind))
    <3>1. outbox = <<>> /\ UNCHANGED <<outbox, task, wake>>
      BY <1>1, <2>2 DEF Make, IsHeld, HandleRecord
    <3> QED BY <3>1 DEF DeliveryRuns, NothingStranded
  <2> QED BY <2>1, <2>2
<1>2. ASSUME Answer
      PROVE  DeliveryRuns' /\ NothingStranded'
  <2>1. UNCHANGED <<task, wake>> /\ unapplied \subseteq unapplied'
    BY <1>2 DEF Answer
  <2>2. outbox' = <<>> <=> outbox = <<>>
    <3>1. CASE outbox = <<>>
      BY <1>2, <3>1 DEF Answer
    <3>2. CASE outbox # <<>>
      <4>1. made < MaxMade /\ made \in Nat /\ MaxMade \in Nat
        BY <1>2, Lists DEF Answer
      <4>2. Item("answer") \in Items /\ outbox' = Append(outbox, Item("answer"))
        BY <1>2, <3>2, <4>1 DEF Answer, Item, Items
      <4> QED BY <1>0, <3>2, <4>2, AppendProperties
    <3> QED BY <3>1, <3>2
  <2> QED BY <2>1, <2>2 DEF DeliveryRuns, NothingStranded
<1>3. ASSUME Deliver
      PROVE  DeliveryRuns' /\ NothingStranded'
  <2>1. CASE StillUnapplied # {}
    BY <1>3, <2>1 DEF Deliver, DeliveryRuns, NothingStranded
  <2>2. CASE StillUnapplied = {}
    <3>1. TakesTurn(Turn)
      BY <1>3, <2>2 DEF Deliver
    <3>2. /\ outbox' = <<>> => task' = "none"
          /\ outbox' # <<>> => task' = "waiting" /\ wake' = "task"
      BY <3>1 DEF TakesTurn
    <3>3. PICK last \in 0..Len(outbox), ne \in Nat, nr \in Nat :
             \E event \in [1..ne -> 1..last], report \in [1..nr -> 1..last] :
                TurnDoes(last, ne, nr, event, report)
      BY <3>1, TurnEffects
    <3>4. PICK event \in [1..ne -> 1..last], report \in [1..nr -> 1..last] :
             TurnDoes(last, ne, nr, event, report)
      BY <3>3
    <3>5. ASSUME outbox' # <<>>
          PROVE  unapplied' # {}
      <4>1. outbox' \in Seq(Items) /\ Len(outbox') = Len(outbox) - last
        BY <3>4 DEF TurnDoes
      <4>2. last # Len(outbox)
        BY <1>0, <3>5, <4>1, EmptyList
      <4>3. 1 \in 1..ne
        BY <3>4, <4>2 DEF TurnDoes
      <4>4. outbox[event[1]].id \in unapplied'
        BY <3>4, <4>3 DEF TurnDoes
      <4> QED BY <4>4
    <3> QED BY <3>2, <3>5 DEF DeliveryRuns, NothingStranded
  <2> QED BY <2>1, <2>2
<1>4. ASSUME OldEnds
      PROVE  DeliveryRuns' /\ NothingStranded'
  BY <1>4 DEF OldEnds, DeliveryRuns, NothingStranded
<1>5. ASSUME NEW ok \in BOOLEAN, NautilusTakes(ok)
      PROVE  DeliveryRuns' /\ NothingStranded'
  <2>1. UNCHANGED <<outbox, wake>>
    BY <1>5 DEF NautilusTakes
  <2>2. /\ task' = "none" <=> task = "none"
        /\ task' = "waiting" => task = "waiting" /\ unapplied' = unapplied
    BY <1>5 DEF NautilusTakes, Forget, NothingStranded
  <2> QED BY <2>1, <2>2 DEF DeliveryRuns, NothingStranded
<1>6. ASSUME NEW id \in unapplied, Expire(id)
      PROVE  DeliveryRuns' /\ NothingStranded'
  <2>1. UNCHANGED <<outbox, wake>>
    BY <1>6 DEF Expire
  <2>2. /\ task' = "none" <=> task = "none"
        /\ task' = "waiting" => task = "waiting" /\ unapplied' = unapplied
    BY <1>6 DEF Expire, Forget, NothingStranded
  <2> QED BY <2>1, <2>2 DEF DeliveryRuns, NothingStranded
<1>7. ASSUME Detach
      PROVE  DeliveryRuns' /\ NothingStranded'
  BY <1>7 DEF Detach, DeliveryRuns, NothingStranded
<1>8. ASSUME Attach \/ ReloadStarts \/ ReloadGoesOn \/ ReloadEnds \/ UNCHANGED vars
      PROVE  DeliveryRuns' /\ NothingStranded'
  <2>1. UNCHANGED <<outbox, unapplied, task, wake>>
    BY <1>8 DEF Attach, ReloadStarts, ReloadGoesOn, ReloadEnds, vars
  <2> QED BY <2>1 DEF DeliveryRuns, NothingStranded
<1> QED BY <1>1, <1>2, <1>3, <1>4, <1>5, <1>6, <1>7, <1>8 DEF Next

\* A reload's pass begins with the outbox empty, and what is made later has a higher number.
LEMMA ReloadKept ==
    ASSUME TypeOK, Numbered, DeliveryRuns, ReloadAfterOutbox, [Next]_vars
    PROVE  ReloadAfterOutbox'
<1>0. /\ outbox \in Seq(Items) /\ Len(outbox) \in Nat /\ DOMAIN outbox = 1..Len(outbox)
      /\ made \in Nat /\ mark \in Nat /\ mark <= made /\ MaxMade \in Nat
  BY Lists DEF Numbered
<1>1. ASSUME NEW item \in Items, item.id = made + 1, outbox' = Append(outbox, item),
             UNCHANGED <<reload, mark>>
      PROVE  ReloadAfterOutbox'
  <2>1. /\ DOMAIN outbox' = 1..(Len(outbox) + 1)
        /\ \A i \in 1..Len(outbox) : outbox'[i] = outbox[i]
        /\ outbox'[Len(outbox) + 1] = item
        /\ \A i \in 1..(Len(outbox) + 1) : i \in 1..Len(outbox) \/ i = Len(outbox) + 1
    BY <1>0, <1>1, AppendedLast
  <2>2. item.id > mark
    BY <1>0, <1>1
  <2> QED BY <1>0, <1>1, <2>1, <2>2 DEF ReloadAfterOutbox
<1>2. ASSUME NEW kind \in RecordKinds, Make(kind)
      PROVE  ReloadAfterOutbox'
  <2>1. Item(kind) \in Items /\ Item(kind).id = made + 1
    BY <1>0, <1>2 DEF Make, Item, Items
  <2>2. UNCHANGED <<reload, mark>> /\ (outbox' = outbox \/ outbox' = Append(outbox, Item(kind)))
    BY <1>2 DEF Make, HandleRecord
  <2>3. CASE outbox' = outbox
    BY <2>2, <2>3 DEF ReloadAfterOutbox
  <2> QED BY <1>1, <2>1, <2>2, <2>3
<1>3. ASSUME Answer
      PROVE  ReloadAfterOutbox'
  <2>1. Item("answer") \in Items /\ Item("answer").id = made + 1
    BY <1>0, <1>3 DEF Answer, Item, Items
  <2>2. /\ UNCHANGED <<reload, mark>>
        /\ outbox' = outbox \/ outbox' = Append(outbox, Item("answer"))
    BY <1>3 DEF Answer
  <2>3. CASE outbox' = outbox
    BY <2>2, <2>3 DEF ReloadAfterOutbox
  <2> QED BY <1>1, <2>1, <2>2, <2>3
<1>4. ASSUME Deliver
      PROVE  ReloadAfterOutbox'
  <2>1. UNCHANGED <<reload, mark>>
    BY <1>4 DEF Deliver
  <2>2. CASE StillUnapplied # {}
    BY <1>4, <2>1, <2>2 DEF Deliver, ReloadAfterOutbox
  <2>3. CASE StillUnapplied = {}
    <3>1. TakesTurn(Turn)
      BY <1>4, <2>3 DEF Deliver
    <3>2. PICK last \in 0..Len(outbox), ne \in Nat, nr \in Nat :
             \E event \in [1..ne -> 1..last], report \in [1..nr -> 1..last] :
                TurnDoes(last, ne, nr, event, report)
      BY <3>1, TurnEffects
    <3>3. /\ outbox' \in Seq(Items) /\ Len(outbox') = Len(outbox) - last
          /\ \A i \in 1..(Len(outbox) - last) : outbox'[i] = outbox[last + i]
      BY <3>2 DEF TurnDoes
    <3>4. DOMAIN outbox' = 1..(Len(outbox) - last)
      BY <3>3, LenProperties
    <3>5. \A i \in DOMAIN outbox' : last + i \in DOMAIN outbox /\ outbox'[i] = outbox[last + i]
      BY <1>0, <3>3, <3>4
    <3> QED BY <2>1, <3>5 DEF ReloadAfterOutbox
  <2> QED BY <2>2, <2>3
<1>5. ASSUME Detach
      PROVE  ReloadAfterOutbox'
  BY <1>5 DEF Detach, ReloadAfterOutbox
<1>6. ASSUME ReloadStarts \/ ReloadGoesOn
      PROVE  ReloadAfterOutbox'
  <2>1. outbox' = outbox /\ (reload' = "pass" => task = "none")
    BY <1>6 DEF ReloadStarts, ReloadGoesOn
  <2>2. task = "none" => DOMAIN outbox = {}
    BY DEF DeliveryRuns
  <2> QED BY <2>1, <2>2 DEF ReloadAfterOutbox
<1>7. ASSUME \/ OldEnds \/ Attach \/ ReloadEnds \/ UNCHANGED vars
             \/ \E ok \in BOOLEAN : NautilusTakes(ok)
             \/ \E id \in unapplied : Expire(id)
      PROVE  ReloadAfterOutbox'
  <2>1. UNCHANGED <<outbox, mark>> /\ (reload' = "pass" => reload = "pass")
    BY <1>7 DEF OldEnds, Attach, ReloadEnds, vars, NautilusTakes, Expire
  <2> QED BY <2>1 DEF ReloadAfterOutbox
<1> QED BY <1>2, <1>3, <1>4, <1>5, <1>6, <1>7 DEF Next

-----------------------------------------------------------------------------
(* The answers *)

\* Every step keeps each answer, where it is or further down the line.
LEMMA AnswersStay ==
    ASSUME TypeOK, LineInv, AnswersMarked, AnswersNumbered, AnswersKept, [Next]_vars
    PROVE  AnswersKept' /\ AnswersMarked' /\ AnswersNumbered'
<1>0. /\ outbox \in Seq(Items) /\ queue \in Seq(MadeIds) /\ seen \in Seq(MadeIds)
      /\ Len(outbox) \in Nat /\ DOMAIN outbox = 1..Len(outbox)
      /\ Len(queue) \in Nat /\ DOMAIN queue = 1..Len(queue)
      /\ Len(seen) \in Nat /\ DOMAIN seen = 1..Len(seen)
      /\ made \in Nat /\ MaxMade \in Nat
  BY Lists
\* An item appended to the outbox.
<1>1. ASSUME NEW item \in Items, item.id = made + 1, outbox' = Append(outbox, item),
             UNCHANGED <<seen, queue>>, made' = made + 1,
             \/ answers' = answers
             \/ answers' = answers \cup {made + 1} /\ item.kind = "answer"
      PROVE  AnswersKept' /\ AnswersMarked' /\ AnswersNumbered'
  <2>1. /\ DOMAIN outbox' = 1..(Len(outbox) + 1)
        /\ \A i \in 1..Len(outbox) : outbox'[i] = outbox[i]
        /\ outbox'[Len(outbox) + 1] = item
        /\ \A i \in 1..(Len(outbox) + 1) : i \in 1..Len(outbox) \/ i = Len(outbox) + 1
    BY <1>0, <1>1, AppendedLast
  <2>2. \A i \in DOMAIN outbox : i \in DOMAIN outbox'
    BY <1>0, <2>1
  <2>3. Ids(outbox) \subseteq Ids(outbox)'
    BY <1>0, <2>1, <2>2 DEF Ids
  <2>4. Len(outbox) + 1 \in DOMAIN outbox' /\ made + 1 \in Ids(outbox)'
    <3>1. Len(outbox) + 1 \in 1..(Len(outbox) + 1)
      BY <1>0
    <3> QED BY <1>1, <2>1, <3>1 DEF Ids
  <2>5. AnswersKept'
    BY <1>1, <2>3, <2>4 DEF AnswersKept
  <2>6. made + 1 \notin answers
    BY <1>0 DEF AnswersNumbered
  <2>7. \A i \in DOMAIN outbox : outbox[i].id # made + 1
    BY <1>0 DEF LineInv, Numbered
  <2>8. AnswersMarked'
    BY <1>0, <1>1, <2>1, <2>6, <2>7 DEF AnswersMarked
  <2>9. AnswersNumbered'
    BY <1>0, <1>1 DEF AnswersNumbered
  <2> QED BY <2>5, <2>8, <2>9
\* Nothing leaves the line.
<1>2. ASSUME UNCHANGED <<outbox, answers>>, made' \in Nat, made <= made',
             ToSet(seen) \cup ToSet(queue) \subseteq ToSet(seen)' \cup ToSet(queue)'
      PROVE  AnswersKept' /\ AnswersMarked' /\ AnswersNumbered'
  BY <1>0, <1>2 DEF AnswersKept, AnswersMarked, AnswersNumbered, Ids
<1>3. ASSUME NEW T, NEW s \in Seq(T), NEW x \in T
      PROVE  ToSet(Append(s, x)) = ToSet(s) \cup {x}
  <2>1. /\ DOMAIN s = 1..Len(s) /\ DOMAIN Append(s, x) = 1..(Len(s) + 1) /\ Len(s) \in Nat
        /\ \A i \in 1..Len(s) : Append(s, x)[i] = s[i]
        /\ Append(s, x)[Len(s) + 1] = x
        /\ \A i \in 1..(Len(s) + 1) : i \in 1..Len(s) \/ i = Len(s) + 1
    BY AppendedLast
  <2>2. \A i \in 1..Len(s) : i \in 1..(Len(s) + 1)
    BY <2>1
  <2>3. Len(s) + 1 \in 1..(Len(s) + 1)
    BY <2>1
  <2> QED BY <2>1, <2>2, <2>3 DEF ToSet
<1>4. ASSUME NEW kind \in RecordKinds, Make(kind)
      PROVE  AnswersKept' /\ AnswersMarked' /\ AnswersNumbered'
  <2>1. /\ made' = made + 1 /\ answers' = answers /\ made + 1 \in MadeIds
        /\ Item(kind) \in Items /\ Item(kind).id = made + 1
    BY <1>0, <1>4 DEF Make, Item, Items, MadeIds
  <2>2. CASE IsHeld(Item(kind))
    <3>1. outbox' = Append(outbox, Item(kind)) /\ UNCHANGED <<seen, queue>>
      BY <1>4, <2>2 DEF Make, nautilus
    <3> QED BY <1>1, <2>1, <3>1
  <2>3. CASE ~IsHeld(Item(kind))
    <3>1. HandleRecord(Item(kind)) /\ outbox' = outbox
      BY <1>4, <2>3 DEF Make, HandleRecord
    <3>2. /\ queue' = queue \/ queue' = Append(queue, made + 1)
          /\ seen' = seen \/ seen' = Append(seen, made + 1)
      BY <2>1, <3>1 DEF HandleRecord
    <3>3. ToSet(queue) \subseteq ToSet(queue)' /\ ToSet(seen) \subseteq ToSet(seen)'
      <4>1. /\ ToSet(Append(queue, made + 1)) = ToSet(queue) \cup {made + 1}
            /\ ToSet(Append(seen, made + 1)) = ToSet(seen) \cup {made + 1}
        BY <1>0, <1>3, <2>1
      <4>2. /\ ToSet(queue)' = ToSet(queue) \/ ToSet(queue)' = ToSet(queue) \cup {made + 1}
            /\ ToSet(seen)' = ToSet(seen) \/ ToSet(seen)' = ToSet(seen) \cup {made + 1}
        BY <3>2, <4>1
      <4> QED BY <4>2
    <3> QED BY <1>0, <1>2, <2>1, <3>1, <3>3
  <2> QED BY <2>2, <2>3
<1>5. ASSUME Answer
      PROVE  AnswersKept' /\ AnswersMarked' /\ AnswersNumbered'
  <2>1. /\ made' = made + 1 /\ answers' = answers \cup {made + 1} /\ made + 1 \in MadeIds
        /\ Item("answer") \in Items /\ Item("answer").id = made + 1
        /\ Item("answer").kind = "answer" /\ seen' = seen
    BY <1>0, <1>5 DEF Answer, Item, Items, MadeIds
  <2>2. CASE outbox # <<>>
    <3>1. outbox' = Append(outbox, Item("answer")) /\ queue' = queue
      BY <1>5, <2>2 DEF Answer
    <3> QED BY <1>1, <2>1, <3>1
  <2>3. CASE outbox = <<>>
    <3>1. outbox' = outbox /\ queue' = Append(queue, made + 1)
      BY <1>5, <2>1, <2>3 DEF Answer, Sends
    <3>2. ToSet(queue)' = ToSet(queue) \cup {made + 1}
      BY <1>0, <1>3, <2>1, <3>1
    <3>3. DOMAIN outbox = {} /\ DOMAIN outbox' = {}
      BY <2>3, <3>1
    <3>4. AnswersKept'
      BY <2>1, <3>1, <3>2 DEF AnswersKept, Ids
    <3>5. AnswersMarked'
      BY <3>3 DEF AnswersMarked
    <3>6. AnswersNumbered'
      BY <1>0, <2>1 DEF AnswersNumbered
    <3> QED BY <3>4, <3>5, <3>6
  <2> QED BY <2>2, <2>3
<1>6. ASSUME Deliver
      PROVE  AnswersKept' /\ AnswersMarked' /\ AnswersNumbered'
  <2>0. UNCHANGED <<made, answers>>
    BY <1>6 DEF Deliver
  <2>1. CASE StillUnapplied # {}
    <3>1. UNCHANGED <<outbox, queue, seen>>
      BY <1>6, <2>1 DEF Deliver
    <3> QED BY <1>0, <1>2, <2>0, <3>1
  <2>2. CASE StillUnapplied = {}
    <3>1. TakesTurn(Turn)
      BY <1>6, <2>2 DEF Deliver
    <3>2. PICK last \in 0..Len(outbox), ne \in Nat, nr \in Nat :
             \E event \in [1..ne -> 1..last], report \in [1..nr -> 1..last] :
                TurnDoes(last, ne, nr, event, report)
      BY <3>1, TurnEffects
    <3>3. PICK event \in [1..ne -> 1..last], report \in [1..nr -> 1..last] :
             TurnDoes(last, ne, nr, event, report)
      BY <3>2
    <3>4. /\ outbox' \in Seq(Items) /\ Len(outbox') = Len(outbox) - last
          /\ queue' \in Seq(MadeIds) /\ Len(queue') = Len(queue) + ne
          /\ seen' \in Seq(MadeIds) /\ Len(seen') = Len(seen) + nr
      BY <3>3 DEF TurnDoes
    <3>5. /\ DOMAIN outbox' = 1..(Len(outbox) - last)
          /\ DOMAIN queue' = 1..(Len(queue) + ne) /\ DOMAIN seen' = 1..(Len(seen) + nr)
      BY <3>4, LenProperties
    <3>6. ToSet(seen) \subseteq ToSet(seen)' /\ ToSet(queue) \subseteq ToSet(queue)'
      <4>1. /\ \A i \in DOMAIN seen : i \in DOMAIN seen' /\ seen'[i] = seen[i]
            /\ \A i \in DOMAIN queue : i \in DOMAIN queue' /\ queue'[i] = queue[i]
        <5>1. /\ \A i \in 1..Len(seen) : seen'[i] = seen[i]
              /\ \A i \in 1..Len(queue) : queue'[i] = queue[i]
          BY <3>3 DEF TurnDoes
        <5>2. /\ \A i \in 1..Len(seen) : i \in 1..(Len(seen) + nr)
              /\ \A i \in 1..Len(queue) : i \in 1..(Len(queue) + ne)
          BY <1>0
        <5> QED BY <1>0, <3>5, <5>1, <5>2
      <4> QED BY <4>1 DEF ToSet
    <3>7. ASSUME NEW i \in DOMAIN outbox, outbox[i].id \in answers
          PROVE  outbox[i].id \in ToSet(queue)' \cup Ids(outbox)'
      <4>1. outbox[i].kind = "answer"
        BY <3>7 DEF AnswersMarked
      <4>2. CASE i \in 1..last
        <5>1. PICK m \in 1..ne : event[m] = i
          BY <3>3, <4>1, <4>2 DEF TurnDoes
        <5>2. queue'[Len(queue) + m] = outbox[i].id
          BY <3>3, <5>1 DEF TurnDoes
        <5>3. Len(queue) + m \in DOMAIN queue'
          BY <1>0, <3>5
        <5> QED BY <5>2, <5>3 DEF ToSet
      <4>3. CASE i \notin 1..last
        <5>1. i - last \in DOMAIN outbox' /\ last + (i - last) = i
          BY <1>0, <3>5, <4>3
        <5>2. outbox'[i - last] = outbox[i]
          BY <3>3, <3>5, <5>1 DEF TurnDoes
        <5> QED BY <5>1, <5>2 DEF Ids
      <4> QED BY <4>2, <4>3
    <3>8. AnswersKept'
      BY <2>0, <3>6, <3>7 DEF AnswersKept, Ids
    <3>9. AnswersMarked'
      <4>1. \A i \in DOMAIN outbox' : last + i \in DOMAIN outbox /\ outbox'[i] = outbox[last + i]
        <5>1. \A i \in 1..(Len(outbox) - last) : outbox'[i] = outbox[last + i]
          BY <3>3 DEF TurnDoes
        <5>2. \A i \in 1..(Len(outbox) - last) : last + i \in 1..Len(outbox)
          BY <1>0
        <5> QED BY <1>0, <3>5, <5>1, <5>2
      <4> QED BY <2>0, <4>1 DEF AnswersMarked
    <3>10. AnswersNumbered'
      BY <2>0 DEF AnswersNumbered
    <3> QED BY <3>8, <3>9, <3>10
  <2> QED BY <2>1, <2>2
<1>7. ASSUME NEW ok \in BOOLEAN, NautilusTakes(ok)
      PROVE  AnswersKept' /\ AnswersMarked' /\ AnswersNumbered'
  <2>1. /\ queue # <<>> /\ queue' = Tail(queue) /\ seen' = Append(seen, Head(queue))
        /\ UNCHANGED <<made, outbox, answers>>
    BY <1>7 DEF NautilusTakes
  <2>2. /\ Head(queue) \in MadeIds /\ Tail(queue) \in Seq(MadeIds)
        /\ Len(Tail(queue)) = Len(queue) - 1
        /\ \A i \in 1..Len(Tail(queue)) : Tail(queue)[i] = queue[i + 1]
    BY <1>0, <2>1, HeadTailProperties
  <2>3. DOMAIN queue' = 1..(Len(queue) - 1)
    BY <2>1, <2>2, LenProperties
  <2>4. ToSet(seen)' = ToSet(seen) \cup {Head(queue)}
    BY <1>0, <1>3, <2>1, <2>2
  <2>5. ASSUME NEW i \in DOMAIN queue
        PROVE  queue[i] \in ToSet(queue)' \cup {Head(queue)}
    <3>1. CASE i = 1
      BY <2>1, <3>1, <1>0
    <3>2. CASE i # 1
      <4>1. i - 1 \in DOMAIN queue' /\ (i - 1) + 1 = i
        BY <1>0, <2>3, <3>2
      <4>2. queue'[i - 1] = queue[i]
        BY <2>1, <2>2, <2>3, <4>1
      <4> QED BY <4>1, <4>2 DEF ToSet
    <3> QED BY <3>1, <3>2
  <2>6. ToSet(queue) \subseteq ToSet(queue)' \cup {Head(queue)}
    BY <2>5 DEF ToSet
  <2> QED BY <1>0, <1>2, <2>1, <2>4, <2>6
<1>8. ASSUME Detach
      PROVE  AnswersKept' /\ AnswersMarked' /\ AnswersNumbered'
  <2>1. UNCHANGED <<made, seen, answers>> /\ DOMAIN outbox' = {}
    BY <1>8 DEF Detach
  <2>2. PICK n \in Nat : \E answer \in [1..n -> DOMAIN outbox] : DetachDoes(n, answer)
    BY <1>8, DetachEffects
  <2>3. PICK answer \in [1..n -> DOMAIN outbox] : DetachDoes(n, answer)
    BY <2>2
  <2>4. ToSet(queue) \subseteq ToSet(queue)'
    BY <2>3 DEF DetachDoes, ToSet
  <2>5. ASSUME NEW i \in DOMAIN outbox, outbox[i].id \in answers
        PROVE  outbox[i].id \in ToSet(queue)'
    <3>1. PICK m \in 1..n : answer[m] = i
      BY <2>3, <2>5 DEF AnswersMarked, DetachDoes
    <3> QED BY <2>3, <3>1 DEF DetachDoes, ToSet
  <2>6. AnswersKept'
    BY <2>1, <2>4, <2>5 DEF AnswersKept, Ids
  <2> QED BY <2>1, <2>6 DEF AnswersMarked, AnswersNumbered
<1>9. ASSUME \/ OldEnds \/ Attach \/ ReloadStarts \/ ReloadGoesOn \/ ReloadEnds
             \/ UNCHANGED vars \/ \E id \in unapplied : Expire(id)
      PROVE  AnswersKept' /\ AnswersMarked' /\ AnswersNumbered'
  <2>1. UNCHANGED <<made, outbox, seen, queue, answers>>
    BY <1>9 DEF OldEnds, Attach, ReloadStarts, ReloadGoesOn, ReloadEnds, vars, nautilus, Expire
  <2> QED BY <1>0, <1>2, <2>1
<1> QED BY <1>4, <1>5, <1>6, <1>7, <1>8, <1>9 DEF Next

-----------------------------------------------------------------------------
(* The theorems *)

LEMMA DeliveryInitially == Init => DeliveryInv
<1> SUFFICES ASSUME Init
             PROVE  DeliveryInv
  OBVIOUS
<1>1. /\ outbox = <<>> /\ queue = <<>> /\ seen = <<>>
      /\ DOMAIN outbox = {} /\ DOMAIN queue = {} /\ DOMAIN seen = {}
  BY DEF Init
<1>2. TypeOK
  <2>1. /\ <<>> \in Seq([id : 1..MaxMade, kind : RecordKinds \cup {"answer"}])
        /\ <<>> \in Seq(1..MaxMade)
    BY EmptySeq
  <2>2. 0 \in 0..MaxMade /\ 0 \in 0..MaxDetaches /\ 0 \in 0..MaxReloads
    BY DeliveryAssumption
  <2> QED BY <2>1, <2>2 DEF Init, TypeOK
<1>3. LineInv
  BY <1>1 DEF Init, LineInv, Numbered, OutboxIsLast, QueueInOrder, QueueIsTracked,
              OvertakesLooseOnly, InOrder
<1>4. DeliveryRuns /\ NothingStranded /\ ReloadAfterOutbox
  BY DEF Init, DeliveryRuns, NothingStranded, ReloadAfterOutbox
<1>5. AnswersKept /\ AnswersMarked /\ AnswersNumbered
  BY DEF Init, AnswersKept, AnswersMarked, AnswersNumbered
<1> QED BY <1>2, <1>3, <1>4, <1>5 DEF DeliveryInv

LEMMA DeliveryStep == DeliveryInv /\ [Next]_vars => DeliveryInv'
<1> SUFFICES ASSUME DeliveryInv, [Next]_vars
             PROVE  DeliveryInv'
  OBVIOUS
<1>1. TypeOK'
  BY TypeKept DEF DeliveryInv
<1>2. LineInv'
  BY LineKept DEF DeliveryInv
<1>3. DeliveryRuns' /\ NothingStranded'
  BY DeliveryKept DEF DeliveryInv
<1>4. ReloadAfterOutbox'
  BY ReloadKept DEF DeliveryInv, LineInv
<1>5. AnswersKept' /\ AnswersMarked' /\ AnswersNumbered'
  BY AnswersStay DEF DeliveryInv
<1> QED BY <1>1, <1>2, <1>3, <1>4, <1>5 DEF DeliveryInv

\* Every variable of the delivery keeps its type (_outbox, _unapplied and the rest).
THEOREM DeliveryTyped == Spec => []TypeOK
<1>1. DeliveryInv => TypeOK
  BY DEF DeliveryInv
<1> QED BY <1>1, DeliveryInitially, DeliveryStep, PTL DEF Spec

\* Nautilus is told of things in the order they were made, nothing waits for a wake that
\* cannot come, and a reload's reports come after what was made before it
\* (_handle_records(), _deliver_outbox(), _detach(), _reload()).
THEOREM ToldInOrderAlways == Spec => []ToldInOrder
<1>1. DeliveryInv => ToldInOrder
  BY DEF DeliveryInv, LineInv, ToldInOrder
<1> QED BY <1>1, DeliveryInitially, DeliveryStep, PTL DEF Spec

\* No answer to a command is lost, by a detach neither (_send_order_event(), _detach()).
THEOREM NoAnswerLost == Spec => []AnswersKept
<1>1. DeliveryInv => AnswersKept
  BY DEF DeliveryInv
<1> QED BY <1>1, DeliveryInitially, DeliveryStep, PTL DEF Spec

=============================================================================
