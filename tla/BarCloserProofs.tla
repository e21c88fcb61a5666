--------------------------- MODULE BarCloserProofs ---------------------------
(***************************************************************************)
(* Proofs about BarCloser, for any period, grace and clock, and any number *)
(* of losses, failures and trades: bars go out in order and once each,     *)
(* nothing is left waiting, and none is missed.                            *)
(*                                                                         *)
(* The first two need the shape of the closer's queue: it ascends behind   *)
(* the last bar emitted, and an entry's bar is the one of its boundary.    *)
(* That none is missed needs to know, of every bar the venue has, who has  *)
(* it yet to deliver: the queue, the stream, or the backfill that runs.    *)
(***************************************************************************)
EXTENDS BarCloser, TLAPS, FiniteSetTheorems, FunctionTheorems, SequenceTheorems

-----------------------------------------------------------------------------
(* The closer by itself: its inductive invariant *)

BarT == [at : Boundaries, trades : Nat]
EntryT == [at : Nat, streamed : BarT \cup {NoBar}, needs : BOOLEAN]
ResolverT == [pc : {"none", "starting", "asking", "sleeping"}, at : Int, attempt : Nat,
              deadline : Nat, wake : Nat]
CloserT ==
    [phase : {-1, Offset}, emitted : Seq(BarT), current : BarT \cup {NoBar}, queue : Seq(EntryT),
     resolver : ResolverT, drained : BOOLEAN, holding : BOOLEAN, held : BarT \cup {NoBar},
     baseline : BOOLEAN, closed : BOOLEAN, blind : BOOLEAN]

TaskT == [pc : {"none", "waiting", "range", "draining"}, start : Int, end : Int, until : Nat]

\* Bars go out in ascending order, the queue ascends behind them, and what it holds of a
\* bar is of that bar.
Ordered(c) ==
    /\ \A i, j \in 1..Len(c.emitted) : i < j => c.emitted[i].at < c.emitted[j].at
    /\ \A i, j \in 1..Len(c.queue) : i < j => c.queue[i].at < c.queue[j].at
    /\ \A i \in 1..Len(c.queue) : LastEmitted(c) < c.queue[i].at
    /\ \A i \in 1..Len(c.queue) : c.queue[i].streamed # NoBar => c.queue[i].streamed.at = c.queue[i].at

Good(c) == c \in CloserT /\ Ordered(c)

\* Everything but the queue, what is emitted from it and the resolver is the same.
SameRest(c, d) ==
    /\ d.phase = c.phase /\ d.current = c.current /\ d.holding = c.holding /\ d.held = c.held
    /\ d.baseline = c.baseline /\ d.closed = c.closed /\ d.blind = c.blind

-----------------------------------------------------------------------------
(* The inductive invariant: types, and who holds the stream *)

StateShape ==
    /\ Good(closer)
    /\ now \in Nat /\ trades \in [Boundaries -> Nat]
    /\ wire \in Seq(BarT)
    /\ backfill \in TaskT
    /\ link \in {"down", "up", "restored", "ready"}
    /\ {streaming, unwinding, owes, barsFailed, backfillFailed, raced} \subseteq BOOLEAN

Running == backfill.pc \in {"range", "draining"}

\* What a closed closer has is nothing; a backfill unwinds only for one that waits for it,
\* and one that fails is a race.
TaskShape ==
    /\ closer.closed =>
          /\ closer.queue = <<>> /\ closer.resolver.pc = "none" /\ closer.current = NoBar
          /\ backfill.pc = "none"
    /\ ~closer.closed /\ unwinding => backfill.pc = "waiting"
    /\ backfillFailed => raced

CloserInv == StateShape /\ TaskShape /\ NothingStuck

-----------------------------------------------------------------------------
(* The inductive invariant: no bar is missed *)

Traded(at) == at \in Boundaries /\ trades[at] > 0

\* The times a period apart on which bars start.
OnGrid(t) == \E k \in Int : t = k * Period + Offset

\* The bar is out or queued, or is among those U that history did not serve.
Settled(U, c, at) == IsCovered(c, at) \/ IsQueued(c, at) \/ at \in U

\* Every traded bar before b is settled.
SettledTo(U, c, b) == \A at \in Boundaries : trades[at] > 0 /\ at < b => Settled(U, c, at)

\* What the closer has queued and emitted is closed, right and without gaps.
Right(U, c) ==
    /\ LastEmitted(c) # -1 => Closed(LastEmitted(c))
    /\ \A p \in ToSet(c.queue) :
          /\ Closed(p.at)
          /\ ~p.needs => p.at \in U \/ p.streamed = VenueBar(p.at)
          /\ SettledTo(U, c, p.at)
    /\ \A at \in Boundaries :
          trades[at] > 0 /\ IsCovered(c, at) => at \in U \/ VenueBar(at) \in ToSet(c.emitted)

\* A bar in hand is one the venue has had, and every bar before it is settled.
InHand(U, c) ==
    /\ c.current # NoBar => Traded(c.current.at) /\ SettledTo(U, c, c.current.at)
    /\ c.held # NoBar => Traded(c.held.at)
    /\ c.holding \/ c.baseline => c.current = NoBar

\* A backfill that runs settles what lies behind its end.
BackfillInv ==
    /\ Running => closer.phase = Offset /\ Closed(backfill.end) /\ OnGrid(backfill.end)
    /\ backfill.pc = "range" =>
          \/ backfill.start <= Floor
          \/ LastEmitted(closer) # -1 /\ backfill.start <= LastEmitted(closer) + Period
    /\ backfill.pc = "draining" => SettledTo(unserved, closer, backfill.end)

\* The wire carries the state of the newest bar the venue has, or nothing.
WireInv ==
    /\ \A at \in Boundaries : trades[at] > 0 => at <= now
    /\ wire # <<>> =>
          /\ Len(wire) = 1 /\ Traded(wire[1].at) /\ wire[1] = VenueBar(wire[1].at)
          /\ \A at \in Boundaries : trades[at] > 0 => at <= wire[1].at
          /\ streaming
    /\ streaming => link \in {"restored", "ready"}
    /\ link = "ready" /\ ~streaming => owes
    /\ link \in {"restored", "ready"} /\ ~streaming => barsFailed

\* A bar in hand is as the venue has it, or the wire has it as it is now.
Fresh(bar) ==
    /\ streaming /\ ~owes
    /\ \/ bar = VenueBar(bar.at) \/ VenueBar(bar.at) \in ToSet(wire)
       \/ Settled(unserved, closer, bar.at)

\* On a connection that streams, the bar forming is on the wire or in hand.
FormingInv ==
    /\ streaming =>
          \A at \in Boundaries : trades[at] > 0 =>
             \/ Closed(at) \/ VenueBar(at) \in ToSet(wire)
             \/ link = "ready" /\ VenueBar(at) \in {closer.current, closer.held}
    /\ link = "ready" =>
          /\ \A bar \in {closer.current, closer.held} : bar # NoBar => Fresh(bar)
          /\ backfill.pc = "waiting" => closer.current = NoBar
          /\ backfill.pc \in {"none", "waiting"} => closer.held = NoBar

\* With no backfill to fill a gap there is none.
GapInv ==
    link = "ready" /\ backfill.pc = "none" /\ ~owes =>
        \A at \in Boundaries : trades[at] > 0 /\ Closed(at) =>
            \/ Settled(unserved, closer, at)
            \/ at = closer.current.at \/ VenueBar(at) \in ToSet(wire)

Sound == Right(unserved, closer) /\ InHand(unserved, closer) /\ BackfillInv /\ FormingInv /\ GapInv

MissedInv == ~raced /\ ~closer.blind => IF closer.closed THEN AllEmitted ELSE Sound

BarInv == CloserInv /\ WireInv /\ MissedInv

-----------------------------------------------------------------------------
(* Sorting *)

\* Items with numbers of their own, listed by those numbers, come out ascending, each once.
LEMMA RankedInOrder ==
    ASSUME NEW S, IsFiniteSet(S), NEW f \in [S -> Int],
           \A p, q \in S : p # q => f[p] # f[q]
    PROVE  LET n == Cardinality(S)
               at == [i \in 1..n |-> CHOOSE p \in S : Cardinality({q \in S : f[q] < f[p]}) = i - 1]
           IN /\ n \in Nat
              /\ at \in [1..n -> S]
              /\ \A i, j \in 1..n : i < j => f[at[i]] < f[at[j]]
              /\ \A p \in S : \E i \in 1..n : at[i] = p
<1> DEFINE n == Cardinality(S)
           before(p) == {q \in S : f[q] < f[p]}
           rank == [p \in S |-> Cardinality(before(p)) + 1]
           at == [i \in 1..n |-> CHOOSE p \in S : Cardinality(before(p)) = i - 1]
<1>1. n \in Nat
  BY FS_CardinalityType
<1>2. ASSUME NEW p \in S
      PROVE  /\ IsFiniteSet(before(p)) /\ Cardinality(before(p)) \in Nat
             /\ Cardinality(before(p)) + 1 \in 1..n
  <2>1. before(p) \subseteq S /\ p \notin before(p)
    OBVIOUS
  <2>2. IsFiniteSet(before(p)) /\ Cardinality(before(p)) <= n /\ Cardinality(before(p)) # n
    BY <2>1, FS_Subset
  <2>3. Cardinality(before(p)) \in Nat
    BY <2>2, FS_CardinalityType
  <2> HIDE DEF before, n
  <2> QED BY <1>1, <2>2, <2>3
<1>3. ASSUME NEW p \in S, NEW q \in S, f[p] < f[q]
      PROVE  Cardinality(before(p)) < Cardinality(before(q))
  <2>1. before(p) \subseteq before(q)
    <3>1. \A r \in S : f[r] < f[p] => f[r] < f[q]
      BY <1>3
    <3> QED BY <3>1
  <2>2. p \in before(q) /\ p \notin before(p)
    BY <1>3
  <2>3. /\ Cardinality(before(p)) <= Cardinality(before(q))
        /\ Cardinality(before(p)) # Cardinality(before(q))
    BY <2>1, <2>2, <1>2, FS_Subset
  <2> HIDE DEF before
  <2> QED BY <2>3, <1>2
<1> HIDE DEF before
<1>4. rank \in Surjection(S, 1..n)
  <2>1. rank \in [S -> 1..n]
    BY <1>2
  <2>2. \A p, q \in S : p # q => rank[p] # rank[q]
    <3> SUFFICES ASSUME NEW p \in S, NEW q \in S, p # q
                 PROVE  rank[p] # rank[q]
      OBVIOUS
    <3>1. f[p] < f[q] \/ f[q] < f[p]
      OBVIOUS
    <3>2. Cardinality(before(p)) \in Nat /\ Cardinality(before(q)) \in Nat
      BY <1>2
    <3> QED BY <3>1, <3>2, <1>3
  <2>3. rank \in Injection(S, 1..n)
    BY <2>1, <2>2 DEF Injection, IsInjective
  <2>4. IsFiniteSet(1..n) /\ Cardinality(1..n) = n
    BY <1>1, FS_Interval
  <2> QED BY <2>3, <2>4, FS_Injection
<1>5. \A i \in 1..n : at[i] \in S /\ Cardinality(before(at[i])) = i - 1
  <2> SUFFICES ASSUME NEW i \in 1..n
               PROVE  at[i] \in S /\ Cardinality(before(at[i])) = i - 1
    OBVIOUS
  <2>1. PICK p \in S : rank[p] = i
    BY <1>4 DEF Surjection
  <2>2. Cardinality(before(p)) = i - 1
    BY <2>1, <1>2
  <2> QED BY <2>2
<1>6. at \in [1..n -> S]
  BY <1>5
<1>7. ASSUME NEW p \in S, NEW q \in S, Cardinality(before(p)) < Cardinality(before(q))
      PROVE  f[p] < f[q]
  <2>1. f[q] < f[p] => Cardinality(before(q)) < Cardinality(before(p))
    BY <1>3
  <2>2. Cardinality(before(p)) \in Nat /\ Cardinality(before(q)) \in Nat
    BY <1>2
  <2>3. p # q
    BY <1>7, <2>2
  <2>4. f[p] < f[q] \/ f[q] < f[p]
    BY <2>3
  <2> QED BY <1>7, <2>1, <2>2, <2>4
<1>8. \A i, j \in 1..n : i < j => f[at[i]] < f[at[j]]
  <2> SUFFICES ASSUME NEW i \in 1..n, NEW j \in 1..n, i < j
               PROVE  f[at[i]] < f[at[j]]
    OBVIOUS
  <2>1. PICK p \in S, q \in S : p = at[i] /\ q = at[j]
    BY <1>5
  <2>2. Cardinality(before(p)) = i - 1 /\ Cardinality(before(q)) = j - 1
    BY <2>1, <1>5
  <2> HIDE DEF at
  <2>3. Cardinality(before(p)) < Cardinality(before(q))
    BY <2>2, <1>1
  <2> QED BY <2>1, <2>3, <1>7
<1>9. \A p \in S : \E i \in 1..n : at[i] = p
  <2> SUFFICES ASSUME NEW p \in S
               PROVE  \E i \in 1..n : at[i] = p
    OBVIOUS
  <2>1. PICK i \in 1..n : i = Cardinality(before(p)) + 1
    BY <1>2
  <2>2. PICK q \in S : q = at[i]
    BY <1>5
  <2>3. Cardinality(before(q)) = i - 1
    BY <2>2, <1>5
  <2> HIDE DEF at
  <2>4. Cardinality(before(q)) = Cardinality(before(p))
    BY <2>1, <2>3, <1>2
  <2>5. Cardinality(before(q)) \in Nat /\ Cardinality(before(p)) \in Nat
    BY <1>2
  <2>6. ~(f[p] < f[q]) /\ ~(f[q] < f[p])
    BY <1>3, <2>4, <2>5
  <2>7. p = q
    BY <2>6
  <2> QED BY <2>2, <2>7
<1>10. at = [i \in 1..n |-> CHOOSE p \in S : Cardinality({q \in S : f[q] < f[p]}) = i - 1]
  BY DEF before
<1> HIDE DEF at
<1> QED BY <1>1, <1>6, <1>8, <1>9, <1>10

\* The queue of a set of entries with boundaries of their own: ascending, each entry once.
LEMMA InOrderAscends ==
    ASSUME NEW S, IsFiniteSet(S), \A p \in S : p.at \in Int,
           \A p, q \in S : p.at = q.at => p = q
    PROVE  /\ InOrder(S) \in Seq(S)
           /\ Len(InOrder(S)) = Cardinality(S)
           /\ \A i, j \in 1..Len(InOrder(S)) : i < j => InOrder(S)[i].at < InOrder(S)[j].at
           /\ \A p \in S : \E i \in 1..Len(InOrder(S)) : InOrder(S)[i] = p
<1> DEFINE f == [p \in S |-> p.at]
           n == Cardinality(S)
           at == [i \in 1..n |-> CHOOSE p \in S : Cardinality({q \in S : f[q] < f[p]}) = i - 1]
<1>1. f \in [S -> Int] /\ \A p, q \in S : p # q => f[p] # f[q]
  OBVIOUS
<1>2. /\ n \in Nat
      /\ at \in [1..n -> S]
      /\ \A i, j \in 1..n : i < j => f[at[i]] < f[at[j]]
      /\ \A p \in S : \E i \in 1..n : at[i] = p
  <2> HIDE DEF f
  <2> QED BY <1>1, RankedInOrder, ZenonT(40)
<1>3. InOrder(S) = at
  <2>1. \A p \in S : {q \in S : q.at < p.at} = {q \in S : f[q] < f[p]}
    OBVIOUS
  <2>2. \A i \in 1..n : (CHOOSE p \in S : Cardinality({q \in S : q.at < p.at}) = i - 1)
                        = (CHOOSE p \in S : Cardinality({q \in S : f[q] < f[p]}) = i - 1)
    <3> SUFFICES ASSUME NEW i \in 1..n
                 PROVE  (CHOOSE p \in S : Cardinality({q \in S : q.at < p.at}) = i - 1)
                        = (CHOOSE p \in S : Cardinality({q \in S : f[q] < f[p]}) = i - 1)
      OBVIOUS
    <3>1. \A p \in S : Cardinality({q \in S : q.at < p.at}) = i - 1
                       <=> Cardinality({q \in S : f[q] < f[p]}) = i - 1
      BY <2>1
    <3> QED BY <3>1
  <2>3. InOrder(S) = [i \in 1..n |-> CHOOSE p \in S : Cardinality({q \in S : q.at < p.at}) = i - 1]
    BY DEF InOrder, Sorted
  <2> QED BY <2>2, <2>3
<1> HIDE DEF at
<1>4. \A i \in 1..n : f[at[i]] = at[i].at
  BY <1>2
<1> HIDE DEF f
<1>5. Len(at) = n /\ at \in Seq(S)
  <2> DEFINE m == n
  <2>1. m \in Nat /\ at \in [1..m -> S]
    BY <1>2
  <2> HIDE DEF m
  <2>2. at \in Seq(S) /\ Len(at) = m
    BY <2>1
  <2> QED BY <2>2 DEF m
<1> QED BY <1>2, <1>3, <1>4, <1>5

\* Places in a list, in their order.
LEMMA PlacesAscend ==
    ASSUME NEW L \in Nat, NEW S \in SUBSET (1..L)
    PROVE  LET at == Sorted(S, LAMBDA i : i)
               n == Cardinality(S)
           IN /\ n \in Nat
              /\ at \in [1..n -> S]
              /\ \A i, j \in 1..n : i < j => at[i] < at[j]
              /\ \A p \in S : \E i \in 1..n : at[i] = p
<1> DEFINE f == [p \in S |-> p]
           n == Cardinality(S)
           at == [i \in 1..n |-> CHOOSE p \in S : Cardinality({q \in S : f[q] < f[p]}) = i - 1]
<1>1. f \in [S -> Int] /\ \A p, q \in S : p # q => f[p] # f[q]
  OBVIOUS
<1>2. IsFiniteSet(S)
  <2>1. IsFiniteSet(1..L)
    BY FS_Interval
  <2> QED BY <2>1, FS_Subset
<1>3. /\ n \in Nat
      /\ at \in [1..n -> S]
      /\ \A i, j \in 1..n : i < j => f[at[i]] < f[at[j]]
      /\ \A p \in S : \E i \in 1..n : at[i] = p
  <2> HIDE DEF f
  <2> QED BY <1>1, <1>2, RankedInOrder
<1>4. Sorted(S, LAMBDA i : i) = at
  <2>1. \A p \in S : {q \in S : q < p} = {q \in S : f[q] < f[p]}
    OBVIOUS
  <2>2. \A i \in 1..n : (CHOOSE p \in S : Cardinality({q \in S : q < p}) = i - 1)
                        = (CHOOSE p \in S : Cardinality({q \in S : f[q] < f[p]}) = i - 1)
    <3> SUFFICES ASSUME NEW i \in 1..n
                 PROVE  (CHOOSE p \in S : Cardinality({q \in S : q < p}) = i - 1)
                        = (CHOOSE p \in S : Cardinality({q \in S : f[q] < f[p]}) = i - 1)
      OBVIOUS
    <3>1. \A p \in S : Cardinality({q \in S : q < p}) = i - 1
                       <=> Cardinality({q \in S : f[q] < f[p]}) = i - 1
      BY <2>1
    <3> QED BY <3>1
  <2>3. Sorted(S, LAMBDA i : i) = [i \in 1..n |-> CHOOSE p \in S : Cardinality({q \in S : q < p}) = i - 1]
    BY DEF Sorted
  <2> QED BY <2>2, <2>3
<1> HIDE DEF at
<1>5. \A i \in 1..n : f[at[i]] = at[i]
  BY <1>3
<1> HIDE DEF f
<1> QED BY <1>3, <1>4, <1>5

-----------------------------------------------------------------------------
(* Lists of bars *)

\* The end of a list.
LEMMA RestOf ==
    ASSUME NEW T, NEW s \in Seq(T), NEW front \in 1..(Len(s) + 1)
    PROVE  /\ SubSeq(s, front, Len(s)) \in Seq(T)
           /\ Len(SubSeq(s, front, Len(s))) = Len(s) + 1 - front
           /\ \A i \in 1..(Len(s) + 1 - front) : SubSeq(s, front, Len(s))[i] = s[front - 1 + i]
<1>1. PICK n : n = Len(s)
  OBVIOUS
<1>2. n \in Nat /\ front \in Int /\ 1 <= front /\ front <= n + 1
  BY <1>1, LenProperties
<1>3. PICK r : r = SubSeq(s, front, n)
  OBVIOUS
<1>4. \A i \in front..n : s[i] \in T
  <2>1. \A i \in front..n : i \in 1..Len(s)
    BY <1>1, <1>2
  <2> QED BY <2>1, ElementOfSeq
<1>5. /\ r \in Seq(T)
      /\ Len(r) = IF front <= n THEN n - front + 1 ELSE 0
      /\ \A i \in 1..(n - front + 1) : r[i] = s[front + i - 1]
  BY <1>2, <1>3, <1>4, SubSeqProperties
<1>6. (IF front <= n THEN n - front + 1 ELSE 0) = n + 1 - front /\ n - front + 1 = n + 1 - front
  BY <1>2
<1>7. \A i \in 1..(n + 1 - front) : front + i - 1 = front - 1 + i
  BY <1>2
<1>8. \A i \in 1..(n + 1 - front) : r[i] = s[front - 1 + i]
  BY <1>5, <1>6, <1>7
<1> QED BY <1>1, <1>3, <1>5, <1>6, <1>8

LEMMA Numbers ==
    /\ Period \in Nat /\ Period > 0 /\ Grace \in Nat /\ Grace > 0 /\ Retries \in Nat
    /\ Offset \in Nat /\ Offset < Period /\ MaxTime \in Nat
    /\ Start = Period /\ Floor = 1
    /\ Boundaries \subseteq Nat \ {0}
    /\ \A b \in Boundaries : b % Period = Offset /\ b <= MaxTime
<1>1. /\ Period \in Nat /\ Period > 0 /\ Grace \in Nat /\ Grace > 0 /\ Retries \in Nat
      /\ Offset \in Nat /\ Offset < Period /\ MaxTime \in Nat
  BY BarAssumption
<1>2. Start = Period /\ Floor = 1
  BY <1>1 DEF Start, Floor
<1> QED BY <1>1, <1>2 DEF Boundaries

\* A list of bars that ascends has its latest last.
LEMMA LatestLast ==
    ASSUME NEW c, c.emitted \in Seq(BarT),
           \A i, j \in 1..Len(c.emitted) : i < j => c.emitted[i].at < c.emitted[j].at
    PROVE  /\ LastEmitted(c) \in Int
           /\ c.emitted = <<>> => LastEmitted(c) = -1
           /\ c.emitted # <<>> => LastEmitted(c) = c.emitted[Len(c.emitted)].at
           /\ c.emitted # <<>> => LastEmitted(c) \in Boundaries
           /\ \A i \in 1..Len(c.emitted) : c.emitted[i].at <= LastEmitted(c)
<1>1. PICK s : s = c.emitted
  OBVIOUS
<1>2. PICK n : n = Len(s)
  OBVIOUS
<1>3. n \in Nat /\ (s # <<>> => n > 0) /\ (s = <<>> => n = 0)
  BY <1>1, <1>2, EmptySeq, LenProperties
<1>4. \A i \in 1..n : s[i] \in BarT
  BY <1>1, <1>2, ElementOfSeq
<1>5. \A i \in 1..n : s[i].at \in Boundaries /\ s[i].at \in Int
  <2>1. \A bar \in BarT : bar.at \in Boundaries
    BY DEF BarT
  <2>2. \A b \in Boundaries : b \in Int
    BY Numbers
  <2> QED BY <1>4, <2>1, <2>2
<1>6. LastEmitted(c) = IF s = <<>> THEN -1 ELSE s[n].at
  BY <1>1, <1>2 DEF LastEmitted, Last
<1>7. \A i \in 1..n : i < n => s[i].at < s[n].at
  BY <1>1, <1>2, <1>3
<1>8. \A i \in 1..n : s # <<>> /\ s[i].at <= s[n].at
  BY <1>3, <1>5, <1>7
<1> QED BY <1>1, <1>2, <1>3, <1>5, <1>6, <1>8

\* Two lists that ascend, the second behind the first.
LEMMA BothAscend ==
    ASSUME NEW s \in Seq(BarT), NEW t \in Seq(BarT),
           \A i, j \in 1..Len(s) : i < j => s[i].at < s[j].at,
           \A i, j \in 1..Len(t) : i < j => t[i].at < t[j].at,
           \A i \in 1..Len(s), j \in 1..Len(t) : s[i].at < t[j].at
    PROVE  /\ s \o t \in Seq(BarT)
           /\ Len(s \o t) = Len(s) + Len(t)
           /\ \A i, j \in 1..Len(s \o t) : i < j => (s \o t)[i].at < (s \o t)[j].at
           /\ ToSet(s \o t) = ToSet(s) \cup ToSet(t)
           /\ Len(t) = 0 => s \o t = s
           /\ Len(t) > 0 => s \o t # <<>> /\ (s \o t)[Len(s \o t)] = t[Len(t)]
<1>1. PICK m, n, u : m = Len(s) /\ n = Len(t) /\ u = s \o t
  OBVIOUS
<1>2. m \in Nat /\ n \in Nat
  BY <1>1, LenProperties
<1>3. /\ u \in Seq(BarT) /\ Len(u) = m + n
      /\ \A i \in 1..(m + n) : u[i] = IF i <= m THEN s[i] ELSE t[i - m]
  BY <1>1, ConcatProperties
<1>4. \A i \in 1..(m + n) : i <= m => i \in 1..m
  BY <1>2
<1>5. \A i \in 1..(m + n) : ~(i <= m) => i - m \in 1..n
  BY <1>2
<1>6. \A i, j \in 1..(m + n) : i < j => u[i].at < u[j].at
  <2> SUFFICES ASSUME NEW i \in 1..(m + n), NEW j \in 1..(m + n), i < j
               PROVE  u[i].at < u[j].at
    OBVIOUS
  <2>1. CASE j <= m
    <3>1. i \in 1..m /\ j \in 1..m /\ u[i] = s[i] /\ u[j] = s[j]
      BY <2>1, <1>2, <1>3
    <3> QED BY <3>1, <1>1
  <2>2. CASE i <= m /\ ~(j <= m)
    <3>1. i \in 1..m /\ j - m \in 1..n /\ u[i] = s[i] /\ u[j] = t[j - m]
      BY <2>2, <1>3, <1>4, <1>5
    <3> QED BY <3>1, <1>1
  <2>3. CASE ~(i <= m) /\ ~(j <= m)
    <3>1. i - m \in 1..n /\ j - m \in 1..n /\ u[i] = t[i - m] /\ u[j] = t[j - m]
      BY <2>3, <1>3, <1>5
    <3>2. i - m < j - m
      BY <1>2
    <3> QED BY <3>1, <3>2, <1>1
  <2> QED BY <2>1, <2>2, <2>3, <1>2
<1>7. ToSet(u) = ToSet(s) \cup ToSet(t)
  <2>1. DOMAIN u = 1..(m + n) /\ DOMAIN s = 1..m /\ DOMAIN t = 1..n
    BY <1>1, <1>3, LenProperties
  <2>2. \A i \in 1..m : i \in 1..(m + n) /\ u[i] = s[i]
    BY <1>2, <1>3
  <2>3. \A i \in 1..n : m + i \in 1..(m + n) /\ u[m + i] = t[i]
    <3> SUFFICES ASSUME NEW i \in 1..n
                 PROVE  m + i \in 1..(m + n) /\ u[m + i] = t[i]
      OBVIOUS
    <3>1. PICK k : k = m + i
      OBVIOUS
    <3>2. k \in 1..(m + n) /\ ~(k <= m) /\ k - m = i
      BY <1>2, <3>1
    <3>3. u[k] = t[i]
      BY <1>3, <3>2
    <3> QED BY <3>1, <3>2, <3>3
  <2>4. \A i \in 1..(m + n) : (i \in 1..m /\ u[i] = s[i]) \/ (i - m \in 1..n /\ u[i] = t[i - m])
    BY <1>2, <1>3, <1>4, <1>5
  <2>5. ToSet(u) = {u[i] : i \in 1..(m + n)} /\ ToSet(s) = {s[i] : i \in 1..m} /\ ToSet(t) = {t[i] : i \in 1..n}
    BY <2>1 DEF ToSet
  <2>6. ToSet(u) \subseteq ToSet(s) \cup ToSet(t)
    BY <2>4, <2>5
  <2>7. ToSet(s) \subseteq ToSet(u)
    BY <2>2, <2>5
  <2>8. ToSet(t) \subseteq ToSet(u)
    BY <2>3, <2>5
  <2> QED BY <2>6, <2>7, <2>8
<1>8. n = 0 => u = s
  <2> HAVE n = 0
  <2>1. t = <<>>
    BY <1>1, EmptySeq
  <2> QED BY <2>1, <1>1
<1>9. n > 0 => u # <<>> /\ u[m + n] = t[n]
  <2> HAVE n > 0
  <2>1. PICK k : k = m + n
    OBVIOUS
  <2>2. k \in 1..(m + n) /\ ~(k <= m) /\ k - m = n /\ k # 0
    BY <1>2, <2>1
  <2>3. u[k] = t[n]
    BY <1>3, <2>2
  <2>4. Len(u) # 0
    BY <1>3, <2>1, <2>2
  <2> QED BY <2>1, <2>3, <2>4, EmptySeq
<1> QED BY <1>1, <1>3, <1>6, <1>7, <1>8, <1>9

-----------------------------------------------------------------------------
(* What _emit_ready() does *)

\* From c to e entries in front that need no history leave the queue, and the bars they
\* carry are out.
Emits(c, e) ==
    /\ SameRest(c, e)
    /\ ToSet(e.queue) \subseteq ToSet(c.queue)
    /\ ToSet(c.emitted) \subseteq ToSet(e.emitted)
    /\ LastEmitted(c) <= LastEmitted(e)
    /\ \A p \in ToSet(c.queue) \ ToSet(e.queue) :
          /\ ~p.needs
          /\ p.streamed # NoBar => p.streamed \in ToSet(e.emitted) /\ p.at <= LastEmitted(e)
    /\ LastEmitted(e) = LastEmitted(c)
          \/ \E p \in ToSet(c.queue) : p.at = LastEmitted(e) /\ p.at \in Boundaries

LEMMA CloserFields ==
    ASSUME NEW c \in CloserT
    PROVE  /\ c.phase \in {-1, Offset} /\ c.emitted \in Seq(BarT) /\ c.current \in BarT \cup {NoBar}
           /\ c.queue \in Seq(EntryT) /\ c.resolver \in ResolverT /\ c.drained \in BOOLEAN
           /\ c.holding \in BOOLEAN /\ c.held \in BarT \cup {NoBar} /\ c.baseline \in BOOLEAN
           /\ c.closed \in BOOLEAN /\ c.blind \in BOOLEAN
  BY DEF CloserT

LEMMA EntryFields ==
    ASSUME NEW p \in EntryT
    PROVE  p.at \in Nat /\ p.streamed \in BarT \cup {NoBar} /\ p.needs \in BOOLEAN
  BY DEF EntryT

LEMMA BarFields ==
    ASSUME NEW bar \in BarT
    PROVE  bar.at \in Boundaries /\ bar.at \in Nat /\ bar.trades \in Nat /\ bar # NoBar
<1>1. bar.at \in Boundaries /\ bar.trades \in Nat
  BY DEF BarT
<1>2. bar.at \in Nat
  BY <1>1, Numbers
<1>3. NoBar.at = -1
  BY DEF NoBar
<1> QED BY <1>1, <1>2, <1>3

\* A set of numbers that is not empty has a least.
LEMMA Least ==
    ASSUME NEW S, S \subseteq Nat, S # {}
    PROVE  Min(S) \in S /\ \A y \in S : Min(S) <= y
<1>1. PICK x \in S : \A y \in S : ~(<<y, x>> \in OpToRel(<, Nat))
  BY NatLessThanWellFounded, WFMin
<1>2. \A y \in S : ~(y < x)
  BY <1>1 DEF OpToRel
<1>3. x \in S /\ \A y \in S : x <= y
  BY <1>2
<1> QED BY <1>3 DEF Min

LEMMA EmitsReady ==
    ASSUME NEW c, Good(c)
    PROVE  LET e == EmitReady(c) IN
           /\ Good(e) /\ Emits(c, e) /\ e.resolver = c.resolver /\ e.drained = c.drained
           /\ e.queue # <<>> => c.queue # <<>>
<1>1. PICK q, s, L : q = c.queue /\ s = c.emitted /\ L = Len(q)
  OBVIOUS
<1>2. c \in CloserT /\ q \in Seq(EntryT) /\ s \in Seq(BarT) /\ L \in Nat
  BY <1>1, CloserFields, LenProperties DEF Good
<1>3. /\ \A i, j \in 1..Len(s) : i < j => s[i].at < s[j].at
      /\ \A i, j \in 1..L : i < j => q[i].at < q[j].at
      /\ \A i \in 1..L : LastEmitted(c) < q[i].at
      /\ \A i \in 1..L : q[i].streamed # NoBar => q[i].streamed.at = q[i].at
  BY <1>1 DEF Good, Ordered
<1>4. /\ LastEmitted(c) \in Int
      /\ \A i \in 1..Len(s) : s[i].at <= LastEmitted(c)
      /\ s # <<>> => LastEmitted(c) = s[Len(s)].at
      /\ s = <<>> => LastEmitted(c) = -1
  BY <1>1, <1>2, <1>3, LatestLast
<1>5. \A i \in 1..L : /\ q[i] \in EntryT /\ q[i].at \in Nat /\ q[i].needs \in BOOLEAN
                      /\ q[i].streamed \in BarT \cup {NoBar}
  <2>1. \A i \in 1..L : q[i] \in EntryT
    BY <1>1, <1>2, ElementOfSeq
  <2> QED BY <2>1, EntryFields
<1>6. DOMAIN q = 1..L
  BY <1>1, <1>2, LenProperties
<1>7. \A i \in 1..L : ~IsCovered(c, q[i].at)
  BY <1>3, <1>4, <1>5 DEF IsCovered
<1> DEFINE waiting == {i \in 1..L : q[i].needs}
           front == IF waiting = {} THEN L + 1 ELSE Min(waiting)
           S == {i \in 1..(front - 1) : q[i].streamed # NoBar}
           ready == Sorted(S, LAMBDA i : i)
           n == Cardinality(S)
           out == [i \in DOMAIN ready |-> q[ready[i]].streamed]
<1>8. front \in 1..(L + 1) /\ \A i \in 1..(front - 1) : i \in 1..L /\ ~q[i].needs
  <2>1. CASE waiting = {}
    BY <2>1, <1>2
  <2>2. CASE waiting # {}
    <3>1. front \in waiting /\ \A i \in waiting : front <= i
      <4>1. waiting \subseteq Nat
        OBVIOUS
      <4> HIDE DEF waiting
      <4> QED BY <2>2, <4>1, Least
    <3> HIDE DEF front
    <3>2. front \in 1..L /\ \A i \in 1..L : q[i].needs => front <= i
      BY <3>1
    <3> QED BY <3>2, <1>2
  <2> QED BY <2>1, <2>2
<1>9. EmitReady(c) = [c EXCEPT !.queue = SubSeq(q, front, L), !.emitted = s \o out]
  <2>1. \A i \in 1..L : (c.queue[i].needs /\ ~IsCovered(c, c.queue[i].at)) <=> q[i].needs
    BY <1>1, <1>7
  <2>2. {i \in DOMAIN c.queue : c.queue[i].needs /\ ~IsCovered(c, c.queue[i].at)} = waiting
    BY <2>1, <1>1, <1>6
  <2>3. \A i \in 1..(front - 1) :
            (c.queue[i].streamed # NoBar /\ ~IsCovered(c, c.queue[i].at)) <=> q[i].streamed # NoBar
    BY <1>1, <1>7, <1>8
  <2>4. {i \in 1..(front - 1) : c.queue[i].streamed # NoBar /\ ~IsCovered(c, c.queue[i].at)} = S
    BY <2>3
  <2> HIDE DEF waiting
  <2>5. front = IF waiting = {} THEN Len(c.queue) + 1 ELSE Min(waiting)
    BY <1>1
  <2> HIDE DEF front, S
  <2> QED BY <1>1, <2>2, <2>4, <2>5 DEF EmitReady
<1> HIDE DEF front
<1>10. /\ n \in Nat
       /\ ready \in [1..n -> S]
       /\ \A i, j \in 1..n : i < j => ready[i] < ready[j]
       /\ \A p \in S : \E i \in 1..n : ready[i] = p
  <2>1. S \in SUBSET (1..L)
    BY <1>8
  <2> HIDE DEF S
  <2> QED BY <2>1, <1>2, PlacesAscend
<1>11. PICK r : r = ready
  OBVIOUS
<1>12. /\ n \in Nat /\ r \in [1..n -> S] /\ \A i, j \in 1..n : i < j => r[i] < r[j]
       /\ \A p \in S : \E i \in 1..n : r[i] = p
       /\ out = [i \in 1..n |-> q[r[i]].streamed]
  BY <1>10, <1>11
<1> HIDE DEF n, ready
<1>13. /\ out \in Seq(BarT) /\ Len(out) = n
       /\ \A i \in 1..n : r[i] \in 1..(front - 1) /\ r[i] \in 1..L /\ out[i] = q[r[i]].streamed
                          /\ out[i] # NoBar /\ out[i] \in BarT /\ out[i].at = q[r[i]].at
  <2>1. \A i \in 1..n : r[i] \in S
    BY <1>12
  <2>2. \A i \in 1..n : r[i] \in 1..(front - 1) /\ q[r[i]].streamed # NoBar
    BY <2>1
  <2> HIDE DEF S
  <2>3. \A i \in 1..n : r[i] \in 1..L
    BY <2>2, <1>8
  <2>4. \A i \in 1..n : q[r[i]].streamed \in BarT /\ q[r[i]].streamed.at = q[r[i]].at
    BY <2>2, <2>3, <1>3, <1>5
  <2>5. out \in [1..n -> BarT] /\ \A i \in 1..n : out[i] = q[r[i]].streamed
    BY <2>4, <1>12
  <2> HIDE DEF out
  <2>6. out \in Seq(BarT) /\ Len(out) = n
    BY <2>5, <1>12
  <2> QED BY <2>2, <2>3, <2>4, <2>5, <2>6
<1>14. \A p \in 1..(front - 1) : q[p].streamed # NoBar => \E i \in 1..n : r[i] = p
  BY <1>12
<1> HIDE DEF S, out
<1>15. \A i \in 1..n : out[i].at = q[r[i]].at /\ out[i].at \in Nat
  BY <1>13, <1>5
<1>16. \A i, j \in 1..n : i < j => out[i].at < out[j].at
  <2> SUFFICES ASSUME NEW i \in 1..n, NEW j \in 1..n, i < j
               PROVE  out[i].at < out[j].at
    OBVIOUS
  <2>1. r[i] \in 1..L /\ r[j] \in 1..L /\ r[i] < r[j]
    BY <1>12, <1>13
  <2>2. q[r[i]].at < q[r[j]].at
    BY <2>1, <1>3
  <2> QED BY <2>2, <1>15
<1>17. \A i \in 1..Len(s), j \in 1..n : s[i].at < out[j].at
  <2> SUFFICES ASSUME NEW i \in 1..Len(s), NEW j \in 1..n
               PROVE  s[i].at < out[j].at
    OBVIOUS
  <2>1. s[i].at <= LastEmitted(c) /\ LastEmitted(c) < out[j].at /\ out[j].at \in Nat
    BY <1>3, <1>4, <1>13, <1>15
  <2>2. s[i].at \in Nat
    BY <1>2, ElementOfSeq, BarFields
  <2> QED BY <2>1, <2>2, <1>4
<1>18. PICK m : m = s \o out
  OBVIOUS
<1>19. /\ m \in Seq(BarT)
       /\ Len(m) = Len(s) + n
       /\ \A i, j \in 1..Len(m) : i < j => m[i].at < m[j].at
       /\ ToSet(m) = ToSet(s) \cup ToSet(out)
       /\ n = 0 => m = s
       /\ n > 0 => m # <<>> /\ m[Len(m)] = out[n]
  BY <1>2, <1>3, <1>13, <1>16, <1>17, <1>18, BothAscend
<1>20. PICK rest : rest = SubSeq(q, front, L)
  OBVIOUS
<1>21. /\ rest \in Seq(EntryT) /\ Len(rest) = L + 1 - front
       /\ \A i \in 1..(L + 1 - front) : rest[i] = q[front - 1 + i]
  BY <1>1, <1>2, <1>8, <1>20, RestOf
<1>22. PICK e : e = EmitReady(c)
  OBVIOUS
<1>23. /\ e \in CloserT /\ e.queue = rest /\ e.emitted = m /\ SameRest(c, e)
       /\ e.resolver = c.resolver /\ e.drained = c.drained
  <2>1. e = [c EXCEPT !.queue = rest, !.emitted = m]
    BY <1>9, <1>18, <1>20, <1>22
  <2>2. c \in CloserT /\ rest \in Seq(EntryT) /\ m \in Seq(BarT)
    BY <1>2, <1>19, <1>21
  <2> QED BY <2>1, <2>2 DEF CloserT, SameRest
<1>24. /\ LastEmitted(e) \in Int
       /\ n = 0 => LastEmitted(e) = LastEmitted(c)
       /\ n > 0 => LastEmitted(e) = out[n].at
       /\ \A i \in 1..Len(m) : m[i].at <= LastEmitted(e)
  <2>1. /\ LastEmitted(e) \in Int
        /\ m # <<>> => LastEmitted(e) = m[Len(m)].at
        /\ \A i \in 1..Len(m) : m[i].at <= LastEmitted(e)
    BY <1>19, <1>23, LatestLast
  <2>2. n = 0 => LastEmitted(e) = LastEmitted(c)
    BY <1>1, <1>19, <1>23 DEF LastEmitted
  <2> QED BY <2>1, <2>2, <1>19
<1>25. \A i \in 1..n : out[i].at <= LastEmitted(e)
  <2>1. \A i \in 1..n : i < n => out[i].at < out[n].at
    BY <1>12, <1>16
  <2> QED BY <2>1, <1>12, <1>15, <1>24
<1>26. \A i \in front..L : LastEmitted(e) < q[i].at
  <2> SUFFICES ASSUME NEW i \in front..L
               PROVE  LastEmitted(e) < q[i].at
    OBVIOUS
  <2>1. i \in 1..L
    BY <1>8, <1>2
  <2>2. CASE n = 0
    BY <2>1, <2>2, <1>3, <1>24
  <2>3. CASE n > 0
    <3>1. n \in 1..n /\ r[n] \in 1..L /\ r[n] < i
      BY <2>3, <1>2, <1>8, <1>12, <1>13
    <3>2. q[r[n]].at < q[i].at
      BY <3>1, <2>1, <1>3
    <3> QED BY <2>3, <3>1, <3>2, <1>13, <1>24
  <2> QED BY <2>2, <2>3, <1>12
<1>27. \A i \in 1..Len(rest) : front - 1 + i \in front..L /\ front - 1 + i \in 1..L
                               /\ rest[i] = q[front - 1 + i]
  BY <1>2, <1>8, <1>21
<1>28. Good(e)
  <2>1. \A i, j \in 1..Len(rest) : i < j => rest[i].at < rest[j].at
    <3> SUFFICES ASSUME NEW i \in 1..Len(rest), NEW j \in 1..Len(rest), i < j
                 PROVE  rest[i].at < rest[j].at
      OBVIOUS
    <3>1. PICK a \in 1..L, b \in 1..L : a = front - 1 + i /\ b = front - 1 + j
      BY <1>27
    <3>2. a < b
      <4>1. Len(rest) \in Nat /\ front \in Int
        BY <1>8, <1>21, <1>2
      <4> QED BY <4>1, <3>1
    <3>3. rest[i] = q[a] /\ rest[j] = q[b]
      BY <3>1, <1>27
    <3> QED BY <3>1, <3>2, <3>3, <1>3
  <2>2. \A i \in 1..Len(rest) : LastEmitted(e) < rest[i].at
    BY <1>26, <1>27
  <2>3. \A i \in 1..Len(rest) : rest[i].streamed # NoBar => rest[i].streamed.at = rest[i].at
    BY <1>3, <1>27
  <2> QED BY <2>1, <2>2, <2>3, <1>19, <1>23 DEF Good, Ordered
<1>29. /\ ToSet(q) = {q[i] : i \in 1..L} /\ ToSet(rest) = {rest[i] : i \in 1..Len(rest)}
       /\ ToSet(out) = {out[i] : i \in 1..n}
  <2>1. DOMAIN q = 1..L /\ DOMAIN rest = 1..Len(rest) /\ DOMAIN out = 1..n
    BY <1>6, <1>13, <1>21, LenProperties
  <2> QED BY <2>1 DEF ToSet
<1>30. ToSet(rest) \subseteq ToSet(q)
  BY <1>27, <1>29
<1>31. \A p \in ToSet(q) \ ToSet(rest) :
          /\ ~p.needs
          /\ p.streamed # NoBar => p.streamed \in ToSet(m) /\ p.at <= LastEmitted(e)
  <2> SUFFICES ASSUME NEW i \in 1..L, q[i] \notin ToSet(rest)
               PROVE  /\ ~q[i].needs
                      /\ q[i].streamed # NoBar => q[i].streamed \in ToSet(m) /\ q[i].at <= LastEmitted(e)
    BY <1>29
  <2>1. i < front
    <3> SUFFICES ASSUME ~(i < front)
                 PROVE  FALSE
      OBVIOUS
    <3>1. PICK k : k = i - front + 1
      OBVIOUS
    <3>2. k \in 1..Len(rest) /\ front - 1 + k = i
      BY <3>1, <1>2, <1>8, <1>21
    <3>3. rest[k] = q[i]
      BY <3>2, <1>27
    <3> QED BY <3>2, <3>3, <1>29
  <2>2. i \in 1..(front - 1) /\ ~q[i].needs
    BY <2>1, <1>2, <1>8
  <2>3. ASSUME q[i].streamed # NoBar
        PROVE  q[i].streamed \in ToSet(m) /\ q[i].at <= LastEmitted(e)
    <3>1. PICK k \in 1..n : r[k] = i
      BY <2>2, <2>3, <1>14
    <3>2. out[k] = q[i].streamed /\ out[k].at = q[i].at
      BY <3>1, <1>13
    <3> QED BY <3>1, <3>2, <1>19, <1>25, <1>29
  <2> QED BY <2>2, <2>3
<1>32. LastEmitted(c) <= LastEmitted(e)
  <2>1. CASE n = 0
    BY <2>1, <1>4, <1>24
  <2>2. CASE n > 0
    <3>1. n \in 1..n
      BY <2>2, <1>12
    <3>2. r[n] \in 1..L /\ out[n].at = q[r[n]].at /\ LastEmitted(e) = out[n].at
      BY <3>1, <2>2, <1>13, <1>24
    <3>3. LastEmitted(c) < LastEmitted(e)
      BY <3>2, <1>3
    <3> QED BY <3>3, <1>4, <1>24
  <2> QED BY <2>1, <2>2, <1>12
<1>33. LastEmitted(e) = LastEmitted(c)
          \/ \E p \in ToSet(q) : p.at = LastEmitted(e) /\ p.at \in Boundaries
  <2>1. CASE n = 0
    BY <2>1, <1>24
  <2>2. CASE n > 0
    <3>1. n \in 1..n
      BY <2>2, <1>12
    <3>2. r[n] \in 1..L /\ out[n].at = q[r[n]].at /\ out[n] \in BarT
      BY <3>1, <1>13
    <3>3. out[n].at \in Boundaries
      BY <3>2, BarFields
    <3> QED BY <3>2, <3>3, <2>2, <1>24, <1>29
  <2> QED BY <2>1, <2>2, <1>12
<1>34. rest # <<>> => q # <<>>
  <2>1. q = <<>> => L = 0
    BY <1>1
  <2>2. L = 0 => Len(rest) = 0
    BY <1>8, <1>21
  <2> QED BY <2>1, <2>2, <1>21, EmptySeq
<1>35. Emits(c, e)
  BY <1>1, <1>19, <1>23, <1>30, <1>31, <1>32, <1>33 DEF Emits
<1> QED BY <1>1, <1>22, <1>23, <1>28, <1>34, <1>35

\* A queue that is not empty is being resolved.
HasResolver(c) == c.queue # <<>> => c.resolver.pc # "none"

LEMMA LastIsInt ==
    ASSUME NEW c, Good(c)
    PROVE  LastEmitted(c) \in Int /\ (LastEmitted(c) = -1 \/ LastEmitted(c) \in Boundaries)
<1>1. /\ c.emitted \in Seq(BarT)
      /\ \A i, j \in 1..Len(c.emitted) : i < j => c.emitted[i].at < c.emitted[j].at
  BY CloserFields DEF Good, Ordered
<1> QED BY <1>1, LatestLast

LEMMA EmitsNothing ==
    ASSUME NEW c, Good(c)
    PROVE  Emits(c, c)
  BY LastIsInt DEF Emits, SameRest

\* The resolver and drained play no part in what is emitted.
LEMMA EmitsStill ==
    ASSUME NEW c, NEW d, NEW e, Good(d), Emits(c, d), e \in CloserT,
           e.queue = d.queue, e.emitted = d.emitted, SameRest(d, e)
    PROVE  Good(e) /\ Emits(c, e)
<1>1. LastEmitted(e) = LastEmitted(d)
  BY DEF LastEmitted
<1>2. Good(e)
  BY <1>1 DEF Good, Ordered
<1>3. SameRest(c, e)
  BY DEF Emits, SameRest
<1> QED BY <1>1, <1>2, <1>3 DEF Emits

LEMMA PumpEmits ==
    ASSUME NEW c, Good(c)
    PROVE  Good(Pump(c)) /\ Emits(c, Pump(c)) /\ HasResolver(Pump(c))
<1>1. PICK e : e = EmitReady(c)
  OBVIOUS
<1>2. Good(e) /\ Emits(c, e) /\ e \in CloserT /\ e.resolver = c.resolver
  BY <1>1, EmitsReady DEF Good
<1>3. CASE c.resolver.pc # "none"
  <2>1. Pump(c) = c
    BY <1>3 DEF Pump
  <2> QED BY <2>1, <1>3, EmitsNothing DEF HasResolver
<1>4. CASE c.resolver.pc = "none" /\ e.queue = <<>>
  <2>1. Pump(c) = [e EXCEPT !.drained = TRUE]
    BY <1>1, <1>4 DEF Pump
  <2>2. PICK d : d = [e EXCEPT !.drained = TRUE]
    OBVIOUS
  <2>3. d \in CloserT /\ d.queue = e.queue /\ d.emitted = e.emitted /\ SameRest(e, d)
    BY <1>2, <2>2 DEF CloserT, SameRest
  <2>4. Good(d) /\ Emits(c, d)
    BY <1>2, <2>3, EmitsStill
  <2> QED BY <1>4, <2>1, <2>2, <2>3, <2>4 DEF HasResolver
<1>5. CASE c.resolver.pc = "none" /\ e.queue # <<>>
  <2>1. Pump(c) = [e EXCEPT !.resolver.pc = "starting"]
    BY <1>1, <1>5 DEF Pump
  <2>2. PICK d : d = [e EXCEPT !.resolver.pc = "starting"]
    OBVIOUS
  <2>3. [e.resolver EXCEPT !.pc = "starting"] \in ResolverT
    BY <1>2, CloserFields DEF ResolverT
  <2>4. /\ d \in CloserT /\ d.queue = e.queue /\ d.emitted = e.emitted /\ SameRest(e, d)
        /\ d.resolver = [e.resolver EXCEPT !.pc = "starting"]
    BY <1>2, <2>2, <2>3 DEF CloserT, SameRest
  <2>5. d.resolver.pc = "starting"
    BY <2>4, <1>2, CloserFields DEF ResolverT
  <2>6. Good(d) /\ Emits(c, d)
    BY <1>2, <2>4, EmitsStill
  <2> QED BY <2>1, <2>2, <2>5, <2>6 DEF HasResolver
<1> QED BY <1>3, <1>4, <1>5

LEMMA ResolveOnEmits ==
    ASSUME NEW c, Good(c), now \in Nat
    PROVE  /\ Good(ResolveOn(c)) /\ Emits(c, ResolveOn(c))
           /\ Accepting => HasResolver(ResolveOn(c))
<1>1. PICK e : e = EmitReady(c)
  OBVIOUS
<1>2. Good(e) /\ Emits(c, e) /\ e \in CloserT
  BY <1>1, EmitsReady DEF Good
<1>3. Idle \in ResolverT
  BY DEF Idle, ResolverT
<1>4. CASE e.queue = <<>>
  <2>1. ResolveOn(c) = [e EXCEPT !.resolver = Idle, !.drained = TRUE]
    BY <1>1, <1>4 DEF ResolveOn
  <2>2. PICK d : d = [e EXCEPT !.resolver = Idle, !.drained = TRUE]
    OBVIOUS
  <2>3. d \in CloserT /\ d.queue = e.queue /\ d.emitted = e.emitted /\ SameRest(e, d)
    BY <1>2, <1>3, <2>2 DEF CloserT, SameRest
  <2>4. Good(d) /\ Emits(c, d)
    BY <1>2, <2>3, EmitsStill
  <2> QED BY <1>4, <2>1, <2>2, <2>3, <2>4 DEF HasResolver
<1>5. CASE e.queue # <<>> /\ ~Accepting
  <2>1. ResolveOn(c) = [e EXCEPT !.resolver = Idle]
    BY <1>1, <1>5 DEF ResolveOn
  <2>2. PICK d : d = [e EXCEPT !.resolver = Idle]
    OBVIOUS
  <2>3. d \in CloserT /\ d.queue = e.queue /\ d.emitted = e.emitted /\ SameRest(e, d)
    BY <1>2, <1>3, <2>2 DEF CloserT, SameRest
  <2>4. Good(d) /\ Emits(c, d)
    BY <1>2, <2>3, EmitsStill
  <2> QED BY <1>5, <2>1, <2>2, <2>4
<1>6. CASE e.queue # <<>> /\ Accepting
  <2> DEFINE r == [pc |-> "asking", at |-> Head(e.queue).at, attempt |-> 0,
                   deadline |-> now + Period, wake |-> 0]
  <2>1. ResolveOn(c) = [e EXCEPT !.resolver = r]
    BY <1>1, <1>6 DEF ResolveOn
  <2>2. PICK d : d = [e EXCEPT !.resolver = r]
    OBVIOUS
  <2>3. r \in ResolverT
    <3>1. PICK q : q = e.queue
      OBVIOUS
    <3>2. q \in Seq(EntryT) /\ q # <<>>
      BY <3>1, <1>2, <1>6, CloserFields
    <3>3. Head(q) \in EntryT
      BY <3>2
    <3>4. Head(e.queue).at \in Int
      BY <3>1, <3>3, EntryFields
    <3>5. now + Period \in Nat
      BY Numbers
    <3> QED BY <3>4, <3>5 DEF ResolverT
  <2>4. r.pc = "asking"
    OBVIOUS
  <2> HIDE DEF r
  <2>5. /\ d \in CloserT /\ d.queue = e.queue /\ d.emitted = e.emitted /\ SameRest(e, d)
        /\ d.resolver = r
    BY <1>2, <2>2, <2>3 DEF CloserT, SameRest
  <2>6. Good(d) /\ Emits(c, d)
    BY <1>2, <2>5, EmitsStill
  <2> QED BY <2>1, <2>2, <2>4, <2>5, <2>6 DEF HasResolver
<1> QED BY <1>4, <1>5, <1>6

-----------------------------------------------------------------------------
(* What _enqueue() does *)

\* The boundaries ats have a bar each, or none.
Arrivals(ats, bar) ==
    /\ ats \subseteq Int /\ IsFiniteSet(ats)
    /\ \A at \in ats : bar[at] \in BarT \cup {NoBar} /\ (bar[at] # NoBar => bar[at].at = at)

\* The entry p, with the bar that came for it if it had none.
Retold(p, r, ats, bar) ==
    /\ r.at = p.at /\ r.needs = p.needs
    /\ r.streamed = p.streamed \/ (p.streamed = NoBar /\ p.at \in ats /\ r.streamed = bar[p.at])

\* The boundaries ats are queued, and nothing is emitted yet.
Queues(c, d, ats, bar, needs) ==
    /\ SameRest(c, d) /\ d.emitted = c.emitted
    /\ \A p \in ToSet(c.queue) : \E r \in ToSet(d.queue) : Retold(p, r, ats, bar)
    /\ \A r \in ToSet(d.queue) :
          \/ \E p \in ToSet(c.queue) : Retold(p, r, ats, bar)
          \/ r.at \in ats /\ r.at >= Floor /\ r.streamed = bar[r.at] /\ r.needs = needs
    /\ ~c.closed => \A at \in ats : at >= Floor => IsCovered(c, at) \/ IsQueued(d, at)

\* The entries of a good queue.
LEMMA QueueEntries ==
    ASSUME NEW c, Good(c)
    PROVE  /\ ToSet(c.queue) = {c.queue[i] : i \in 1..Len(c.queue)}
           /\ DOMAIN c.queue = 1..Len(c.queue)
           /\ IsFiniteSet(ToSet(c.queue)) /\ ToSet(c.queue) \subseteq EntryT
           /\ \A p, r \in ToSet(c.queue) : p.at = r.at => p = r
           /\ \A p \in ToSet(c.queue) : LastEmitted(c) < p.at
           /\ \A p \in ToSet(c.queue) : p.streamed # NoBar => p.streamed.at = p.at
           /\ \A at : IsQueued(c, at) <=> \E p \in ToSet(c.queue) : p.at = at
<1>1. PICK q, L : q = c.queue /\ L = Len(q)
  OBVIOUS
<1>2. q \in Seq(EntryT) /\ L \in Nat /\ DOMAIN q = 1..L
  BY <1>1, CloserFields, LenProperties DEF Good
<1>3. /\ \A i, j \in 1..L : i < j => q[i].at < q[j].at
      /\ \A i \in 1..L : LastEmitted(c) < q[i].at
      /\ \A i \in 1..L : q[i].streamed # NoBar => q[i].streamed.at = q[i].at
  BY <1>1 DEF Good, Ordered
<1>4. ToSet(q) = {q[i] : i \in 1..L}
  BY <1>2 DEF ToSet
<1>5. \A i \in 1..L : q[i] \in EntryT /\ q[i].at \in Nat
  BY <1>1, <1>2, ElementOfSeq, EntryFields
<1>6. IsFiniteSet(1..L)
  BY <1>2, FS_Interval
<1>7. IsFiniteSet(ToSet(q))
  <2>1. [i \in 1..L |-> q[i]] \in Surjection(1..L, ToSet(q))
    BY <1>4 DEF Surjection
  <2> QED BY <2>1, <1>6, FS_Surjection
<1>8. \A i, j \in 1..L : q[i].at = q[j].at => q[i] = q[j]
  <2> SUFFICES ASSUME NEW i \in 1..L, NEW j \in 1..L, q[i].at = q[j].at
               PROVE  i = j
    OBVIOUS
  <2>1. ~(i < j) /\ ~(j < i)
    BY <1>3, <1>5
  <2> QED BY <2>1, <1>2
<1>9. \A at : IsQueued(c, at) <=> \E i \in 1..L : q[i].at = at
  BY <1>1, <1>2 DEF IsQueued
<1> QED BY <1>1, <1>2, <1>3, <1>4, <1>5, <1>7, <1>8, <1>9

\* A closer whose queue is a set of entries behind the last bar emitted.
LEMMA GoodQueue ==
    ASSUME NEW c, Good(c), NEW S, IsFiniteSet(S), S \subseteq EntryT,
           \A p, r \in S : p.at = r.at => p = r,
           \A p \in S : LastEmitted(c) < p.at,
           \A p \in S : p.streamed # NoBar => p.streamed.at = p.at,
           NEW d \in CloserT, d.queue = InOrder(S), d.emitted = c.emitted
    PROVE  Good(d) /\ ToSet(d.queue) = S /\ (d.queue = <<>> <=> S = {})
<1>1. PICK q : q = InOrder(S)
  OBVIOUS
<1>2. \A p \in S : p \in EntryT /\ p.at \in Int
  BY EntryFields
<1>3. /\ q \in Seq(S)
      /\ \A i, j \in 1..Len(q) : i < j => q[i].at < q[j].at
      /\ \A p \in S : \E i \in 1..Len(q) : q[i] = p
  BY <1>1, <1>2, InOrderAscends
<1>4. \A i \in 1..Len(q) : q[i] \in S
  BY <1>3, ElementOfSeq
<1>5. DOMAIN q = 1..Len(q)
  BY <1>3, LenProperties
<1>6. ToSet(q) = S
  BY <1>3, <1>4, <1>5 DEF ToSet
<1>7. LastEmitted(d) = LastEmitted(c)
  BY DEF LastEmitted
<1>8. Ordered(d)
  <2>1. \A i, j \in 1..Len(d.emitted) : i < j => d.emitted[i].at < d.emitted[j].at
    BY DEF Good, Ordered
  <2>2. \A i \in 1..Len(q) : /\ LastEmitted(d) < q[i].at
                             /\ q[i].streamed # NoBar => q[i].streamed.at = q[i].at
    BY <1>4, <1>7
  <2> QED BY <1>1, <1>3, <2>1, <2>2 DEF Ordered
<1>9. q = <<>> <=> S = {}
  <2>1. q = <<>> => DOMAIN q = {}
    OBVIOUS
  <2>2. q # <<>> => 1 \in 1..Len(q)
    <3>1. q # <<>> => Len(q) # 0
      BY <1>3, EmptySeq
    <3> QED BY <3>1, <1>3, LenProperties
  <2> QED BY <2>1, <2>2, <1>3, <1>4, <1>5
<1> QED BY <1>1, <1>6, <1>8, <1>9 DEF Good

LEMMA EnqueueQueues ==
    ASSUME NEW c, Good(c), NEW ats, NEW bar, Arrivals(ats, bar), NEW needs \in BOOLEAN
    PROVE  LET e == Enqueue(c, ats, bar, needs) IN
           /\ \E d : Good(d) /\ Queues(c, d, ats, bar, needs) /\ Good(e) /\ Emits(d, e)
           /\ HasResolver(c) => HasResolver(e)
<1> DEFINE told(p) == IF p.at \in ats /\ p.streamed = NoBar THEN [p EXCEPT !.streamed = bar[p.at]] ELSE p
           fresh == {at \in ats : ~c.closed /\ at >= Floor /\ ~IsCovered(c, at) /\ ~IsQueued(c, at)}
           kept == {told(p) : p \in ToSet(c.queue)}
           made(at) == [at |-> at, streamed |-> bar[at], needs |-> needs]
           new == {made(at) : at \in fresh}
           S == kept \cup new
<1>1. /\ IsFiniteSet(ToSet(c.queue)) /\ ToSet(c.queue) \subseteq EntryT
      /\ \A p, r \in ToSet(c.queue) : p.at = r.at => p = r
      /\ \A p \in ToSet(c.queue) : LastEmitted(c) < p.at
      /\ \A p \in ToSet(c.queue) : p.streamed # NoBar => p.streamed.at = p.at
      /\ \A at : IsQueued(c, at) <=> \E p \in ToSet(c.queue) : p.at = at
  BY QueueEntries
<1>2. c \in CloserT /\ LastEmitted(c) \in Int
  BY LastIsInt DEF Good
<1>3. /\ ats \subseteq Int /\ IsFiniteSet(ats)
      /\ \A at \in ats : bar[at] \in BarT \cup {NoBar} /\ (bar[at] # NoBar => bar[at].at = at)
  BY DEF Arrivals
<1>4. ASSUME NEW p \in ToSet(c.queue)
      PROVE  /\ told(p) \in EntryT /\ told(p).at = p.at /\ Retold(p, told(p), ats, bar)
             /\ told(p).streamed # NoBar => told(p).streamed.at = p.at
  <2>1. p \in EntryT /\ p.at \in Nat
    BY <1>1, EntryFields
  <2>2. CASE p.at \in ats /\ p.streamed = NoBar
    <3>1. PICK r : r = [p EXCEPT !.streamed = bar[p.at]]
      OBVIOUS
    <3>2. r \in EntryT /\ r.at = p.at /\ r.needs = p.needs /\ r.streamed = bar[p.at]
      BY <2>1, <2>2, <3>1, <1>3 DEF EntryT
    <3> QED BY <2>2, <3>1, <3>2, <1>3 DEF Retold
  <2>3. CASE ~(p.at \in ats /\ p.streamed = NoBar)
    BY <2>1, <2>3, <1>1 DEF Retold
  <2> QED BY <2>2, <2>3
<1>5. ASSUME NEW at \in fresh
      PROVE  /\ made(at) \in EntryT /\ made(at).at = at /\ made(at).streamed = bar[at]
             /\ made(at).needs = needs /\ at \in ats /\ at >= Floor /\ ~c.closed
             /\ LastEmitted(c) < at /\ ~IsQueued(c, at)
             /\ made(at).streamed # NoBar => made(at).streamed.at = at
  <2>1. at \in ats /\ at \in Int /\ at >= Floor /\ ~IsCovered(c, at) /\ ~IsQueued(c, at) /\ ~c.closed
    BY <1>3
  <2>2. at \in Nat
    BY <2>1, Numbers
  <2>3. LastEmitted(c) < at
    BY <2>1, <1>2 DEF IsCovered
  <2>4. made(at) \in EntryT
    BY <2>1, <2>2, <1>3 DEF EntryT
  <2> QED BY <2>1, <2>3, <2>4, <1>3
<1> HIDE DEF told, made
<1>6. S \subseteq EntryT
  <2>1. kept \subseteq EntryT
    BY <1>4
  <2>2. new \subseteq EntryT
    <3> HIDE DEF fresh
    <3> QED BY <1>5
  <2> QED BY <2>1, <2>2
<1>7. IsFiniteSet(kept) /\ IsFiniteSet(new)
  <2>1. [p \in ToSet(c.queue) |-> told(p)] \in Surjection(ToSet(c.queue), kept)
    BY DEF Surjection
  <2>2. IsFiniteSet(kept)
    BY <2>1, <1>1, FS_Surjection
  <2>3. IsFiniteSet(fresh)
    BY <1>3, FS_Subset
  <2> HIDE DEF fresh
  <2>4. [at \in fresh |-> made(at)] \in Surjection(fresh, new)
    BY DEF Surjection
  <2>5. IsFiniteSet(new)
    BY <2>3, <2>4, FS_Surjection
  <2> QED BY <2>2, <2>5
<1> HIDE DEF fresh
<1>8. IsFiniteSet(S)
  BY <1>7, FS_Union
<1>9. \A p, r \in S : p.at = r.at => p = r
  <2>1. \A p, r \in kept : p.at = r.at => p = r
    BY <1>1, <1>4
  <2>2. \A p, r \in new : p.at = r.at => p = r
    BY <1>5
  <2>3. \A p \in kept, r \in new : p.at # r.at
    BY <1>1, <1>4, <1>5
  <2> QED BY <2>1, <2>2, <2>3
<1>10. \A p \in S : LastEmitted(c) < p.at
  <2>1. \A p \in kept : LastEmitted(c) < p.at
    BY <1>1, <1>4
  <2>2. \A p \in new : LastEmitted(c) < p.at
    BY <1>5
  <2> QED BY <2>1, <2>2
<1>11. \A p \in S : p.streamed # NoBar => p.streamed.at = p.at
  <2>1. \A p \in kept : p.streamed # NoBar => p.streamed.at = p.at
    BY <1>4
  <2>2. \A p \in new : p.streamed # NoBar => p.streamed.at = p.at
    BY <1>5
  <2> QED BY <2>1, <2>2
<1>12. PICK e : e = Enqueue(c, ats, bar, needs)
  OBVIOUS
<1>13. e = IF fresh = {} THEN [c EXCEPT !.queue = InOrder(kept)]
           ELSE Pump([c EXCEPT !.queue = InOrder(S), !.drained = FALSE])
  BY <1>12 DEF Enqueue, fresh, told, made
<1>14. PICK d : d = IF fresh = {} THEN [c EXCEPT !.queue = InOrder(S)]
                    ELSE [c EXCEPT !.queue = InOrder(S), !.drained = FALSE]
  OBVIOUS
<1>15. e = IF fresh = {} THEN d ELSE Pump(d)
  <2>1. fresh = {} => S = kept
    OBVIOUS
  <2> HIDE DEF kept, new
  <2> QED BY <2>1, <1>13, <1>14
<1> HIDE DEF S
<1>16. InOrder(S) \in Seq(EntryT)
  <2>1. \A p \in S : p.at \in Int
    BY <1>6, EntryFields
  <2>2. InOrder(S) \in Seq(S)
    BY <2>1, <1>8, <1>9, InOrderAscends
  <2> QED BY <2>2, <1>6
<1>17. /\ d \in CloserT /\ d.queue = InOrder(S) /\ d.emitted = c.emitted /\ d.resolver = c.resolver
       /\ SameRest(c, d)
  BY <1>2, <1>14, <1>16 DEF CloserT, SameRest
<1>18. Good(d) /\ ToSet(d.queue) = S /\ (d.queue = <<>> <=> S = {})
  BY <1>6, <1>8, <1>9, <1>10, <1>11, <1>17, GoodQueue
<1>19. ToSet(d.queue) = kept \cup new
  BY <1>18 DEF S
<1>20. Queues(c, d, ats, bar, needs)
  <2>1. \A p \in ToSet(c.queue) : \E r \in ToSet(d.queue) : Retold(p, r, ats, bar)
    BY <1>4, <1>19
  <2>2. \A r \in ToSet(d.queue) :
          \/ \E p \in ToSet(c.queue) : Retold(p, r, ats, bar)
          \/ r.at \in ats /\ r.at >= Floor /\ r.streamed = bar[r.at] /\ r.needs = needs
    <3>1. \A r \in kept : \E p \in ToSet(c.queue) : Retold(p, r, ats, bar)
      BY <1>4
    <3>2. \A r \in new : r.at \in ats /\ r.at >= Floor /\ r.streamed = bar[r.at] /\ r.needs = needs
      <4> SUFFICES ASSUME NEW at \in fresh
                   PROVE  /\ made(at).at \in ats /\ made(at).at >= Floor
                          /\ made(at).streamed = bar[made(at).at] /\ made(at).needs = needs
        OBVIOUS
      <4>1. made(at).at = at
        BY <1>5
      <4> QED BY <4>1, <1>5
    <3> QED BY <3>1, <3>2, <1>19
  <2>3. ASSUME ~c.closed, NEW at \in ats, at >= Floor
        PROVE  IsCovered(c, at) \/ IsQueued(d, at)
    <3>1. \A r \in ToSet(d.queue) : IsQueued(d, r.at)
      BY <1>18, QueueEntries
    <3>2. CASE IsQueued(c, at)
      <4>1. PICK p \in ToSet(c.queue) : p.at = at
        BY <3>2, <1>1
      <4>2. told(p) \in ToSet(d.queue) /\ told(p).at = at
        BY <4>1, <1>4, <1>19
      <4> QED BY <4>2, <3>1
    <3>3. CASE ~IsQueued(c, at) /\ ~IsCovered(c, at)
      <4>1. at \in fresh
        BY <2>3, <3>3 DEF fresh
      <4>2. made(at) \in ToSet(d.queue) /\ made(at).at = at
        BY <4>1, <1>5, <1>19
      <4> QED BY <4>2, <3>1
    <3> QED BY <3>2, <3>3
  <2> QED BY <2>1, <2>2, <2>3, <1>17 DEF Queues
<1>21. Good(e) /\ Emits(d, e)
  BY <1>15, <1>18, PumpEmits, EmitsNothing
<1>22. HasResolver(c) => HasResolver(e)
  <2>1. CASE fresh # {}
    BY <2>1, <1>15, <1>18, PumpEmits
  <2>2. CASE fresh = {}
    <3>1. e = d /\ new = {}
      BY <2>2, <1>15
    <3>2. c.queue = <<>> => kept = {}
      <4>1. c.queue = <<>> => ToSet(c.queue) = {}
        BY DEF ToSet
      <4> QED BY <4>1
    <3>3. c.queue = <<>> => d.queue = <<>>
      BY <3>1, <3>2, <1>18 DEF S
    <3> QED BY <3>1, <3>3, <1>17 DEF HasResolver
  <2> QED BY <2>1, <2>2
<1> QED BY <1>12, <1>18, <1>20, <1>21, <1>22

-----------------------------------------------------------------------------
(* The closer's other operators *)

\* The queue, what is out and the resolver are the same.
SameQueue(c, d) ==
    /\ d \in CloserT /\ d.queue = c.queue /\ d.emitted = c.emitted /\ d.resolver = c.resolver
    /\ d.closed = c.closed

LEMMA SameQueueKept ==
    ASSUME NEW c, Good(c), NEW d, SameQueue(c, d)
    PROVE  /\ Good(d) /\ LastEmitted(d) = LastEmitted(c) /\ (HasResolver(c) => HasResolver(d))
           /\ \A at : (IsCovered(d, at) <=> IsCovered(c, at)) /\ (IsQueued(d, at) <=> IsQueued(c, at))
<1>1. LastEmitted(d) = LastEmitted(c)
  BY DEF SameQueue, LastEmitted
<1>2. Good(d)
  BY <1>1 DEF Good, Ordered, SameQueue
<1> QED BY <1>1, <1>2 DEF SameQueue, IsCovered, IsQueued, HasResolver

LEMMA OneArrives ==
    ASSUME NEW bar \in BarT
    PROVE  Arrivals({bar.at}, [at \in {bar.at} |-> bar])
<1>1. bar.at \in Int
  BY BarFields
<1>2. IsFiniteSet({bar.at})
  BY FS_Singleton
<1> QED BY <1>1, <1>2 DEF Arrivals

\* A closer that has one bar queued.
LEMMA EnqueueOneKept ==
    ASSUME NEW c, Good(c), NEW bar \in BarT, NEW needs \in BOOLEAN
    PROVE  LET e == EnqueueOne(c, bar, needs) IN
           /\ Good(e) /\ SameRest(c, e) /\ (HasResolver(c) => HasResolver(e))
           /\ \E d : /\ Good(d) /\ Emits(d, e)
                     /\ Queues(c, d, {bar.at}, [at \in {bar.at} |-> bar], needs)
<1> DEFINE e == EnqueueOne(c, bar, needs)
           told == [at \in {bar.at} |-> bar]
<1>1. Arrivals({bar.at}, told)
  BY OneArrives
<1>2. e = Enqueue(c, {bar.at}, told, needs)
  BY DEF EnqueueOne
<1> HIDE DEF e, told
<1>3. /\ \E d : Good(d) /\ Queues(c, d, {bar.at}, told, needs) /\ Good(e) /\ Emits(d, e)
      /\ HasResolver(c) => HasResolver(e)
  BY <1>1, <1>2, EnqueueQueues
<1>4. SameRest(c, e)
  BY <1>3 DEF Queues, Emits, SameRest
<1> QED BY <1>3, <1>4 DEF e, told

\* on_update(), case by case; d is the closer before anything is queued.
UpdatesTo(c, bar, d, e) ==
    /\ SameQueue(c, d) /\ d.phase = Offset /\ d.holding = c.holding /\ d.blind = c.blind
    /\ \/ /\ IsCovered(c, bar.at)
          /\ e = d /\ d.current = c.current /\ d.held = c.held /\ d.baseline = c.baseline
       \/ /\ ~IsCovered(c, bar.at) /\ c.holding
          /\ e = d /\ d.current = c.current /\ d.held = bar /\ d.baseline = c.baseline
       \/ /\ ~IsCovered(c, bar.at) /\ ~c.holding /\ IsQueued(c, bar.at)
          /\ e = EnqueueOne(d, bar, TRUE)
          /\ d.current = c.current /\ d.held = c.held /\ d.baseline = c.baseline
       \/ /\ ~IsCovered(c, bar.at) /\ ~c.holding /\ ~IsQueued(c, bar.at)
          /\ c.baseline /\ Closed(bar.at)
          /\ e = EnqueueOne(d, bar, TRUE)
          /\ d.current = c.current /\ d.held = c.held /\ d.baseline = FALSE
       \/ /\ ~IsCovered(c, bar.at) /\ ~c.holding /\ ~IsQueued(c, bar.at)
          /\ ~(c.baseline /\ Closed(bar.at))
          /\ d.held = c.held /\ d.baseline = FALSE
          /\ \/ (c.current = NoBar \/ bar.at = c.current.at) /\ d.current = bar /\ e = d
             \/ /\ c.current # NoBar /\ c.current.at < bar.at
                /\ d.current = bar /\ e = EnqueueOne(d, c.current, FALSE)
             \/ c.current # NoBar /\ bar.at < c.current.at /\ d.current = c.current /\ e = d

LEMMA UpdateCases ==
    ASSUME NEW c, Good(c), NEW bar \in BarT, ~c.closed
    PROVE  \E d : UpdatesTo(c, bar, d, OnUpdate(c, bar))
<1>1. PICK e : e = OnUpdate(c, bar)
  OBVIOUS
<1>2. PICK o : o = Observe(c, bar.at)
  OBVIOUS
<1>3. c \in CloserT
  BY DEF Good
<1>4. bar.at % Period = Offset /\ bar.at \in Nat /\ ~(bar.at < Floor)
  BY BarFields, Numbers
<1>5. o = [c EXCEPT !.phase = Offset]
  BY <1>2, <1>4 DEF Observe
<1>6. /\ SameQueue(c, o) /\ o.phase = Offset /\ o.holding = c.holding /\ o.blind = c.blind
      /\ o.current = c.current /\ o.held = c.held /\ o.baseline = c.baseline
  BY <1>3, <1>5 DEF CloserT, SameQueue
<1>7. PICK p : p = [o EXCEPT !.baseline = FALSE]
  OBVIOUS
<1>8. /\ SameQueue(c, p) /\ p.phase = Offset /\ p.holding = c.holding /\ p.blind = c.blind
      /\ p.current = c.current /\ p.held = c.held /\ p.baseline = FALSE
  BY <1>6, <1>7 DEF CloserT, SameQueue
<1>9. e = IF IsCovered(c, bar.at) THEN o
          ELSE IF c.holding THEN [o EXCEPT !.held = bar]
          ELSE IF IsQueued(c, bar.at) THEN EnqueueOne(o, bar, TRUE)
          ELSE IF c.baseline /\ Closed(bar.at) THEN EnqueueOne(p, bar, TRUE)
          ELSE Follow(p, bar)
  BY <1>1, <1>2, <1>4, <1>7 DEF OnUpdate
<1>10. CASE IsCovered(c, bar.at)
  BY <1>6, <1>9, <1>10, <1>1 DEF UpdatesTo
<1>11. CASE ~IsCovered(c, bar.at) /\ c.holding
  <2>1. /\ SameQueue(c, e) /\ e.phase = Offset /\ e.holding = c.holding /\ e.blind = c.blind
        /\ e.current = c.current /\ e.held = bar /\ e.baseline = c.baseline
    BY <1>6, <1>9, <1>11 DEF CloserT, SameQueue
  <2> QED BY <2>1, <1>1, <1>11 DEF UpdatesTo
<1>12. CASE ~IsCovered(c, bar.at) /\ ~c.holding /\ IsQueued(c, bar.at)
  BY <1>6, <1>9, <1>12, <1>1 DEF UpdatesTo
<1>13. CASE /\ ~IsCovered(c, bar.at) /\ ~c.holding /\ ~IsQueued(c, bar.at)
            /\ c.baseline /\ Closed(bar.at)
  BY <1>8, <1>9, <1>13, <1>1 DEF UpdatesTo
<1>14. CASE /\ ~IsCovered(c, bar.at) /\ ~c.holding /\ ~IsQueued(c, bar.at)
            /\ ~(c.baseline /\ Closed(bar.at))
  <2>1. e = Follow(p, bar)
    BY <1>9, <1>14
  <2>2. PICK d : d = [p EXCEPT !.current = bar]
    OBVIOUS
  <2>3. /\ SameQueue(c, d) /\ d.phase = Offset /\ d.holding = c.holding /\ d.blind = c.blind
        /\ d.current = bar /\ d.held = c.held /\ d.baseline = FALSE
    BY <1>8, <2>2 DEF CloserT, SameQueue
  <2>4. CASE c.current = NoBar \/ bar.at = c.current.at
    <3>1. e = d
      BY <2>1, <2>2, <2>4, <1>8 DEF Follow
    <3> QED BY <3>1, <2>3, <2>4, <1>14, <1>1 DEF UpdatesTo
  <2>5. CASE c.current # NoBar /\ c.current.at < bar.at
    <3>1. bar.at # c.current.at /\ bar.at > c.current.at
      BY <2>5, <1>3, <1>4, CloserFields, BarFields
    <3>2. e = EnqueueOne(d, c.current, FALSE)
      BY <2>1, <2>2, <2>5, <3>1, <1>8 DEF Follow
    <3> QED BY <3>2, <2>3, <2>5, <1>14, <1>1 DEF UpdatesTo
  <2>6. CASE c.current # NoBar /\ bar.at < c.current.at
    <3>1. bar.at # c.current.at /\ ~(bar.at > c.current.at)
      BY <2>6, <1>3, <1>4, CloserFields, BarFields
    <3>2. e = p
      BY <2>1, <2>6, <3>1, <1>8 DEF Follow
    <3> QED BY <3>2, <2>6, <1>8, <1>14, <1>1 DEF UpdatesTo
  <2>7. c.current # NoBar => c.current.at \in Nat
    BY <1>3, CloserFields, BarFields
  <2> QED BY <2>4, <2>5, <2>6, <2>7, <1>4
<1> QED BY <1>10, <1>11, <1>12, <1>13, <1>14

\* Steps of the closer keep it good, leave its resolver running and do not close it.
Kept(c, e) == Good(e) /\ e.closed = c.closed /\ (HasResolver(c) => HasResolver(e))

LEMMA UpdateKept ==
    ASSUME NEW c, Good(c), NEW bar \in BarT
    PROVE  /\ Kept(c, OnUpdate(c, bar)) /\ OnUpdate(c, bar).holding = c.holding
           /\ OnUpdate(c, bar).blind = c.blind
<1>1. PICK e : e = OnUpdate(c, bar)
  OBVIOUS
<1>2. CASE c.closed
  BY <1>2 DEF OnUpdate, Kept
<1>3. CASE ~c.closed
  <2>1. PICK d : UpdatesTo(c, bar, d, e)
    BY <1>1, <1>3, UpdateCases
  <2>2. SameQueue(c, d) /\ d.holding = c.holding /\ d.blind = c.blind
    BY <2>1 DEF UpdatesTo
  <2>3. Good(d) /\ d.closed = c.closed /\ (HasResolver(c) => HasResolver(d))
    BY <2>2, SameQueueKept DEF SameQueue
  <2>4. \/ e = d
        \/ e = EnqueueOne(d, bar, TRUE)
        \/ c.current # NoBar /\ e = EnqueueOne(d, c.current, FALSE)
    BY <2>1 DEF UpdatesTo
  <2>5. CASE e = d
    BY <2>2, <2>3, <2>5, <1>1 DEF Kept
  <2>6. CASE e = EnqueueOne(d, bar, TRUE)
    <3>1. Good(e) /\ SameRest(d, e) /\ (HasResolver(d) => HasResolver(e))
      BY <2>3, <2>6, EnqueueOneKept
    <3> QED BY <3>1, <2>2, <2>3, <1>1 DEF Kept, SameRest
  <2>7. CASE c.current # NoBar /\ e = EnqueueOne(d, c.current, FALSE)
    <3>1. c.current \in BarT
      BY <2>7, CloserFields DEF Good
    <3>2. Good(e) /\ SameRest(d, e) /\ (HasResolver(d) => HasResolver(e))
      BY <2>3, <2>7, <3>1, EnqueueOneKept
    <3> QED BY <3>2, <2>2, <2>3, <1>1 DEF Kept, SameRest
  <2> QED BY <2>4, <2>5, <2>6, <2>7
<1>4. c.closed \in BOOLEAN
  BY CloserFields DEF Good
<1> QED BY <1>2, <1>3, <1>4

LEMMA LeastOfTwo ==
    ASSUME NEW a \in Int, NEW b \in Int
    PROVE  Min({a, b}) = IF a <= b THEN a ELSE b
<1>1. \E x \in {a, b} : x = (IF a <= b THEN a ELSE b) /\ \A y \in {a, b} : x <= y
  OBVIOUS
<1>2. \A x, z \in {a, b} : (\A y \in {a, b} : x <= y) /\ (\A y \in {a, b} : z <= y) => x = z
  OBVIOUS
<1> QED BY <1>1, <1>2 DEF Min

LEMMA FloorIsInt ==
    ASSUME NEW c, Good(c), NEW t \in Int
    PROVE  FloorBoundary(c, t) \in Int
<1>1. c.phase \in Int
  BY Numbers, CloserFields DEF Good
<1> QED BY <1>1, Numbers DEF FloorBoundary

LEMMA TailArrives ==
    ASSUME NEW first \in Int, NEW newest \in Int
    PROVE  LET tail == TailFrom(first, newest) IN Arrivals(tail, [at \in tail |-> NoBar])
<1>1. IsFiniteSet(first..newest)
  BY FS_Interval
<1>2. IsFiniteSet(TailFrom(first, newest))
  BY <1>1, FS_Subset DEF TailFrom
<1>3. TailFrom(first, newest) \subseteq Int
  BY DEF TailFrom
<1> QED BY <1>2, <1>3 DEF Arrivals

LEMMA QueueTailKept ==
    ASSUME NEW c, Good(c), now \in Nat, NEW end \in Int
    PROVE  Kept(c, QueueTail(c, end)) /\ SameRest(c, QueueTail(c, end))
<1>1. CASE c.phase = -1
  <2>1. QueueTail(c, end) = c
    BY <1>1 DEF QueueTail
  <2> QED BY <2>1 DEF Kept, SameRest
<1>2. CASE c.phase # -1
  <2>1. PICK newest, first : /\ newest = LastClosedBoundary(c)
                             /\ first = Min({FloorBoundary(c, end), newest})
    OBVIOUS
  <2>2. newest \in Int /\ FloorBoundary(c, end) \in Int
    BY <2>1, FloorIsInt, Numbers DEF LastClosedBoundary
  <2>3. first \in Int
    BY <2>1, <2>2, LeastOfTwo
  <2>4. PICK tail : tail = TailFrom(first, newest)
    OBVIOUS
  <2>5. Arrivals(tail, [at \in tail |-> NoBar])
    BY <2>2, <2>3, <2>4, TailArrives
  <2>6. PICK e : e = Enqueue(c, tail, [at \in tail |-> NoBar], TRUE)
    OBVIOUS
  <2>7. QueueTail(c, end) = e
    BY <1>2, <2>1, <2>4, <2>6 DEF QueueTail
  <2>8. /\ \E d : Good(d) /\ Queues(c, d, tail, [at \in tail |-> NoBar], TRUE) /\ Good(e) /\ Emits(d, e)
        /\ HasResolver(c) => HasResolver(e)
    BY <2>5, <2>6, EnqueueQueues
  <2>9. SameRest(c, e)
    BY <2>8 DEF Queues, Emits, SameRest
  <2> QED BY <2>7, <2>8, <2>9 DEF Kept, SameRest
<1> QED BY <1>1, <1>2

LEMMA UnholdKept ==
    ASSUME NEW c, Good(c)
    PROVE  /\ SameQueue(c, Unhold(c)) /\ Kept(c, Unhold(c))
           /\ Unhold(c).holding = FALSE /\ Unhold(c).baseline = TRUE
           /\ Unhold(c).current = c.current /\ Unhold(c).held = c.held
           /\ Unhold(c).phase = c.phase /\ Unhold(c).blind = c.blind
<1>1. PICK u : u = Unhold(c)
  OBVIOUS
<1>2. /\ SameQueue(c, u) /\ u.holding = FALSE /\ u.baseline = TRUE /\ u.current = c.current
      /\ u.held = c.held /\ u.phase = c.phase /\ u.blind = c.blind
  BY <1>1 DEF Good, CloserT, SameQueue, Unhold
<1> QED BY <1>1, <1>2, SameQueueKept DEF Kept, SameQueue

LEMMA FinishedKept ==
    ASSUME NEW c, Good(c), now \in Nat, NEW end \in Int
    PROVE  Kept(c, Finished(c, end)) /\ Finished(c, end).holding = FALSE /\ Finished(c, end).blind = c.blind
<1>1. PICK t : t = QueueTail(c, end)
  OBVIOUS
<1>2. Kept(c, t) /\ Good(t) /\ t.blind = c.blind
  BY <1>1, QueueTailKept DEF Kept, SameRest
<1>3. PICK u : u = Unhold(t)
  OBVIOUS
<1>4. Kept(t, u) /\ Good(u) /\ u.holding = FALSE /\ u.blind = c.blind
  BY <1>2, <1>3, UnholdKept DEF Kept
<1>5. CASE u.held = NoBar
  <2>1. Finished(c, end) = u
    BY <1>1, <1>3, <1>5 DEF Finished
  <2> QED BY <2>1, <1>2, <1>4 DEF Kept
<1>6. CASE u.held # NoBar
  <2>1. PICK v : v = [u EXCEPT !.held = NoBar]
    OBVIOUS
  <2>2. SameQueue(u, v) /\ v.holding = FALSE /\ v.blind = c.blind
    BY <1>4, <2>1 DEF Good, CloserT, SameQueue
  <2>3. Kept(u, v) /\ Good(v)
    BY <1>4, <2>2, SameQueueKept DEF Kept, SameQueue
  <2>4. u.held \in BarT
    BY <1>4, <1>6, CloserFields DEF Good
  <2>5. /\ Kept(v, OnUpdate(v, u.held)) /\ OnUpdate(v, u.held).holding = v.holding
        /\ OnUpdate(v, u.held).blind = v.blind
    BY <2>3, <2>4, UpdateKept
  <2>6. Finished(c, end) = OnUpdate(v, u.held)
    BY <1>1, <1>3, <1>6, <2>1 DEF Finished
  <2> QED BY <2>2, <2>3, <2>5, <2>6, <1>2, <1>4 DEF Kept
<1> QED BY <1>5, <1>6

\* A set of numbers up to some number that is not empty has a greatest.
LEMMA Greatest ==
    ASSUME NEW S, S \subseteq Nat, S # {}, NEW n \in Nat, \A x \in S : x <= n
    PROVE  Max(S) \in S /\ \A y \in S : y <= Max(S)
<1> DEFINE D == {n - x : x \in S}
<1>1. D \subseteq Nat /\ D # {}
  <2>1. \A x \in S : n - x \in Nat
    OBVIOUS
  <2> QED BY <2>1
<1>2. PICK m : m = Min(D)
  OBVIOUS
<1> HIDE DEF D
<1>3. m \in D /\ \A y \in D : m <= y
  BY <1>1, <1>2, Least
<1>4. PICK x \in S : m = n - x
  BY <1>3 DEF D
<1>5. ASSUME NEW y \in S
      PROVE  y <= x
  <2>1. n - y \in D
    BY DEF D
  <2>2. n - x <= n - y
    BY <2>1, <1>3, <1>4
  <2> QED BY <2>2
<1>6. x \in S /\ \A y \in S : x >= y
  BY <1>5
<1>7. \A z \in S : (\A y \in S : z >= y) => z = x
  BY <1>6
<1>8. Max(S) = x
  BY <1>6, <1>7 DEF Max
<1> QED BY <1>5, <1>8

LEMMA GreatestOfTwo ==
    ASSUME NEW a \in Int, NEW b \in Int
    PROVE  Max({a, b}) = IF a >= b THEN a ELSE b
<1>1. \E x \in {a, b} : x = (IF a >= b THEN a ELSE b) /\ \A y \in {a, b} : x >= y
  OBVIOUS
<1>2. \A x, z \in {a, b} : (\A y \in {a, b} : x >= y) /\ (\A y \in {a, b} : z >= y) => x = z
  OBVIOUS
<1> QED BY <1>1, <1>2 DEF Max

\* The closer as backfill() takes over from the stream; h is g with its queue pumped.
HeldAs(c, g, h) ==
    /\ SameQueue(c, g) /\ g.holding = TRUE /\ g.held = NoBar /\ g.current = NoBar
    /\ g.blind = (c.blind \/ c.phase = -1) /\ g.baseline = c.baseline /\ g.phase = c.phase
    /\ Good(g) /\ Good(h) /\ Emits(g, h) /\ HasResolver(h)

LEMMA HeldCases ==
    ASSUME NEW c, Good(c)
    PROVE  \E g : HeldAs(c, g, HeldForBackfill(c))
<1>1. PICK g : g = [c EXCEPT !.holding = TRUE, !.held = NoBar, !.current = NoBar,
                            !.blind = @ \/ c.phase = -1]
  OBVIOUS
<1>2. /\ SameQueue(c, g) /\ g.holding = TRUE /\ g.held = NoBar /\ g.current = NoBar
      /\ g.blind = (c.blind \/ c.phase = -1) /\ g.baseline = c.baseline /\ g.phase = c.phase
  BY <1>1 DEF Good, CloserT, SameQueue
<1>3. Good(g)
  BY <1>2, SameQueueKept
<1>4. HeldForBackfill(c) = Pump(g)
  BY <1>1 DEF HeldForBackfill
<1> QED BY <1>2, <1>3, <1>4, PumpEmits DEF HeldAs

\* Where a backfill of the held closer h begins.
StartOf(h) == IF h.emitted = <<>> THEN Floor ELSE Max({Floor, LastEmitted(h) + Period})

LEMMA StartIsInt ==
    ASSUME NEW h, Good(h)
    PROVE  /\ StartOf(h) \in Int
           /\ h.emitted = <<>> => StartOf(h) = Floor
           /\ h.emitted # <<>> => LastEmitted(h) # -1 /\ LastEmitted(h) \in Boundaries
           /\ StartOf(h) <= Floor \/ (h.emitted # <<>> /\ StartOf(h) = LastEmitted(h) + Period)
<1>1. LastEmitted(h) + Period \in Int /\ Floor \in Int
  BY LastIsInt, Numbers
<1>2. Max({Floor, LastEmitted(h) + Period})
        = IF Floor >= LastEmitted(h) + Period THEN Floor ELSE LastEmitted(h) + Period
  BY <1>1, GreatestOfTwo
<1>3. h.emitted # <<>> => LastEmitted(h) \in Boundaries
  BY CloserFields, LatestLast DEF Good, Ordered
<1>4. \A b \in Boundaries : b # -1
  BY Numbers
<1>5. StartOf(h) = IF h.emitted = <<>> THEN Floor
                   ELSE IF Floor >= LastEmitted(h) + Period THEN Floor ELSE LastEmitted(h) + Period
  BY <1>2 DEF StartOf
<1> QED BY <1>1, <1>3, <1>4, <1>5

LEMMA BegunCases ==
    ASSUME NEW c, Good(c), now \in Nat
    PROVE  \E g, h : \E end \in Int :
              /\ HeldAs(c, g, h) /\ end = LastClosedBoundary(h)
              /\ \/ /\ StartOf(h) > end
                    /\ Begun(c) = [closer |-> Finished(h, end), task |-> NoBackfill]
                 \/ /\ StartOf(h) <= end /\ ~Accepting
                    /\ Begun(c) = [closer |-> Unhold(h), task |-> NoBackfill]
                 \/ /\ StartOf(h) <= end /\ Accepting
                    /\ Begun(c) = [closer |-> h,
                                   task |-> [pc |-> "range", start |-> StartOf(h), end |-> end, until |-> 0]]
<1>1. PICK h : h = HeldForBackfill(c)
  OBVIOUS
<1>2. PICK g : HeldAs(c, g, h)
  BY <1>1, HeldCases
<1>3. Good(h)
  BY <1>2 DEF HeldAs
<1>4. PICK end : end = LastClosedBoundary(h)
  OBVIOUS
<1>5. end \in Int
  BY <1>3, <1>4, FloorIsInt, Numbers DEF LastClosedBoundary
<1>6. StartOf(h) \in Int
  BY <1>3, StartIsInt
<1>7. Begun(c) = IF StartOf(h) > end THEN [closer |-> Finished(h, end), task |-> NoBackfill]
                 ELSE IF ~Accepting THEN [closer |-> Unhold(h), task |-> NoBackfill]
                 ELSE [closer |-> h,
                       task |-> [pc |-> "range", start |-> StartOf(h), end |-> end, until |-> 0]]
  BY <1>1, <1>4 DEF Begun, StartOf
<1>8. StartOf(h) > end \/ StartOf(h) <= end
  BY <1>5, <1>6
<1>9. StartOf(h) <= end => ~(StartOf(h) > end)
  BY <1>5, <1>6
<1> QED BY <1>2, <1>4, <1>5, <1>7, <1>8, <1>9

LEMMA NoTask == NoBackfill \in TaskT /\ NoBackfill.pc = "none"
  BY DEF NoBackfill, TaskT

\* A backfill that is begun keeps the closer, resolves its queue, and holds it while it runs.
BegunWell(c, r) ==
    /\ Kept(c, r.closer) /\ r.task \in TaskT /\ r.closer.blind = (c.blind \/ c.phase = -1)
    /\ \/ r.task.pc = "none" /\ r.closer.holding = FALSE /\ HasResolver(r.closer)
       \/ r.task.pc = "range" /\ r.closer.holding = TRUE /\ HasResolver(r.closer)

LEMMA BegunKept ==
    ASSUME NEW c, Good(c), now \in Nat
    PROVE  BegunWell(c, Begun(c))
<1>1. PICK g, h, end :
              /\ end \in Int
              /\ HeldAs(c, g, h) /\ end = LastClosedBoundary(h)
              /\ \/ /\ StartOf(h) > end
                    /\ Begun(c) = [closer |-> Finished(h, end), task |-> NoBackfill]
                 \/ /\ StartOf(h) <= end /\ ~Accepting
                    /\ Begun(c) = [closer |-> Unhold(h), task |-> NoBackfill]
                 \/ /\ StartOf(h) <= end /\ Accepting
                    /\ Begun(c) = [closer |-> h,
                                   task |-> [pc |-> "range", start |-> StartOf(h), end |-> end, until |-> 0]]
  BY BegunCases
<1>2. /\ end \in Int /\ Good(h) /\ HasResolver(h) /\ h.closed = c.closed /\ h.holding = TRUE
      /\ h.blind = (c.blind \/ c.phase = -1)
  BY <1>1 DEF HeldAs, SameQueue, Emits, SameRest
<1>3. Kept(c, h)
  BY <1>2 DEF Kept
<1>4. PICK r : r = Begun(c)
  OBVIOUS
<1>5. CASE r = [closer |-> Finished(h, end), task |-> NoBackfill]
  <2>1. /\ Kept(h, Finished(h, end)) /\ Finished(h, end).holding = FALSE
        /\ Finished(h, end).blind = h.blind
    BY <1>2, FinishedKept
  <2>2. r.closer = Finished(h, end) /\ r.task = NoBackfill
    BY <1>5
  <2> QED BY <2>1, <2>2, <1>2, <1>4, NoTask DEF Kept, BegunWell
<1>6. CASE r = [closer |-> Unhold(h), task |-> NoBackfill]
  <2>1. Kept(h, Unhold(h)) /\ Unhold(h).holding = FALSE /\ Unhold(h).blind = h.blind
    BY <1>2, UnholdKept
  <2>2. r.closer = Unhold(h) /\ r.task = NoBackfill
    BY <1>6
  <2> QED BY <2>1, <2>2, <1>2, <1>4, NoTask DEF Kept, BegunWell
<1>7. CASE r = [closer |-> h,
                task |-> [pc |-> "range", start |-> StartOf(h), end |-> end, until |-> 0]]
  <2>1. StartOf(h) \in Int
    BY <1>2, StartIsInt
  <2>2. /\ r.closer = h /\ r.task.pc = "range"
        /\ r.task = [pc |-> "range", start |-> StartOf(h), end |-> end, until |-> 0]
    BY <1>7
  <2>3. r.task \in TaskT
    BY <2>1, <2>2, <1>2 DEF TaskT
  <2> QED BY <2>2, <2>3, <1>2, <1>3, <1>4 DEF BegunWell
<1> QED BY <1>1, <1>4, <1>5, <1>6, <1>7

\* The resolver's entry takes the bar found for it, and needs no history any more.
Resolves(c, d, bar) ==
    /\ SameRest(c, d) /\ d.emitted = c.emitted
    /\ \A p \in ToSet(c.queue) : \E r \in ToSet(d.queue) : r.at = p.at
    /\ \A r \in ToSet(d.queue) : \E p \in ToSet(c.queue) :
          /\ r.at = p.at
          /\ \/ r = p
             \/ r.at = c.resolver.at /\ r.streamed = bar /\ r.needs = FALSE

LEMMA ResolvedCases ==
    ASSUME NEW c, Good(c), NEW bar \in BarT \cup {NoBar},
           bar # NoBar => bar.at = c.resolver.at
    PROVE  Good(Resolved(c, bar)) /\ Resolves(c, Resolved(c, bar), bar)
<1> DEFINE turned(p) == IF p.at = c.resolver.at THEN [p EXCEPT !.streamed = bar, !.needs = FALSE] ELSE p
<1>1. PICK q, L : q = c.queue /\ L = Len(q)
  OBVIOUS
<1>2. c \in CloserT /\ q \in Seq(EntryT) /\ L \in Nat /\ DOMAIN q = 1..L
  BY <1>1, CloserFields, LenProperties DEF Good
<1>3. \A i \in 1..L : q[i] \in EntryT
  BY <1>1, <1>2, ElementOfSeq
<1>4. ASSUME NEW p \in EntryT, p.streamed # NoBar => p.streamed.at = p.at
      PROVE  /\ turned(p) \in EntryT /\ turned(p).at = p.at
             /\ turned(p).streamed # NoBar => turned(p).streamed.at = p.at
             /\ \/ turned(p) = p
                \/ p.at = c.resolver.at /\ turned(p).streamed = bar /\ turned(p).needs = FALSE
  <2>1. CASE p.at = c.resolver.at
    <3>1. PICK r : r = [p EXCEPT !.streamed = bar, !.needs = FALSE]
      OBVIOUS
    <3>2. r \in EntryT /\ r.at = p.at /\ r.streamed = bar /\ r.needs = FALSE
      BY <3>1 DEF EntryT
    <3> QED BY <2>1, <3>1, <3>2
  <2>2. CASE p.at # c.resolver.at
    BY <2>2, <1>4
  <2> QED BY <2>1, <2>2
<1>5. PICK d : d = Resolved(c, bar)
  OBVIOUS
<1>6. PICK s : s = [i \in 1..L |-> turned(q[i])]
  OBVIOUS
<1>7. d = [c EXCEPT !.queue = s]
  BY <1>1, <1>2, <1>5, <1>6 DEF Resolved
<1> HIDE DEF turned
<1>8. \A i \in 1..L : q[i].streamed # NoBar => q[i].streamed.at = q[i].at
  BY <1>1 DEF Good, Ordered
<1>9. \A i \in 1..L : /\ s[i] \in EntryT /\ s[i].at = q[i].at
                      /\ s[i].streamed # NoBar => s[i].streamed.at = s[i].at
                      /\ \/ s[i] = q[i]
                         \/ s[i].at = c.resolver.at /\ s[i].streamed = bar /\ s[i].needs = FALSE
  <2> SUFFICES ASSUME NEW i \in 1..L
               PROVE  /\ s[i] \in EntryT /\ s[i].at = q[i].at
                      /\ s[i].streamed # NoBar => s[i].streamed.at = s[i].at
                      /\ \/ s[i] = q[i]
                         \/ s[i].at = c.resolver.at /\ s[i].streamed = bar /\ s[i].needs = FALSE
    OBVIOUS
  <2>1. PICK p \in EntryT : p = q[i]
    BY <1>3
  <2>2. s[i] = turned(p)
    BY <2>1, <1>6
  <2>3. /\ turned(p) \in EntryT /\ turned(p).at = p.at
        /\ turned(p).streamed # NoBar => turned(p).streamed.at = p.at
        /\ \/ turned(p) = p
           \/ p.at = c.resolver.at /\ turned(p).streamed = bar /\ turned(p).needs = FALSE
    BY <2>1, <1>4, <1>8
  <2> QED BY <2>1, <2>2, <2>3
<1>10. s \in Seq(EntryT) /\ Len(s) = L /\ DOMAIN s = 1..L
  BY <1>2, <1>6, <1>9
<1>11. d \in CloserT /\ d.queue = s /\ d.emitted = c.emitted /\ SameRest(c, d)
  BY <1>2, <1>7, <1>10 DEF CloserT, SameRest
<1>12. LastEmitted(d) = LastEmitted(c)
  BY <1>11 DEF LastEmitted
<1>13. Good(d)
  <2>1. /\ \A i, j \in 1..Len(c.emitted) : i < j => c.emitted[i].at < c.emitted[j].at
        /\ \A i, j \in 1..L : i < j => q[i].at < q[j].at
        /\ \A i \in 1..L : LastEmitted(c) < q[i].at
    BY <1>1 DEF Good, Ordered
  <2>2. \A i, j \in 1..L : i < j => s[i].at < s[j].at
    BY <2>1, <1>9
  <2> QED BY <2>1, <2>2, <1>9, <1>10, <1>11, <1>12 DEF Good, Ordered
<1>14. ToSet(c.queue) = {q[i] : i \in 1..L} /\ ToSet(d.queue) = {s[i] : i \in 1..L}
  BY <1>1, <1>2, <1>10, <1>11 DEF ToSet
<1>15. \A p \in ToSet(c.queue) : \E r \in ToSet(d.queue) : r.at = p.at
  BY <1>9, <1>14
<1>16. \A r \in ToSet(d.queue) : \E p \in ToSet(c.queue) :
          /\ r.at = p.at
          /\ \/ r = p
             \/ r.at = c.resolver.at /\ r.streamed = bar /\ r.needs = FALSE
  BY <1>9, <1>14
<1> QED BY <1>5, <1>11, <1>13, <1>15, <1>16 DEF Resolves

\* What the resolver and the timer do to a closer.
LEMMA ResolverKept ==
    ASSUME CloserInv, [Next]_vars,
           ResolverStarts \/ HistoryServes \/ HistoryLacks \/ ResolverWakes \/ TimerFires
    PROVE  /\ Good(closer') /\ closer'.closed = closer.closed /\ closer'.holding = closer.holding
           /\ ~closer.closed /\ closer'.blind = closer.blind
           /\ Accepting => (HasResolver(closer) => HasResolver(closer'))
<1>1. Good(closer) /\ now \in Nat /\ closer \in CloserT /\ trades \in [Boundaries -> Nat]
  BY DEF CloserInv, StateShape, Good
<1>2. closer.closed => closer.resolver.pc = "none" /\ closer.current = NoBar
  BY DEF CloserInv, TaskShape
<1>3. closer.resolver \in ResolverT /\ closer.queue \in Seq(EntryT)
  BY <1>1, CloserFields
<1>4. ASSUME NEW bar \in BarT \cup {NoBar}, bar # NoBar => bar.at = closer.resolver.at,
             closer' = ResolveOn(Resolved(closer, bar))
      PROVE  /\ Good(closer') /\ closer'.closed = closer.closed /\ closer'.holding = closer.holding
             /\ closer'.blind = closer.blind
             /\ Accepting => HasResolver(closer')
  <2>1. PICK d : d = Resolved(closer, bar)
    OBVIOUS
  <2>2. Good(d) /\ SameRest(closer, d)
    BY <2>1, <1>1, <1>4, ResolvedCases DEF Resolves
  <2>3. /\ Good(ResolveOn(d)) /\ Emits(d, ResolveOn(d))
        /\ Accepting => HasResolver(ResolveOn(d))
    BY <2>2, <1>1, ResolveOnEmits
  <2> QED BY <2>1, <2>2, <2>3, <1>4 DEF Emits, SameRest
<1>5. CASE ResolverStarts
  <2>1. closer' = ResolveOn(closer) /\ ~closer.closed
    BY <1>2, <1>5 DEF ResolverStarts
  <2>2. /\ Good(ResolveOn(closer)) /\ Emits(closer, ResolveOn(closer))
        /\ Accepting => HasResolver(ResolveOn(closer))
    BY <1>1, ResolveOnEmits
  <2> QED BY <2>1, <2>2 DEF Emits, SameRest
<1>6. CASE HistoryServes
  <2>1. PICK bar : bar = VenueBar(closer.resolver.at)
    OBVIOUS
  <2>2. bar # NoBar /\ closer' = ResolveOn(Resolved(closer, bar)) /\ ~closer.closed
    BY <2>1, <1>2, <1>6 DEF HistoryServes
  <2>3. bar \in BarT /\ bar.at = closer.resolver.at
    BY <2>1, <2>2, <1>1 DEF VenueBar, BarT
  <2> QED BY <2>2, <2>3, <1>4
<1>7. CASE HistoryLacks
  <2>1. closer.resolver.pc = "asking" /\ ~closer.closed
    BY <1>2, <1>7 DEF HistoryLacks
  <2>2. CASE /\ closer.resolver.attempt < Retries
             /\ closer' = [closer EXCEPT !.resolver.pc = "sleeping", !.resolver.attempt = @ + 1,
                                         !.resolver.wake = now + Grace]
    <3>1. PICK r : r = [closer.resolver EXCEPT !.pc = "sleeping", !.attempt = @ + 1, !.wake = now + Grace]
      OBVIOUS
    <3>2. now + Grace \in Nat /\ closer.resolver.attempt + 1 \in Nat
      BY <1>1, <1>3, Numbers DEF ResolverT
    <3>3. r \in ResolverT /\ r.pc = "sleeping"
      BY <3>1, <3>2, <1>3 DEF ResolverT
    <3>4. closer' = [closer EXCEPT !.resolver = r]
      BY <2>2, <3>1, <1>1 DEF CloserT
    <3>5. /\ closer' \in CloserT /\ closer'.queue = closer.queue /\ closer'.emitted = closer.emitted
          /\ SameRest(closer, closer') /\ closer'.resolver = r
      BY <3>3, <3>4, <1>1 DEF CloserT, SameRest
    <3>6. Good(closer')
      BY <3>5, <1>1, EmitsNothing, EmitsStill
    <3> QED BY <2>1, <3>3, <3>5, <3>6 DEF HasResolver, SameRest
  <2>3. CASE \E bar \in {p.streamed : p \in {q \in ToSet(closer.queue) : q.at = closer.resolver.at}} :
                closer' = ResolveOn(Resolved(closer, bar))
    <3>1. PICK p \in ToSet(closer.queue) : /\ p.at = closer.resolver.at
                                           /\ closer' = ResolveOn(Resolved(closer, p.streamed))
      BY <2>3
    <3>2. p \in EntryT /\ (p.streamed # NoBar => p.streamed.at = p.at)
      BY <1>1, QueueEntries
    <3>3. p.streamed \in BarT \cup {NoBar}
      BY <3>2, EntryFields
    <3> QED BY <2>1, <3>1, <3>2, <3>3, <1>4
  <2> QED BY <2>2, <2>3, <1>7 DEF HistoryLacks
<1>8. CASE ResolverWakes
  <2>1. closer.resolver.pc = "sleeping" /\ ~closer.closed
    BY <1>2, <1>8 DEF ResolverWakes
  <2>2. CASE Accepting
    <3>1. PICK r : r = [closer.resolver EXCEPT !.pc = "asking", !.wake = 0]
      OBVIOUS
    <3>2. r \in ResolverT /\ r.pc = "asking"
      BY <3>1, <1>3 DEF ResolverT
    <3>3. closer' = [closer EXCEPT !.resolver = r]
      BY <2>2, <3>1, <1>1, <1>8 DEF CloserT, ResolverWakes
    <3>4. /\ closer' \in CloserT /\ closer'.queue = closer.queue /\ closer'.emitted = closer.emitted
          /\ SameRest(closer, closer') /\ closer'.resolver = r
      BY <3>2, <3>3, <1>1 DEF CloserT, SameRest
    <3>5. Good(closer')
      BY <3>4, <1>1, EmitsNothing, EmitsStill
    <3> QED BY <2>1, <3>2, <3>4, <3>5 DEF HasResolver, SameRest
  <2>3. CASE ~Accepting
    <3>1. Idle \in ResolverT
      BY DEF Idle, ResolverT
    <3>2. closer' = [closer EXCEPT !.resolver = Idle]
      BY <2>3, <1>8 DEF ResolverWakes
    <3>3. /\ closer' \in CloserT /\ closer'.queue = closer.queue /\ closer'.emitted = closer.emitted
          /\ SameRest(closer, closer')
      BY <3>1, <3>2, <1>1 DEF CloserT, SameRest
    <3>4. Good(closer')
      BY <3>3, <1>1, EmitsNothing, EmitsStill
    <3> QED BY <2>1, <2>3, <3>3, <3>4 DEF SameRest
  <2> QED BY <2>2, <2>3
<1>9. CASE TimerFires
  <2>1. PICK bar, d : bar = closer.current /\ d = [closer EXCEPT !.current = NoBar]
    OBVIOUS
  <2>2. bar # NoBar /\ closer' = EnqueueOne(d, bar, TRUE) /\ ~closer.closed
    BY <2>1, <1>2, <1>9 DEF TimerFires
  <2>3. bar \in BarT
    BY <2>1, <2>2, <1>1, CloserFields
  <2>4. SameQueue(closer, d) /\ d.holding = closer.holding /\ d.blind = closer.blind
    BY <2>1, <1>1 DEF CloserT, SameQueue
  <2>5. Good(d) /\ (HasResolver(closer) => HasResolver(d)) /\ d.closed = closer.closed
    BY <2>4, <1>1, SameQueueKept DEF SameQueue
  <2>6. /\ Good(closer') /\ SameRest(d, closer')
        /\ HasResolver(d) => HasResolver(closer')
    BY <2>2, <2>3, <2>5, EnqueueOneKept
  <2> QED BY <2>2, <2>4, <2>5, <2>6 DEF SameRest
<1> QED BY <1>5, <1>6, <1>7, <1>8, <1>9

LEMMA StartedCases ==
    ASSUME NEW c, Good(c), now \in Nat
    PROVE  \/ backfill.pc = "none" /\ ~unwinding /\ Started(c) = Begun(c) /\ BegunWell(c, Started(c))
           \/ /\ backfill.pc # "none" \/ unwinding
              /\ Started(c).closer = c /\ Started(c).task.pc = "waiting" /\ Started(c).task \in TaskT
<1>1. CASE backfill.pc = "none" /\ ~unwinding
  <2>1. Started(c) = Begun(c)
    BY <1>1 DEF Started
  <2> QED BY <1>1, <2>1, BegunKept
<1>2. CASE backfill.pc # "none" \/ unwinding
  <2>1. Started(c) = [closer |-> c, task |-> [NoBackfill EXCEPT !.pc = "waiting"]]
    BY <1>2 DEF Started
  <2>2. PICK t : t = [NoBackfill EXCEPT !.pc = "waiting"]
    OBVIOUS
  <2>3. t \in TaskT /\ t.pc = "waiting"
    BY <2>2 DEF NoBackfill, TaskT
  <2>4. Started(c).closer = c /\ Started(c).task = t
    BY <2>1, <2>2
  <2> QED BY <1>2, <2>3, <2>4
<1> QED BY <1>1, <1>2

\* The wire, the venue and the flags keep their types.
LEMMA RestTyped ==
    ASSUME StateShape, [Next]_vars
    PROVE  /\ now' \in Nat /\ trades' \in [Boundaries -> Nat] /\ wire' \in Seq(BarT)
           /\ link' \in {"down", "up", "restored", "ready"}
           /\ {streaming', unwinding', owes', barsFailed', backfillFailed', raced'} \subseteq BOOLEAN
<1> USE DEF StateShape
<1>1. ASSUME NEW at \in Boundaries, trades[at] > 0
      PROVE  VenueBar(at) \in BarT
  BY <1>1 DEF VenueBar, BarT
<1>2. FirstUpdate \in Seq(BarT)
  <2> DEFINE traded == {b \in Boundaries : trades[b] > 0}
  <2>1. CASE traded = {}
    BY <2>1 DEF FirstUpdate
  <2>2. CASE traded # {}
    <3>1. traded \subseteq Nat /\ \A b \in traded : b <= MaxTime
      BY Numbers
    <3>2. Max(traded) \in traded
      BY <2>2, <3>1, Numbers, Greatest
    <3>3. VenueBar(Max(traded)) \in BarT
      BY <3>2, <1>1
    <3>4. FirstUpdate = <<VenueBar(Max(traded))>>
      BY <2>2 DEF FirstUpdate
    <3> QED BY <3>3, <3>4
  <2> QED BY <2>1, <2>2
<1>3. CASE ResolverStarts \/ HistoryServes \/ HistoryLacks \/ ResolverWakes \/ TimerFires
  BY <1>3 DEF ResolverStarts, HistoryServes, HistoryLacks, ResolverWakes, TimerFires,
              venueVars, linkVars, taskVars
<1>4. CASE Unwinds \/ BackfillResumes
  BY <1>4 DEF Unwinds, BackfillResumes, Takes, venueVars, linkVars
<1>5. CASE RangeServes
  BY <1>5 DEF RangeServes, venueVars, linkVars
<1>6. CASE DrainEnds \/ RangeFails
  BY <1>6 DEF DrainEnds, RangeFails, venueVars, linkVars
<1>7. CASE Lose
  <2>1. /\ link' = "down" /\ streaming' = FALSE /\ wire' = <<>>
        /\ UNCHANGED <<now, trades, unwinding, owes, barsFailed, backfillFailed, raced>>
    BY <1>7 DEF Lose, venueVars
  <2>2. wire' \in Seq(BarT)
    BY <2>1
  <2>3. link' \in {"down", "up", "restored", "ready"}
    BY <2>1
  <2> QED BY <2>1, <2>2, <2>3
<1>8. CASE BringUp
  BY <1>8 DEF BringUp, venueVars
<1>9. CASE TrendbarsRestored
  BY <1>9, <1>2 DEF TrendbarsRestored, venueVars
<1>10. CASE BarsRestored \/ RetryBars
  BY <1>10 DEF BarsRestored, RetryBars, RestoreBars, Takes, venueVars, linkVars
<1>11. CASE RetryTrendbars
  BY <1>11, <1>2 DEF RetryTrendbars, Takes, venueVars
<1>12. CASE Deliver
  <2>1. Tail(wire) \in Seq(BarT)
    BY <1>12 DEF Deliver
  <2> QED BY <1>12, <2>1 DEF Deliver, Takes, venueVars, linkVars
<1>13. CASE Close
  BY <1>13 DEF Close, venueVars, linkVars
<1>14. CASE Trade
  <2>1. PICK at, n : at = Forming(now) /\ n = trades[at] + 1
    OBVIOUS
  <2>2. at \in Boundaries /\ trades' = [trades EXCEPT ![at] = @ + 1]
        /\ wire' = IF streaming THEN <<[at |-> at, trades |-> n]>> ELSE wire
    BY <1>14, <2>1 DEF Trade
  <2>3. n \in Nat
    BY <2>1, <2>2
  <2>4. trades' \in [Boundaries -> Nat]
    BY <2>1, <2>2, <2>3
  <2>5. [at |-> at, trades |-> n] \in BarT
    BY <2>2, <2>3 DEF BarT
  <2>6. wire' \in Seq(BarT)
    BY <2>2, <2>5
  <2> QED BY <1>14, <2>4, <2>6 DEF Trade, linkVars, taskVars
<1>15. CASE Tick
  BY <1>15 DEF Tick, linkVars, taskVars
<1>16. CASE UNCHANGED vars
  BY <1>16 DEF vars, venueVars, linkVars, taskVars
<1> QED BY <1>3, <1>4, <1>5, <1>6, <1>7, <1>8, <1>9, <1>10, <1>11, <1>12, <1>13, <1>14, <1>15, <1>16
        DEF Next

LEMMA ProductIsNat ==
    ASSUME NEW a \in Nat, NEW b \in Nat
    PROVE  a * b \in Nat
  OBVIOUS

\* The venue's bars are those with trades.
LEMMA VenueBars ==
    ASSUME trades \in [Boundaries -> Nat], NEW b \in Boundaries
    PROVE  /\ VenueBar(b) # NoBar <=> trades[b] > 0
           /\ VenueBar(b) # NoBar => VenueBar(b) \in BarT /\ VenueBar(b).at = b
<1>1. trades[b] \in Nat
  OBVIOUS
<1>2. CASE trades[b] = 0
  BY <1>2 DEF VenueBar
<1>3. CASE trades[b] > 0
  <2>1. PICK bar : bar = [at |-> b, trades |-> trades[b]]
    OBVIOUS
  <2>2. bar \in BarT /\ bar.at = b
    BY <1>1, <2>1 DEF BarT
  <2>3. VenueBar(b) = bar
    BY <1>3, <2>1 DEF VenueBar
  <2> QED BY <1>3, <2>2, <2>3, BarFields
<1> QED BY <1>1, <1>2, <1>3

\* What a backfill's range brings: the traded bars found there, queued at once.
Serves(found, seen, c) ==
    /\ found \subseteq Boundaries /\ \A b \in found : trades[b] > 0
    /\ \A b \in Boundaries :
          trades[b] > 0 /\ backfill.start <= b /\ b < backfill.end => b \in found
    /\ \A b \in found : b <= backfill.end
    /\ Arrivals(found, [b \in found |-> VenueBar(b)])
    /\ SameQueue(closer, seen) /\ seen.current = closer.current /\ seen.held = closer.held
    /\ seen.holding = closer.holding /\ seen.baseline = closer.baseline /\ seen.blind = closer.blind
    /\ seen.phase \in {closer.phase, Offset}
    /\ c = Enqueue(seen, found, [b \in found |-> VenueBar(b)], FALSE)
    /\ \/ closer' = Finished(c, backfill.end) /\ backfill' = NoBackfill
       \/ /\ closer' = c /\ backfill' \in TaskT
          /\ backfill'.pc = "draining" /\ backfill'.end = backfill.end

LEMMA RangeCases ==
    ASSUME StateShape, RangeServes
    PROVE  \E found, seen, c : Serves(found, seen, c) /\ Good(c) /\ SameRest(seen, c)
<1>1. closer \in CloserT /\ Good(closer) /\ now \in Nat /\ trades \in [Boundaries -> Nat] /\ backfill \in TaskT
  BY DEF StateShape, Good
<1>2. PICK lag \in BOOLEAN :
         LET asked == {b \in Boundaries : backfill.start <= b /\ b <= backfill.end - (IF lag THEN 1 ELSE 0)}
             found == {b \in asked : VenueBar(b) # NoBar}
             seen == IF found = {} THEN closer ELSE Observe(closer, Max(found))
             c == Enqueue(seen, found, [b \in found |-> VenueBar(b)], FALSE)
             until == now + (1 + Retries) * Grace * Len(c.queue) + Grace
         IN IF c.drained
            THEN closer' = Finished(c, backfill.end) /\ backfill' = NoBackfill
            ELSE closer' = c /\ backfill' = [backfill EXCEPT !.pc = "draining", !.until = until]
  BY DEF RangeServes
<1> DEFINE asked == {b \in Boundaries : backfill.start <= b /\ b <= backfill.end - (IF lag THEN 1 ELSE 0)}
           found == {b \in asked : VenueBar(b) # NoBar}
           seen == IF found = {} THEN closer ELSE Observe(closer, Max(found))
           c == Enqueue(seen, found, [b \in found |-> VenueBar(b)], FALSE)
           until == now + (1 + Retries) * Grace * Len(c.queue) + Grace
<1>3. IF c.drained
      THEN closer' = Finished(c, backfill.end) /\ backfill' = NoBackfill
      ELSE closer' = c /\ backfill' = [backfill EXCEPT !.pc = "draining", !.until = until]
  BY <1>2
<1>4. \A b \in Boundaries : /\ VenueBar(b) # NoBar <=> trades[b] > 0
                            /\ VenueBar(b) # NoBar => VenueBar(b) \in BarT /\ VenueBar(b).at = b
  BY <1>1, VenueBars
<1>5. found \subseteq Boundaries /\ \A b \in found : trades[b] > 0 /\ b <= backfill.end
  <2>1. found \subseteq Boundaries /\ \A b \in found : trades[b] > 0
    BY <1>4
  <2>2. \A b \in found : b <= backfill.end - (IF lag THEN 1 ELSE 0)
    OBVIOUS
  <2>3. backfill.end \in Int
    BY <1>1 DEF TaskT
  <2> HIDE DEF found
  <2>4. \A b \in found : b \in Nat
    BY <2>1, Numbers
  <2> QED BY <2>1, <2>2, <2>3, <2>4
<1>6. \A b \in Boundaries :
          trades[b] > 0 /\ backfill.start <= b /\ b < backfill.end => b \in found
  <2> SUFFICES ASSUME NEW b \in Boundaries, trades[b] > 0, backfill.start <= b, b < backfill.end
               PROVE  b \in found
    OBVIOUS
  <2>1. b \in Nat /\ backfill.end \in Int
    BY <1>1, Numbers DEF TaskT
  <2>2. b <= backfill.end - (IF lag THEN 1 ELSE 0)
    BY <2>1
  <2> QED BY <2>2, <1>4
<1> HIDE DEF found
<1>7. Arrivals(found, [b \in found |-> VenueBar(b)])
  <2>1. found \subseteq 1..MaxTime
    BY <1>5, Numbers
  <2>2. IsFiniteSet(1..MaxTime)
    BY FS_Interval, Numbers
  <2>3. IsFiniteSet(found)
    BY <2>1, <2>2, FS_Subset
  <2>5. found \subseteq Int
    BY <2>1
  <2>4. \A b \in found : VenueBar(b) \in BarT /\ VenueBar(b).at = b
    BY <1>4, <1>5
  <2> QED BY <2>3, <2>4, <2>5 DEF Arrivals
<1>8. /\ SameQueue(closer, seen) /\ seen.current = closer.current /\ seen.held = closer.held
      /\ seen.holding = closer.holding /\ seen.baseline = closer.baseline /\ seen.blind = closer.blind
      /\ seen.phase \in {closer.phase, Offset}
  <2>1. CASE found = {}
    BY <2>1, <1>1 DEF SameQueue
  <2>2. CASE found # {}
    <3>1. found \subseteq Nat /\ \A b \in found : b <= MaxTime
      BY <1>5, Numbers
    <3>2. Max(found) \in found
      BY <3>1, <2>2, Numbers, Greatest
    <3>3. Max(found) % Period = Offset
      BY <3>2, <1>5, Numbers
    <3>4. seen = [closer EXCEPT !.phase = Offset]
      BY <2>2, <3>3 DEF Observe
    <3> QED BY <3>4, <1>1 DEF SameQueue, CloserT
  <2> QED BY <2>1, <2>2
<1> HIDE DEF seen
<1>9. Good(seen)
  BY <1>1, <1>8, SameQueueKept
<1>10. Good(c) /\ SameRest(seen, c)
  <2>1. \E d : Good(d) /\ Queues(seen, d, found, [b \in found |-> VenueBar(b)], FALSE) /\ Good(c) /\ Emits(d, c)
    BY <1>7, <1>9, EnqueueQueues
  <2> QED BY <2>1 DEF Queues, Emits, SameRest
<1>11. PICK k : k = c
  OBVIOUS
<1>12. until \in Nat
  <2>1. Len(c.queue) \in Nat
    <3>1. c.queue \in Seq(EntryT)
      BY <1>10, CloserFields DEF Good
    <3> QED BY <3>1, LenProperties
  <2>2. 1 + Retries \in Nat /\ Grace \in Nat
    BY Numbers
  <2>3. (1 + Retries) * Grace \in Nat
    BY <2>2, ProductIsNat
  <2>4. (1 + Retries) * Grace * Len(c.queue) \in Nat
    BY <2>1, <2>3, ProductIsNat
  <2> HIDE DEF c
  <2> QED BY <2>2, <2>4, <1>1
<1> HIDE DEF until
<1>13. \/ closer' = Finished(k, backfill.end) /\ backfill' = NoBackfill
       \/ /\ closer' = k /\ backfill' \in TaskT
          /\ backfill'.pc = "draining" /\ backfill'.end = backfill.end
  <2>1. CASE c.drained
    BY <2>1, <1>3, <1>11
  <2>2. CASE ~c.drained
    <3>1. closer' = k /\ backfill' = [backfill EXCEPT !.pc = "draining", !.until = until]
      BY <2>2, <1>3, <1>11
    <3> QED BY <3>1, <1>1, <1>12 DEF TaskT
  <2> QED BY <2>1, <2>2
<1>14. Serves(found, seen, k)
  BY <1>5, <1>6, <1>7, <1>8, <1>11, <1>13 DEF Serves
<1> QED BY <1>10, <1>11, <1>14

LEMMA DisconnectKept ==
    ASSUME NEW c, Good(c), ~c.closed
    PROVE  LET d == OnDisconnect(c) IN
           /\ SameQueue(c, d) /\ Kept(c, d) /\ d.holding = c.holding /\ d.current = NoBar
           /\ d.held = NoBar /\ d.baseline = TRUE /\ d.phase = c.phase /\ d.blind = c.blind
<1>1. PICK d : d = OnDisconnect(c)
  OBVIOUS
<1>2. d = [c EXCEPT !.current = NoBar, !.held = NoBar, !.baseline = TRUE]
  BY <1>1 DEF OnDisconnect
<1>3. /\ SameQueue(c, d) /\ d.holding = c.holding /\ d.current = NoBar /\ d.held = NoBar
      /\ d.baseline = TRUE /\ d.phase = c.phase /\ d.blind = c.blind
  BY <1>2 DEF Good, CloserT, SameQueue
<1>4. Kept(c, d)
  BY <1>3, SameQueueKept DEF Kept, SameQueue
<1> QED BY <1>1, <1>3, <1>4

LEMMA PaidCases ==
    ASSUME NEW c, Good(c), now \in Nat, backfill \in TaskT
    PROVE  \/ ~(owes /\ backfill.pc = "none") /\ Paid(c).closer = c /\ Paid(c).task = backfill
           \/ owes /\ backfill.pc = "none" /\ Paid(c) = Started(c)
<1>1. CASE owes /\ backfill.pc = "none"
  BY <1>1 DEF Paid
<1>2. CASE ~(owes /\ backfill.pc = "none")
  <2>1. Paid(c) = [closer |-> c, task |-> backfill]
    BY <1>2 DEF Paid
  <2> QED BY <1>2, <2>1
<1> QED BY <1>1, <1>2

\* What is kept of the closer and its tasks, whatever the step.
WellAfter(c, b, un, l) ==
    /\ Good(c) /\ b \in TaskT
    /\ c.closed => /\ c.queue = <<>> /\ c.resolver.pc = "none" /\ c.current = NoBar
                   /\ b.pc = "none"
    /\ ~c.closed => /\ c.holding <=> (un \/ b.pc \in {"range", "draining"})
                    /\ ~(un /\ b.pc \in {"range", "draining"})
                    /\ un => b.pc = "waiting"
    /\ HasResolver(c) \/ l # "ready" \/ b.pc = "waiting"

LEMMA WellNow ==
    ASSUME StateShape
    PROVE  TaskShape /\ NothingStuck <=> WellAfter(closer, backfill, unwinding, link) /\ (backfillFailed => raced)
  BY DEF StateShape, TaskShape, NothingStuck, QueueHasResolver, HoldingHasTask, WellAfter, HasResolver

LEMMA WellNext ==
    ASSUME StateShape', WellAfter(closer', backfill', unwinding', link'), backfillFailed' => raced'
    PROVE  CloserInv'
  BY DEF CloserInv, StateShape, TaskShape, NothingStuck, QueueHasResolver, HoldingHasTask, WellAfter,
         HasResolver

\* A backfill started for a closer that is well leaves it well.
LEMMA StartWell ==
    ASSUME NEW c, now \in Nat, ~c.closed,
           WellAfter(c, backfill, unwinding, "down")
    PROVE  LET r == Started(c) IN
           /\ Good(r.closer) /\ r.closer.closed = c.closed
           /\ WellAfter(r.closer, r.task,
                        unwinding \/ (r.task.pc = "waiting" /\ backfill.pc \in {"range", "draining"}),
                        "ready")
<1>1. Good(c) /\ backfill \in TaskT
  BY DEF WellAfter
<1>2. \/ backfill.pc = "none" /\ ~unwinding /\ Started(c) = Begun(c) /\ BegunWell(c, Started(c))
      \/ /\ backfill.pc # "none" \/ unwinding
         /\ Started(c).closer = c /\ Started(c).task.pc = "waiting" /\ Started(c).task \in TaskT
  BY <1>1, StartedCases
<1>3. PICK r : r = Started(c)
  OBVIOUS
<1>4. CASE backfill.pc = "none" /\ ~unwinding /\ BegunWell(c, r)
  BY <1>3, <1>4 DEF BegunWell, Kept, WellAfter
<1>5. CASE /\ backfill.pc # "none" \/ unwinding
           /\ r.closer = c /\ r.task.pc = "waiting" /\ r.task \in TaskT
  BY <1>1, <1>3, <1>5 DEF WellAfter, TaskT
<1> QED BY <1>2, <1>3, <1>4, <1>5

LEMMA CloserStep == CloserInv /\ [Next]_vars => CloserInv'
<1> SUFFICES ASSUME CloserInv, [Next]_vars
             PROVE  CloserInv'
  OBVIOUS
<1>1. /\ StateShape /\ Good(closer) /\ closer \in CloserT /\ now \in Nat /\ backfill \in TaskT
      /\ wire \in Seq(BarT)
      /\ {streaming, unwinding, owes, barsFailed, backfillFailed, raced} \subseteq BOOLEAN
  BY DEF CloserInv, StateShape, Good
<1>2. WellAfter(closer, backfill, unwinding, link) /\ (backfillFailed => raced)
  BY WellNow DEF CloserInv
<1>3. /\ now' \in Nat /\ trades' \in [Boundaries -> Nat] /\ wire' \in Seq(BarT)
      /\ link' \in {"down", "up", "restored", "ready"}
      /\ {streaming', unwinding', owes', barsFailed', backfillFailed', raced'} \subseteq BOOLEAN
  BY <1>1, RestTyped
<1>4. ASSUME WellAfter(closer', backfill', unwinding', link'), backfillFailed' => raced'
      PROVE  CloserInv'
  <2>1. Good(closer') /\ backfill' \in TaskT
    BY <1>4 DEF WellAfter
  <2>2. StateShape'
    BY <2>1, <1>3 DEF StateShape
  <2> QED BY <2>2, <1>4, WellNext
<1>5. WellAfter(closer, backfill, unwinding, "down")
  BY <1>2 DEF WellAfter
<1>6. closer.closed \in BOOLEAN /\ closer.holding \in BOOLEAN
  BY <1>1, CloserFields
<1>7. CASE ResolverStarts \/ HistoryServes \/ HistoryLacks \/ ResolverWakes \/ TimerFires
  <2>1. UNCHANGED <<link, backfill, unwinding, backfillFailed, raced>>
    BY <1>7 DEF ResolverStarts, HistoryServes, HistoryLacks, ResolverWakes, TimerFires, linkVars, taskVars
  <2>2. /\ Good(closer') /\ closer'.closed = closer.closed /\ closer'.holding = closer.holding
        /\ ~closer.closed
        /\ Accepting => (HasResolver(closer) => HasResolver(closer'))
    BY <1>7, ResolverKept
  <2>3. WellAfter(closer', backfill', unwinding', link')
    BY <2>1, <2>2, <1>2 DEF WellAfter, Accepting
  <2> QED BY <2>1, <2>3, <1>2, <1>4
<1>8. CASE Unwinds
  <2>1. /\ unwinding /\ unwinding' = FALSE /\ closer' = Unhold(closer)
        /\ UNCHANGED <<link, backfill, backfillFailed, raced>>
    BY <1>8 DEF Unwinds, linkVars
  <2>2. /\ SameQueue(closer, closer') /\ Kept(closer, closer') /\ closer'.holding = FALSE
        /\ closer'.current = closer.current
    BY <2>1, <1>1, UnholdKept
  <2>3. WellAfter(closer', backfill', unwinding', link')
    BY <2>1, <2>2, <1>2 DEF WellAfter, Kept, SameQueue
  <2> QED BY <2>1, <2>3, <1>2, <1>4
<1>9. CASE BackfillResumes
  <2>1. /\ backfill.pc = "waiting" /\ ~unwinding /\ Takes(Begun(closer))
        /\ UNCHANGED <<backfillFailed, raced>>
    BY <1>9 DEF BackfillResumes
  <2>2. BegunWell(closer, Begun(closer)) /\ ~closer.closed
    BY <2>1, <1>1, <1>2, BegunKept DEF WellAfter
  <2>3. PICK r : r = Begun(closer)
    OBVIOUS
  <2>4. /\ closer' = r.closer /\ backfill' = r.task /\ unwinding' = FALSE
    BY <2>1, <2>3 DEF Takes
  <2>5. WellAfter(closer', backfill', unwinding', link')
    BY <2>2, <2>3, <2>4 DEF WellAfter, BegunWell, Kept
  <2> QED BY <2>1, <2>5, <1>2, <1>4
<1>10. CASE RangeServes
  <2>1. PICK found, seen, c : Serves(found, seen, c) /\ Good(c) /\ SameRest(seen, c)
    BY <1>1, <1>10, RangeCases
  <2>2. backfill.pc = "range" /\ UNCHANGED <<link, unwinding, backfillFailed, raced>>
    BY <1>10 DEF RangeServes, linkVars
  <2>3. Good(seen) /\ (HasResolver(closer) => HasResolver(seen)) /\ seen.closed = closer.closed
    BY <2>1, <1>1, SameQueueKept DEF Serves, SameQueue
  <2>4. /\ HasResolver(seen) => HasResolver(c)
        /\ c.closed = closer.closed /\ c.holding = closer.holding
    <3>1. PICK told : told = [b \in found |-> VenueBar(b)]
      OBVIOUS
    <3>2. Arrivals(found, told) /\ c = Enqueue(seen, found, told, FALSE) /\ seen.holding = closer.holding
      BY <2>1, <3>1 DEF Serves
    <3>3. HasResolver(seen) => HasResolver(c)
      BY <2>3, <3>2, EnqueueQueues
    <3> QED BY <3>2, <3>3, <2>1, <2>3 DEF SameRest
  <2>5. ~closer.closed /\ ~unwinding /\ closer.holding
    BY <2>2, <1>2 DEF WellAfter
  <2>6. CASE closer' = Finished(c, backfill.end) /\ backfill' = NoBackfill
    <3>1. backfill.end \in Int
      BY <1>1 DEF TaskT
    <3>2. Kept(c, closer') /\ closer'.holding = FALSE
      BY <3>1, <2>1, <2>6, <1>1, FinishedKept
    <3>3. backfill' \in TaskT /\ backfill'.pc = "none"
      BY <2>6, NoTask
    <3>4. WellAfter(closer', backfill', unwinding', link')
      BY <3>2, <3>3, <2>2, <2>3, <2>4, <2>5, <1>2 DEF WellAfter, Kept
    <3> QED BY <3>4, <2>2, <1>2, <1>4
  <2>7. CASE closer' = c /\ backfill' \in TaskT /\ backfill'.pc = "draining"
    <3>1. WellAfter(closer', backfill', unwinding', link')
      BY <2>1, <2>2, <2>3, <2>4, <2>5, <2>7, <1>2 DEF WellAfter
    <3> QED BY <3>1, <2>2, <1>2, <1>4
  <2> QED BY <2>1, <2>6, <2>7 DEF Serves
<1>11. CASE DrainEnds
  <2>1. /\ backfill.pc = "draining" /\ closer' = Finished(closer, backfill.end) /\ backfill' = NoBackfill
        /\ UNCHANGED <<link, unwinding, backfillFailed, raced>>
    BY <1>11 DEF DrainEnds, linkVars
  <2>2. backfill.end \in Int
    BY <1>1 DEF TaskT
  <2>3. Kept(closer, closer') /\ closer'.holding = FALSE
    BY <2>1, <2>2, <1>1, FinishedKept
  <2>4. backfill' \in TaskT /\ backfill'.pc = "none"
    BY <2>1, NoTask
  <2>5. WellAfter(closer', backfill', unwinding', link')
    BY <2>1, <2>3, <2>4, <1>2 DEF WellAfter, Kept
  <2> QED BY <2>1, <2>5, <1>2, <1>4
<1>12. CASE RangeFails
  <2>1. /\ backfill.pc = "range" /\ closer' = Unhold(closer) /\ backfill' = NoBackfill
        /\ raced' = TRUE /\ UNCHANGED <<link, unwinding>>
    BY <1>12 DEF RangeFails
  <2>2. Kept(closer, closer') /\ closer'.holding = FALSE
    BY <2>1, <1>1, UnholdKept
  <2>3. backfill' \in TaskT /\ backfill'.pc = "none"
    BY <2>1, NoTask
  <2>4. WellAfter(closer', backfill', unwinding', link')
    BY <2>1, <2>2, <2>3, <1>2 DEF WellAfter, Kept
  <2> QED BY <2>1, <2>4, <1>4
<1>13. CASE Lose
  <2>1. PICK c : c = [closer EXCEPT !.resolver = IF @.pc = "asking" THEN Idle ELSE @]
    OBVIOUS
  <2>2. /\ ~closer.closed /\ link' = "down" /\ UNCHANGED <<unwinding, backfillFailed, raced>>
        /\ \/ backfill.pc = "range" /\ closer' = Unhold(c) /\ backfill' = NoBackfill
           \/ backfill.pc # "range" /\ closer' = c /\ UNCHANGED backfill
    BY <2>1, <1>13 DEF Lose
  <2>3. /\ c \in CloserT /\ c.queue = closer.queue /\ c.emitted = closer.emitted
        /\ SameRest(closer, c)
    <3>1. Idle \in ResolverT /\ closer.resolver \in ResolverT
      BY <1>1, CloserFields DEF Idle, ResolverT
    <3> QED BY <3>1, <2>1, <1>1 DEF CloserT, SameRest
  <2>4. Good(c) /\ c.closed = closer.closed /\ c.holding = closer.holding
    BY <2>3, <1>1, EmitsNothing, EmitsStill DEF SameRest
  <2>5. CASE backfill.pc = "range" /\ closer' = Unhold(c) /\ backfill' = NoBackfill
    <3>1. Kept(c, closer') /\ closer'.holding = FALSE
      BY <2>4, <2>5, UnholdKept
    <3>2. backfill' \in TaskT /\ backfill'.pc = "none"
      BY <2>5, NoTask
    <3>3. WellAfter(closer', backfill', unwinding', link')
      BY <3>1, <3>2, <2>2, <2>4, <2>5, <1>2 DEF WellAfter, Kept
    <3> QED BY <3>3, <2>2, <1>2, <1>4
  <2>6. CASE backfill.pc # "range" /\ closer' = c /\ UNCHANGED backfill
    <3>1. WellAfter(closer', backfill', unwinding', link')
      BY <2>2, <2>4, <2>6, <1>2 DEF WellAfter
    <3> QED BY <3>1, <2>2, <1>2, <1>4
  <2> QED BY <2>2, <2>5, <2>6
<1>14. CASE BringUp
  <2>1. link' = "up" /\ backfillFailed' = FALSE /\ UNCHANGED <<closer, backfill, unwinding>>
    BY <1>14 DEF BringUp
  <2>2. WellAfter(closer', backfill', unwinding', link')
    BY <2>1, <1>2 DEF WellAfter
  <2> QED BY <2>1, <2>2, <1>4
<1>15. CASE TrendbarsRestored
  <2>1. link' = "restored" /\ UNCHANGED <<closer, backfill, unwinding, backfillFailed, raced>>
    BY <1>15 DEF TrendbarsRestored
  <2>2. WellAfter(closer', backfill', unwinding', link')
    BY <2>1, <1>2 DEF WellAfter
  <2> QED BY <2>1, <2>2, <1>2, <1>4
<1>16. ASSUME RestoreBars, ~closer.closed
       PROVE  WellAfter(closer', backfill', unwinding', link')
  <2>1. PICK d : d = OnDisconnect(closer)
    OBVIOUS
  <2>2. SameQueue(closer, d) /\ Kept(closer, d) /\ d.holding = closer.holding /\ d.closed = closer.closed
    BY <2>1, <1>1, <1>16, DisconnectKept DEF Kept
  <2>3. WellAfter(d, backfill, unwinding, "down") /\ ~d.closed
    BY <2>2, <1>5, <1>16 DEF WellAfter, Kept
  <2>4. PICK r : r = Started(d)
    OBVIOUS
  <2>5. WellAfter(r.closer, r.task,
                  unwinding \/ (r.task.pc = "waiting" /\ backfill.pc \in {"range", "draining"}), "ready")
    BY <2>3, <2>4, <1>1, StartWell
  <2>6. /\ closer' = r.closer /\ backfill' = r.task
        /\ unwinding' = (unwinding \/ (r.task.pc = "waiting" /\ backfill.pc \in {"range", "draining"}))
    BY <2>1, <2>4, <1>16 DEF RestoreBars, Takes
  <2> QED BY <2>5, <2>6 DEF WellAfter
<1>17. CASE BarsRestored
  <2>1. RestoreBars /\ ~closer.closed /\ UNCHANGED <<backfillFailed, raced>>
    BY <1>17 DEF BarsRestored
  <2> QED BY <2>1, <1>2, <1>4, <1>16
<1>18. CASE RetryBars
  <2>1. RestoreBars /\ ~closer.closed /\ backfillFailed' = FALSE
    BY <1>18 DEF RetryBars
  <2> QED BY <2>1, <1>4, <1>16
<1>19. ASSUME ~closer.closed
       PROVE  LET r == Paid(closer) IN
              /\ Good(r.closer) /\ ~r.closer.closed
              /\ WellAfter(r.closer, r.task,
                           unwinding \/ (r.task.pc = "waiting" /\ backfill.pc \in {"range", "draining"}), link)
  <2>1. PICK r : r = Paid(closer)
    OBVIOUS
  <2>2. CASE r.closer = closer /\ r.task = backfill
    BY <2>1, <2>2, <1>1, <1>2, <1>19 DEF WellAfter
  <2>3. CASE r = Started(closer)
    <3>1. /\ Good(r.closer) /\ r.closer.closed = closer.closed
          /\ WellAfter(r.closer, r.task,
                       unwinding \/ (r.task.pc = "waiting" /\ backfill.pc \in {"range", "draining"}), "ready")
      BY <2>3, <1>1, <1>5, <1>19, StartWell
    <3> QED BY <3>1, <2>1, <1>19 DEF WellAfter
  <2> QED BY <2>1, <2>2, <2>3, <1>1, PaidCases
<1>20. CASE RetryTrendbars
  <2>1. ~closer.closed /\ Takes(Paid(closer)) /\ UNCHANGED <<link, backfillFailed, raced>>
    BY <1>20 DEF RetryTrendbars
  <2>2. PICK r : r = Paid(closer)
    OBVIOUS
  <2>3. /\ closer' = r.closer /\ backfill' = r.task
        /\ unwinding' = (unwinding \/ (r.task.pc = "waiting" /\ backfill.pc \in {"range", "draining"}))
    BY <2>1, <2>2 DEF Takes
  <2>4. WellAfter(closer', backfill', unwinding', link')
    BY <2>1, <2>2, <2>3, <1>19
  <2> QED BY <2>1, <2>4, <1>2, <1>4
<1>21. CASE Deliver
  <2>1. PICK r, bar : r = Paid(closer) /\ bar = Head(wire)
    OBVIOUS
  <2>2. /\ ~closer.closed /\ wire # <<>> /\ UNCHANGED <<link, backfillFailed>>
        /\ raced => raced'
        /\ Takes([closer |-> OnUpdate(r.closer, bar), task |-> r.task])
    BY <2>1, <1>21 DEF Deliver, linkVars
  <2>3. bar \in BarT
    BY <2>1, <2>2, <1>1
  <2>4. /\ Good(r.closer) /\ ~r.closer.closed
        /\ WellAfter(r.closer, r.task,
                     unwinding \/ (r.task.pc = "waiting" /\ backfill.pc \in {"range", "draining"}), link)
    BY <2>1, <2>2, <1>19
  <2>5. PICK u : u = OnUpdate(r.closer, bar)
    OBVIOUS
  <2>6. Kept(r.closer, u) /\ u.holding = r.closer.holding
    BY <2>3, <2>4, <2>5, UpdateKept
  <2>7. /\ closer' = u /\ backfill' = r.task
        /\ unwinding' = (unwinding \/ (r.task.pc = "waiting" /\ backfill.pc \in {"range", "draining"}))
    BY <2>2, <2>5 DEF Takes
  <2>8. WellAfter(closer', backfill', unwinding', link')
    BY <2>2, <2>4, <2>6, <2>7 DEF WellAfter, Kept
  <2> QED BY <2>2, <2>8, <1>2, <1>4
<1>22. CASE Close
  <2>1. /\ ~closer.closed
        /\ closer' = [closer EXCEPT !.closed = TRUE, !.current = NoBar, !.held = NoBar, !.queue = <<>>,
                                    !.resolver = Idle, !.drained = TRUE]
        /\ backfill' = NoBackfill /\ UNCHANGED <<link, backfillFailed, raced>>
    BY <1>22 DEF Close, linkVars
  <2>2. Idle \in ResolverT /\ Idle.pc = "none"
    BY DEF Idle, ResolverT
  <2>3. <<>> \in Seq(EntryT)
    OBVIOUS
  <2>4. /\ closer' \in CloserT /\ closer'.queue = <<>> /\ closer'.emitted = closer.emitted
        /\ closer'.closed = TRUE /\ closer'.current = NoBar /\ closer'.resolver = Idle
    BY <2>1, <2>2, <2>3, <1>1 DEF CloserT
  <2>5. Good(closer')
    <3>1. \A i, j \in 1..Len(closer.emitted) : i < j => closer.emitted[i].at < closer.emitted[j].at
      BY <1>1 DEF Good, Ordered
    <3>2. Len(<<>>) = 0 /\ 1..0 = {}
      OBVIOUS
    <3> QED BY <3>1, <3>2, <2>4 DEF Good, Ordered
  <2>6. backfill' \in TaskT /\ backfill'.pc = "none"
    BY <2>1, NoTask
  <2>7. WellAfter(closer', backfill', unwinding', link')
    BY <2>2, <2>4, <2>5, <2>6 DEF WellAfter, HasResolver
  <2> QED BY <2>1, <2>7, <1>2, <1>4
<1>23. CASE Trade \/ Tick \/ UNCHANGED vars
  <2>1. UNCHANGED <<closer, backfill, unwinding, link, backfillFailed, raced>>
    BY <1>23 DEF Trade, Tick, vars, linkVars, taskVars
  <2>2. WellAfter(closer', backfill', unwinding', link')
    BY <2>1, <1>2 DEF WellAfter
  <2> QED BY <2>1, <2>2, <1>2, <1>4
<1> QED BY <1>7, <1>8, <1>9, <1>10, <1>11, <1>12, <1>13, <1>14, <1>15, <1>17, <1>18, <1>20, <1>21,
           <1>22, <1>23 DEF Next

LEMMA CloserInitially == Init => CloserInv
<1> SUFFICES ASSUME Init
             PROVE  CloserInv
  OBVIOUS
<1>1. closer = [phase |-> -1, emitted |-> <<>>, current |-> NoBar, queue |-> <<>>,
                resolver |-> Idle, drained |-> TRUE, holding |-> FALSE, held |-> NoBar,
                baseline |-> TRUE, closed |-> FALSE, blind |-> FALSE]
  BY DEF Init
<1>2. Idle \in ResolverT /\ Idle.pc = "none"
  BY DEF Idle, ResolverT
<1>3. <<>> \in Seq(BarT) /\ <<>> \in Seq(EntryT)
  OBVIOUS
<1>4. /\ closer \in CloserT /\ closer.queue = <<>> /\ closer.emitted = <<>>
      /\ closer.closed = FALSE /\ closer.holding = FALSE
  BY <1>1, <1>2, <1>3 DEF CloserT
<1>5. Good(closer)
  <2>1. Len(<<>>) = 0 /\ 1..0 = {}
    OBVIOUS
  <2> QED BY <1>4, <2>1 DEF Good, Ordered
<1>6. backfill \in TaskT /\ backfill.pc = "none" /\ unwinding = FALSE
  BY NoTask DEF Init
<1>7. /\ now \in Nat /\ trades \in [Boundaries -> Nat] /\ wire \in Seq(BarT)
      /\ link \in {"down", "up", "restored", "ready"}
      /\ {streaming, unwinding, owes, barsFailed, backfillFailed, raced} \subseteq BOOLEAN
  BY <1>3, Numbers DEF Init
<1>8. StateShape
  BY <1>5, <1>6, <1>7 DEF StateShape
<1>9. WellAfter(closer, backfill, unwinding, link)
  BY <1>4, <1>5, <1>6 DEF WellAfter, HasResolver
<1>10. backfillFailed => raced
  BY DEF Init
<1> QED BY <1>8, <1>9, <1>10, WellNow DEF CloserInv

LEMMA CloserAlways == Spec => []CloserInv
  BY CloserInitially, CloserStep, PTL DEF Spec

\* For any period, grace, number of losses and failures: what an outage left queued is
\* resolved once the session is ready (_pump() in backfill()), and updates are held exactly
\* while one backfill runs or unwinds, however it ends (backfill()'s finally).
THEOREM QueueMovesOn == Spec => []NothingStuck
<1>1. CloserInv => NothingStuck
  BY DEF CloserInv
<1> QED BY <1>1, CloserAlways, PTL

\* A good closer's bars, sent and queued, ascend: nothing goes out before an earlier one,
\* or twice, whoever queues it and in whichever order (_enqueue(), _emit_ready()).
THEOREM BarsGoOutInOrder == Spec => []NeverOvertaken
<1>1. CloserInv => NeverOvertaken
  <2> SUFFICES ASSUME CloserInv
               PROVE  NeverOvertaken
    OBVIOUS
  <2>1. Good(closer)
    BY DEF CloserInv, StateShape
  <2>2. PICK s, q, m, n : /\ s = closer.emitted /\ q = closer.queue /\ m = Len(s) /\ n = Len(q)
    OBVIOUS
  <2>3. s \in Seq(BarT) /\ q \in Seq(EntryT)
    BY <2>1, <2>2, CloserFields DEF Good
  <2>4. m \in Nat /\ n \in Nat /\ DOMAIN s = 1..m /\ DOMAIN q = 1..n
    BY <2>2, <2>3, LenProperties
  <2>5. /\ \A i, j \in 1..m : i < j => s[i].at < s[j].at
        /\ \A i, j \in 1..n : i < j => q[i].at < q[j].at
        /\ \A i \in 1..n : LastEmitted(closer) < q[i].at
    BY <2>1, <2>2 DEF Good, Ordered
  <2>6. LastEmitted(closer) \in Int /\ \A i \in 1..m : s[i].at <= LastEmitted(closer)
    BY <2>1, <2>2, <2>3, <2>5, LatestLast
  <2>7. \A i \in 1..m : s[i].at \in Int
    BY <2>2, <2>3, ElementOfSeq, BarFields
  <2>8. \A i \in 1..n : q[i].at \in Int
    BY <2>2, <2>3, ElementOfSeq, EntryFields
  <2>9. \A i \in 1..m, j \in 1..n : s[i].at < q[j].at
    BY <2>5, <2>6, <2>7, <2>8
  <2>10. PICK a, b : a = [i \in 1..m |-> s[i].at] /\ b = [i \in 1..n |-> q[i].at]
    OBVIOUS
  <2>11. a \in Seq(Int) /\ b \in Seq(Int) /\ Len(a) = m /\ Len(b) = n
    BY <2>4, <2>7, <2>8, <2>10
  <2>12. PICK u : u = a \o b
    OBVIOUS
  <2>13. /\ DOMAIN u = 1..(m + n)
         /\ \A i \in 1..(m + n) : u[i] = IF i <= m THEN a[i] ELSE b[i - m]
    BY <2>11, <2>12, ConcatProperties, LenProperties
  <2>14. ASSUME NEW i \in 1..(m + n), NEW j \in 1..(m + n), i < j
         PROVE  u[i] < u[j]
    <3>1. CASE j <= m
      <4>1. i \in 1..m /\ j \in 1..m
        BY <3>1, <2>4, <2>14
      <4>2. u[i] = s[i].at /\ u[j] = s[j].at
        BY <4>1, <3>1, <2>4, <2>10, <2>13
      <4> QED BY <4>1, <4>2, <2>5, <2>14
    <3>2. CASE i <= m /\ ~(j <= m)
      <4>1. i \in 1..m /\ j - m \in 1..n
        BY <3>2, <2>4
      <4>2. u[i] = s[i].at /\ u[j] = q[j - m].at
        BY <4>1, <3>2, <2>10, <2>13
      <4> QED BY <4>1, <4>2, <2>9
    <3>3. CASE ~(i <= m) /\ ~(j <= m)
      <4>1. i - m \in 1..n /\ j - m \in 1..n /\ i - m < j - m
        BY <3>3, <2>4, <2>14
      <4>2. u[i] = q[i - m].at /\ u[j] = q[j - m].at
        BY <4>1, <3>3, <2>10, <2>13
      <4> QED BY <4>1, <4>2, <2>5
    <3> QED BY <3>1, <3>2, <3>3, <2>4, <2>14
  <2>15. u = [i \in DOMAIN closer.emitted |-> closer.emitted[i].at]
               \o [i \in DOMAIN closer.queue |-> closer.queue[i].at]
    BY <2>2, <2>4, <2>10, <2>12
  <2> QED BY <2>13, <2>14, <2>15 DEF NeverOvertaken
<1> QED BY <1>1, CloserAlways, PTL

-----------------------------------------------------------------------------
(* No bar is missed: what the closer's operators keep *)

\* Whatever was settled is.
Grows(U, c, e) == \A at \in Boundaries : trades[at] > 0 /\ Settled(U, c, at) => Settled(U, e, at)

LEMMA GrowsFurther ==
    ASSUME NEW U, NEW c, NEW d, NEW e, Grows(U, c, d), Grows(U, d, e)
    PROVE  Grows(U, c, e)
  BY DEF Grows

LEMMA SettledGrows ==
    ASSUME NEW U, NEW c, NEW d, Grows(U, c, d), NEW b, SettledTo(U, c, b)
    PROVE  SettledTo(U, d, b)
  BY DEF Grows, SettledTo

\* What leaves the queue was out of gaps and right, so what is out is.
LEMMA EmitRight ==
    ASSUME trades \in [Boundaries -> Nat], NEW U, NEW c, NEW e, Good(c), Good(e),
           Emits(c, e), Right(U, c)
    PROVE  Right(U, e) /\ Grows(U, c, e)
<1>1. /\ LastEmitted(c) \in Int /\ LastEmitted(e) \in Int /\ LastEmitted(c) <= LastEmitted(e)
  BY LastIsInt DEF Emits
<1>2. /\ \A p \in ToSet(c.queue) : p.at \in Int
      /\ \A at : IsQueued(c, at) <=> \E p \in ToSet(c.queue) : p.at = at
      /\ \A at : IsQueued(e, at) <=> \E p \in ToSet(e.queue) : p.at = at
      /\ \A p \in ToSet(e.queue) : LastEmitted(e) < p.at
      /\ ToSet(e.queue) \subseteq ToSet(c.queue)
      /\ ToSet(c.emitted) \subseteq ToSet(e.emitted)
  BY QueueEntries, EntryFields DEF Emits
<1>3. /\ LastEmitted(c) # -1 => Closed(LastEmitted(c))
      /\ \A p \in ToSet(c.queue) :
            /\ Closed(p.at)
            /\ ~p.needs => p.at \in U \/ p.streamed = VenueBar(p.at)
            /\ SettledTo(U, c, p.at)
      /\ \A at \in Boundaries :
            trades[at] > 0 /\ IsCovered(c, at) => at \in U \/ VenueBar(at) \in ToSet(c.emitted)
  BY DEF Right
<1>4. ASSUME NEW p \in ToSet(c.queue) \ ToSet(e.queue), p.at \in Boundaries, trades[p.at] > 0
      PROVE  p.at \in U \/ (VenueBar(p.at) \in ToSet(e.emitted) /\ IsCovered(e, p.at))
  <2>1. /\ ~p.needs
        /\ p.streamed # NoBar => p.streamed \in ToSet(e.emitted) /\ p.at <= LastEmitted(e)
    BY <1>4 DEF Emits
  <2>2. p.at \in U \/ p.streamed = VenueBar(p.at)
    BY <2>1, <1>3
  <2>3. VenueBar(p.at) # NoBar
    BY <1>4, VenueBars
  <2> QED BY <2>1, <2>2, <2>3 DEF IsCovered
<1>5. ASSUME NEW at \in Boundaries, trades[at] > 0, Settled(U, c, at)
      PROVE  Settled(U, e, at)
  <2>1. CASE IsCovered(c, at)
    <3>1. at \in Int
      BY Numbers
    <3>2. IsCovered(e, at)
      BY <2>1, <3>1, <1>1 DEF IsCovered
    <3> QED BY <3>2 DEF Settled
  <2>2. CASE IsQueued(c, at)
    <3>1. PICK p \in ToSet(c.queue) : p.at = at
      BY <2>2, <1>2
    <3>2. CASE p \in ToSet(e.queue)
      BY <3>1, <3>2, <1>2 DEF Settled
    <3>3. CASE p \notin ToSet(e.queue)
      BY <3>1, <3>3, <1>4, <1>5 DEF Settled
    <3> QED BY <3>2, <3>3
  <2> QED BY <2>1, <2>2, <1>5 DEF Settled
<1>6. Grows(U, c, e)
  BY <1>5 DEF Grows
<1>7. LastEmitted(e) # -1 => Closed(LastEmitted(e))
  <2>1. LastEmitted(e) = LastEmitted(c) \/ \E p \in ToSet(c.queue) : p.at = LastEmitted(e)
    BY DEF Emits
  <2> QED BY <2>1, <1>3
<1>8. \A p \in ToSet(e.queue) :
            /\ Closed(p.at)
            /\ ~p.needs => p.at \in U \/ p.streamed = VenueBar(p.at)
            /\ SettledTo(U, e, p.at)
  BY <1>2, <1>3, <1>6, SettledGrows
<1>9. ASSUME NEW at \in Boundaries, trades[at] > 0, IsCovered(e, at), at \notin U
      PROVE  VenueBar(at) \in ToSet(e.emitted)
  <2>1. at \in Int
    BY Numbers
  <2>2. CASE IsCovered(c, at)
    BY <2>2, <1>2, <1>3, <1>9
  <2>3. CASE ~IsCovered(c, at)
    <3>1. PICK p \in ToSet(c.queue) : p.at = LastEmitted(e)
      BY <2>3, <1>9 DEF Emits, IsCovered
    <3>2. IsQueued(c, at)
      <4>1. CASE at = p.at
        BY <4>1, <1>2
      <4>2. CASE at # p.at
        <5>1. at < p.at
          BY <4>2, <3>1, <2>1, <1>1, <1>9 DEF IsCovered
        <5>2. Settled(U, c, at)
          BY <5>1, <1>3, <1>9 DEF SettledTo
        <5> QED BY <5>2, <2>3, <1>9 DEF Settled
      <4> QED BY <4>1, <4>2
    <3>3. PICK r \in ToSet(c.queue) : r.at = at
      BY <3>2, <1>2
    <3>4. r \notin ToSet(e.queue)
      BY <3>3, <2>1, <1>1, <1>2, <1>9 DEF IsCovered
    <3> QED BY <3>3, <3>4, <1>4, <1>9
  <2> QED BY <2>2, <2>3
<1> QED BY <1>6, <1>7, <1>8, <1>9 DEF Right

\* Boundaries queued take nothing back.
LEMMA QueueGrows ==
    ASSUME NEW U, NEW c, NEW d, Good(c), Good(d), NEW ats, NEW bar, NEW needs,
           Queues(c, d, ats, bar, needs)
    PROVE  Grows(U, c, d)
<1>1. LastEmitted(d) = LastEmitted(c)
  BY DEF Queues, LastEmitted
<1>2. /\ \A at : IsQueued(c, at) <=> \E p \in ToSet(c.queue) : p.at = at
      /\ \A at : IsQueued(d, at) <=> \E p \in ToSet(d.queue) : p.at = at
  BY QueueEntries
<1>3. \A at : IsQueued(c, at) => IsQueued(d, at)
  BY <1>2 DEF Queues, Retold
<1> QED BY <1>1, <1>3 DEF Grows, Settled, IsCovered

\* Queued right, the queue stays right: boundaries that are closed and that follow on, with
\* the venue's bar where no history is needed.
LEMMA QueueRight ==
    ASSUME trades \in [Boundaries -> Nat], NEW U, NEW c, NEW d, Good(c), Good(d), Right(U, c),
           NEW ats, NEW bar, NEW needs \in BOOLEAN, Arrivals(ats, bar), Queues(c, d, ats, bar, needs),
           \A at \in ats : at >= Floor => Closed(at) /\ SettledTo(U, d, at),
           \A at \in ats : bar[at] # NoBar => Traded(at),
           ~needs => \A at \in ats : bar[at] = VenueBar(at) \/ Settled(U, c, at)
    PROVE  Right(U, d) /\ Grows(U, c, d)
<1>1. LastEmitted(d) = LastEmitted(c) /\ d.emitted = c.emitted
  BY DEF Queues, LastEmitted
<1>2. \A at : IsCovered(d, at) <=> IsCovered(c, at)
  BY <1>1 DEF IsCovered
<1>3. /\ \A at : IsQueued(c, at) <=> \E p \in ToSet(c.queue) : p.at = at
      /\ \A at : IsQueued(d, at) <=> \E p \in ToSet(d.queue) : p.at = at
  BY QueueEntries
<1>4. /\ \A p \in ToSet(c.queue) : \E r \in ToSet(d.queue) : Retold(p, r, ats, bar)
      /\ \A r \in ToSet(d.queue) :
          \/ \E p \in ToSet(c.queue) : Retold(p, r, ats, bar)
          \/ r.at \in ats /\ r.at >= Floor /\ r.streamed = bar[r.at] /\ r.needs = needs
  BY DEF Queues
<1>6. Grows(U, c, d)
  BY QueueGrows
<1>7. ASSUME NEW r \in ToSet(d.queue)
      PROVE  /\ Closed(r.at)
             /\ ~r.needs => r.at \in U \/ r.streamed = VenueBar(r.at)
             /\ SettledTo(U, d, r.at)
  <2>1. CASE \E p \in ToSet(c.queue) : Retold(p, r, ats, bar)
    <3>1. PICK p \in ToSet(c.queue) : Retold(p, r, ats, bar)
      BY <2>1
    <3>2. /\ Closed(p.at)
          /\ ~p.needs => p.at \in U \/ p.streamed = VenueBar(p.at)
          /\ SettledTo(U, c, p.at)
      BY DEF Right
    <3>3. r.at = p.at /\ r.needs = p.needs
      BY <3>1 DEF Retold
    <3>4. SettledTo(U, d, r.at)
      BY <3>2, <3>3, <1>6, SettledGrows
    <3>5. ASSUME ~r.needs, r.at \notin U
          PROVE  r.streamed = VenueBar(r.at)
      <4>1. p.streamed = VenueBar(p.at)
        BY <3>2, <3>3, <3>5
      <4>2. CASE r.streamed = p.streamed
        BY <4>1, <4>2, <3>3
      <4>3. CASE p.streamed = NoBar /\ p.at \in ats /\ r.streamed = bar[p.at]
        <5>1. bar[p.at] # NoBar => VenueBar(p.at) # NoBar
          BY <4>3, VenueBars DEF Traded
        <5> QED BY <5>1, <4>1, <4>3, <3>3
      <4> QED BY <4>2, <4>3, <3>1 DEF Retold
    <3> QED BY <3>2, <3>3, <3>4, <3>5
  <2>2. CASE /\ r.at \in ats /\ r.at >= Floor /\ r.streamed = bar[r.at] /\ r.needs = needs
             /\ ~\E p \in ToSet(c.queue) : Retold(p, r, ats, bar)
    <3>1. ~IsCovered(c, r.at)
      <4>1. LastEmitted(d) < r.at /\ r.at \in Int /\ LastEmitted(d) \in Int
        BY QueueEntries, EntryFields, LastIsInt
      <4> QED BY <4>1, <1>1 DEF IsCovered
    <3>2. ~IsQueued(c, r.at)
      <4> SUFFICES ASSUME NEW p \in ToSet(c.queue), p.at = r.at
                   PROVE  FALSE
        BY <1>3
      <4>1. PICK t \in ToSet(d.queue) : Retold(p, t, ats, bar)
        BY <1>4
      <4>2. t = r
        BY <4>1, QueueEntries DEF Retold
      <4> QED BY <4>1, <4>2, <2>2
    <3>3. ~r.needs => r.at \in U \/ r.streamed = VenueBar(r.at)
      BY <2>2, <3>1, <3>2 DEF Settled
    <3> QED BY <2>2, <3>3
  <2> QED BY <2>1, <2>2, <1>4
<1> QED BY <1>1, <1>2, <1>6, <1>7 DEF Right

\* An entry resolved as the venue has its bar, or as history did not serve it.
LEMMA ResolveRight ==
    ASSUME NEW U, NEW c, NEW d, Good(c), Good(d), Right(U, c),
           NEW bar, Resolves(c, d, bar), c.resolver.at \in U \/ bar = VenueBar(c.resolver.at)
    PROVE  Right(U, d) /\ Grows(U, c, d)
<1>1. LastEmitted(d) = LastEmitted(c) /\ d.emitted = c.emitted
  BY DEF Resolves, LastEmitted
<1>2. \A at : IsCovered(d, at) <=> IsCovered(c, at)
  BY <1>1 DEF IsCovered
<1>3. /\ \A at : IsQueued(c, at) <=> \E p \in ToSet(c.queue) : p.at = at
      /\ \A at : IsQueued(d, at) <=> \E p \in ToSet(d.queue) : p.at = at
  BY QueueEntries
<1>4. /\ \A p \in ToSet(c.queue) : \E r \in ToSet(d.queue) : r.at = p.at
      /\ \A r \in ToSet(d.queue) : \E p \in ToSet(c.queue) :
            /\ r.at = p.at
            /\ r = p \/ (r.at = c.resolver.at /\ r.streamed = bar /\ r.needs = FALSE)
  BY DEF Resolves
<1>5. \A at : IsQueued(c, at) => IsQueued(d, at)
  BY <1>3, <1>4
<1>6. Grows(U, c, d)
  BY <1>2, <1>5 DEF Grows, Settled
<1>7. ASSUME NEW r \in ToSet(d.queue)
      PROVE  /\ Closed(r.at)
             /\ ~r.needs => r.at \in U \/ r.streamed = VenueBar(r.at)
             /\ SettledTo(U, d, r.at)
  <2>1. PICK p \in ToSet(c.queue) :
            /\ r.at = p.at
            /\ r = p \/ (r.at = c.resolver.at /\ r.streamed = bar /\ r.needs = FALSE)
    BY <1>4
  <2>2. /\ Closed(p.at)
        /\ ~p.needs => p.at \in U \/ p.streamed = VenueBar(p.at)
        /\ SettledTo(U, c, p.at)
    BY DEF Right
  <2>3. SettledTo(U, d, r.at)
    BY <2>1, <2>2, <1>6, SettledGrows
  <2> QED BY <2>1, <2>2, <2>3
<1> QED BY <1>1, <1>2, <1>6, <1>7 DEF Right

-----------------------------------------------------------------------------
(* Boundaries are whole periods apart *)

LEMMA Divides ==
    ASSUME NEW x \in Int
    PROVE  /\ x \div Period \in Int /\ x % Period \in 0..(Period - 1)
           /\ x = (x \div Period) * Period + (x % Period)
<1>1. Period \in Int /\ Period > 0
  BY Numbers
<1>2. \A p \in Int : p > 0 => /\ x \div p \in Int /\ x % p \in 0..(p - 1)
                              /\ x = p * (x \div p) + (x % p)
  OBVIOUS
<1>3. \A k \in Int : k * Period = Period * k
  BY <1>1
<1> QED BY <1>1, <1>2, <1>3

LEMMA Multiples ==
    ASSUME NEW k \in Int, NEW l \in Int
    PROVE  /\ k * Period \in Int /\ l * Period \in Int
           /\ (k - l) * Period = k * Period - l * Period
           /\ k < l => k * Period + Period <= l * Period
<1>1. \A p, a, b \in Int : p > 0 /\ a < b => a * p + p <= b * p
  <2> SUFFICES ASSUME NEW p \in Int, NEW a \in Int, NEW b \in Int, p > 0, a < b
               PROVE  a * p + p <= b * p
    OBVIOUS
  <2>1. PICK n \in Nat : b = a + 1 + n
    <3>1. b - a - 1 \in Nat /\ b = a + 1 + (b - a - 1)
      OBVIOUS
    <3> QED BY <3>1
  <2>2. b * p = a * p + p + n * p
    BY <2>1
  <2>3. n * p >= 0 /\ n * p \in Int /\ a * p \in Int
    OBVIOUS
  <2> QED BY <2>2, <2>3
<1>2. Period \in Int /\ Period > 0
  BY Numbers
<1>3. k * Period \in Int /\ l * Period \in Int /\ (k - l) * Period = k * Period - l * Period
  BY <1>2
<1> QED BY <1>1, <1>2, <1>3

LEMMA GridStep ==
    ASSUME NEW a, NEW b, OnGrid(a), OnGrid(b)
    PROVE  /\ a \in Int /\ b \in Int
           /\ a < b => a + Period <= b
           /\ OnGrid(a - Period)
<1>1. PICK k \in Int, l \in Int : a = k * Period + Offset /\ b = l * Period + Offset
  BY DEF OnGrid
<1>2. PICK x, y : x = k * Period /\ y = l * Period
  OBVIOUS
<1>3. x \in Int /\ y \in Int /\ (k < l => x + Period <= y) /\ (l < k => y + Period <= x)
  BY <1>2, Multiples
<1>4. Period \in Nat /\ Period > 0 /\ Offset \in Nat
  BY Numbers
<1>5. a = x + Offset /\ b = y + Offset /\ (k = l => x = y)
  BY <1>1, <1>2
<1>6. a < b => a + Period <= b
  BY <1>3, <1>4, <1>5
<1>7. (k - 1) * Period = k * Period - 1 * Period /\ 1 * Period = Period
  BY <1>4, Multiples
<1>8. a - Period = (k - 1) * Period + Offset
  BY <1>2, <1>3, <1>4, <1>5, <1>7
<1>9. k - 1 \in Int
  OBVIOUS
<1>10. OnGrid(a - Period)
  BY <1>8, <1>9 DEF OnGrid
<1>11. a \in Int /\ b \in Int
  BY <1>3, <1>4, <1>5
<1> QED BY <1>6, <1>10, <1>11

LEMMA BoundaryOnGrid ==
    ASSUME NEW b \in Boundaries
    PROVE  OnGrid(b)
<1>1. b \in Int /\ b % Period = Offset
  BY Numbers
<1> QED BY <1>1, Divides DEF OnGrid

\* The bar forming at t starts at the last boundary up to t.
LEMMA FormingOnGrid ==
    ASSUME NEW t \in Int
    PROVE  /\ Forming(t) \in Int /\ OnGrid(Forming(t))
           /\ Forming(t) <= t /\ t < Forming(t) + Period
           /\ \A b : OnGrid(b) /\ b <= t => b <= Forming(t)
           /\ OnGrid(t) => Forming(t) = t
<1>1. Period \in Nat /\ Period > 0 /\ Offset \in Nat
  BY Numbers
<1>2. PICK q, r : q = (t - Offset) \div Period /\ r = (t - Offset) % Period
  OBVIOUS
<1>3. t - Offset \in Int
  BY <1>1
<1>4. q \in Int /\ r \in 0..(Period - 1) /\ t - Offset = q * Period + r
  BY <1>2, <1>3, Divides
<1>5. Forming(t) = q * Period + Offset
  BY <1>2 DEF Forming
<1>6. OnGrid(Forming(t))
  BY <1>4, <1>5 DEF OnGrid
<1>7. PICK x : x = q * Period
  OBVIOUS
<1>8. x \in Int
  BY <1>4, <1>7, Multiples
<1>9. Forming(t) \in Int /\ Forming(t) <= t /\ t < Forming(t) + Period
  BY <1>1, <1>4, <1>5, <1>7, <1>8
<1>10. ASSUME NEW b, OnGrid(b), b <= t
       PROVE  b <= Forming(t)
  <2>1. b \in Int /\ (Forming(t) < b => Forming(t) + Period <= b)
    BY <1>6, <1>10, GridStep
  <2> QED BY <2>1, <1>1, <1>9, <1>10
<1>11. OnGrid(t) => Forming(t) = t
  BY <1>9, <1>10
<1> QED BY <1>6, <1>9, <1>10, <1>11

LEMMA FloorForms ==
    ASSUME NEW c, Good(c), c.phase # -1, NEW t
    PROVE  FloorBoundary(c, t) = Forming(t)
<1>1. c.phase = Offset
  BY CloserFields DEF Good
<1>2. Offset # -1
  BY Numbers
<1> QED BY <1>1, <1>2 DEF FloorBoundary, Forming

\* The tail is the boundaries there are between its ends.
LEMMA TailOnGrid ==
    ASSUME NEW first, OnGrid(first), NEW newest \in Int, NEW at \in Int
    PROVE  at \in TailFrom(first, newest) <=> OnGrid(at) /\ first <= at /\ at <= newest
<1>1. first \in Int
  BY GridStep
<1>2. PICK k \in Int : first = k * Period + Offset
  BY DEF OnGrid
<1>3. PICK x : x = k * Period
  OBVIOUS
<1>4. x \in Int /\ first = x + Offset /\ Period \in Nat /\ Period > 0 /\ Offset \in Nat
  BY <1>2, <1>3, Multiples, Numbers
<1>5. PICK d : d = at - first
  OBVIOUS
<1>6. PICK m, r : m = d \div Period /\ r = d % Period
  OBVIOUS
<1>7. d \in Int
  BY <1>1, <1>5
<1>8. m \in Int /\ r \in 0..(Period - 1) /\ d = m * Period + r
  BY <1>6, <1>7, Divides
<1>9. m * Period \in Int
  BY <1>8, Multiples
<1>10. ASSUME d % Period = 0
       PROVE  OnGrid(at)
  <2>1. d = m * Period
    BY <1>6, <1>8, <1>9, <1>10
  <2>2. (k - (0 - m)) * Period = k * Period - (0 - m) * Period /\ (0 - m) * Period = 0 * Period - m * Period
    BY <1>8, Multiples
  <2>3. (k + m) * Period = x + m * Period
    BY <1>2, <1>3, <1>4, <1>8
  <2>4. at = (k + m) * Period + Offset
    BY <2>1, <2>3, <1>1, <1>4, <1>5, <1>9
  <2>5. k + m \in Int
    BY <1>8
  <2> QED BY <2>4, <2>5 DEF OnGrid
<1>11. ASSUME OnGrid(at)
       PROVE  d % Period = 0
  <2>1. PICK l \in Int : at = l * Period + Offset
    BY <1>11 DEF OnGrid
  <2>2. PICK y, z : y = l * Period /\ z = m * Period
    OBVIOUS
  <2>3. y \in Int /\ z \in Int /\ at = y + Offset /\ d = z + r
    BY <2>1, <2>2, <1>8, Multiples
  <2>4. y - x = z + r
    <3>1. d = (y + Offset) - (x + Offset)
      BY <2>3, <1>4, <1>5
    <3>2. (y + Offset) - (x + Offset) = y - x
      BY <2>3, <1>4
    <3> QED BY <2>3, <3>1, <3>2
  <2>5. (l - k) * Period = y - x /\ l - k \in Int
    BY <2>2, <1>3, Multiples
  <2>6. /\ l - k < m => (l - k) * Period + Period <= z
        /\ m < l - k => z + Period <= (l - k) * Period
    BY <2>2, <2>5, <1>8, Multiples
  <2>7. ~(l - k < m) /\ ~(m < l - k)
    BY <2>3, <2>4, <2>5, <2>6, <1>4, <1>8
  <2>8. l - k = m
    BY <2>5, <2>7, <1>8
  <2>9. y - x = z
    BY <2>2, <2>5, <2>8
  <2> QED BY <2>3, <2>4, <2>9, <1>4, <1>6, <1>8
<1>12. at \in TailFrom(first, newest) <=> first <= at /\ at <= newest /\ d % Period = 0
  BY <1>1, <1>5 DEF TailFrom
<1> QED BY <1>10, <1>11, <1>12

-----------------------------------------------------------------------------
(* No bar is missed: an update *)

LEMMA SameQueueRight ==
    ASSUME NEW U, NEW c, NEW d, Good(c), SameQueue(c, d)
    PROVE  /\ Right(U, c) => Right(U, d)
           /\ \A at : Settled(U, d, at) <=> Settled(U, c, at)
           /\ Grows(U, c, d)
           /\ \A b : SettledTo(U, c, b) => SettledTo(U, d, b)
<1>1. /\ LastEmitted(d) = LastEmitted(c)
      /\ \A at : (IsCovered(d, at) <=> IsCovered(c, at)) /\ (IsQueued(d, at) <=> IsQueued(c, at))
      /\ d.queue = c.queue /\ d.emitted = c.emitted
  BY SameQueueKept DEF SameQueue
<1>2. \A at : Settled(U, d, at) <=> Settled(U, c, at)
  BY <1>1 DEF Settled
<1>3. Grows(U, c, d)
  BY <1>2 DEF Grows
<1>4. \A b : SettledTo(U, c, b) => SettledTo(U, d, b)
  BY <1>2 DEF SettledTo
<1>5. Right(U, c) => Right(U, d)
  BY <1>1, <1>4 DEF Right
<1> QED BY <1>2, <1>3, <1>4, <1>5

\* A bar queued that is closed, with every bar before it settled.
LEMMA EnqueueOneRight ==
    ASSUME trades \in [Boundaries -> Nat], NEW U, NEW c, Good(c), Right(U, c), ~c.closed,
           NEW bar \in BarT, Traded(bar.at), Closed(bar.at), SettledTo(U, c, bar.at),
           NEW needs \in BOOLEAN, ~needs => bar = VenueBar(bar.at) \/ Settled(U, c, bar.at)
    PROVE  LET e == EnqueueOne(c, bar, needs) IN
           /\ Good(e) /\ SameRest(c, e) /\ Right(U, e) /\ Grows(U, c, e)
           /\ Settled(U, e, bar.at) /\ LastEmitted(c) <= LastEmitted(e)
<1>1. PICK e : e = EnqueueOne(c, bar, needs)
  OBVIOUS
<1>2. PICK told : told = [at \in {bar.at} |-> bar]
  OBVIOUS
<1>3. Arrivals({bar.at}, told) /\ told[bar.at] = bar
  BY <1>2, OneArrives
<1>4. PICK d : Good(d) /\ Emits(d, e) /\ Queues(c, d, {bar.at}, told, needs)
  BY <1>1, <1>2, EnqueueOneKept
<1>5. Good(e) /\ SameRest(c, e)
  BY <1>1, EnqueueOneKept
<1>6. LastEmitted(d) = LastEmitted(c)
  BY <1>4 DEF Queues, LastEmitted
<1>7. bar.at >= Floor
  BY BarFields, Numbers
<1>8. IsCovered(d, bar.at) \/ IsQueued(d, bar.at)
  BY <1>4, <1>6, <1>7 DEF Queues, IsCovered
<1>9. Grows(U, c, d)
  BY <1>4, QueueGrows
<1>10. SettledTo(U, d, bar.at)
  BY <1>9, SettledGrows
<1>11. Right(U, d)
  <2>1. PICK ats : ats = {bar.at}
    OBVIOUS
  <2>2. \A at \in ats : at >= Floor => Closed(at) /\ SettledTo(U, d, at)
    BY <2>1, <1>10
  <2>3. \A at \in ats : told[at] # NoBar => Traded(at)
    BY <2>1
  <2>4. ~needs => \A at \in ats : told[at] = VenueBar(at) \/ Settled(U, c, at)
    BY <2>1, <1>3
  <2>5. Arrivals(ats, told) /\ Queues(c, d, ats, told, needs) /\ Good(d)
    BY <2>1, <1>3, <1>4
  <2> QED BY <2>2, <2>3, <2>4, <2>5, QueueRight
<1>12. Right(U, e) /\ Grows(U, d, e)
  BY <1>4, <1>5, <1>11, EmitRight
<1>13. Grows(U, c, e)
  BY <1>9, <1>12, GrowsFurther
<1>14. Settled(U, e, bar.at)
  BY <1>8, <1>12 DEF Grows, Settled, Traded
<1>15. LastEmitted(c) <= LastEmitted(e)
  BY <1>4, <1>6 DEF Emits
<1> QED BY <1>1, <1>5, <1>12, <1>13, <1>14, <1>15

\* A bar that is settled and changes no more.
Past(U, c, at) == Settled(U, c, at) /\ Closed(at)

\* Every bar before this one is settled, or forms at the closer.
Follows(U, c, bar) ==
    \A at \in Boundaries : trades[at] > 0 /\ at < bar.at => Settled(U, c, at) \/ at = c.current.at

\* What an update does to a closer with everything right.
UpdatesRight(U, c, bar, e) ==
    /\ Good(e) /\ Right(U, e) /\ Grows(U, c, e) /\ InHand(U, e)
    /\ e.phase = Offset /\ e.blind = c.blind /\ e.closed = c.closed /\ e.holding = c.holding
    /\ LastEmitted(c) <= LastEmitted(e)
    /\ c.holding =>
          /\ e.current = c.current
          /\ e.held = bar \/ (e.held = c.held /\ Past(U, e, bar.at))
    /\ ~c.holding =>
          /\ e.held = c.held
          /\ \/ /\ e.current = bar
                /\ c.current = NoBar \/ bar.at = c.current.at \/ Settled(U, e, c.current.at)
             \/ /\ e.current = c.current
                /\ Past(U, e, bar.at) \/ (c.current # NoBar /\ bar.at < c.current.at)

LEMMA UpdateRight ==
    ASSUME trades \in [Boundaries -> Nat], now \in Nat,
           \A at \in Boundaries : trades[at] > 0 => at <= now,
           NEW U, NEW c, Good(c), Right(U, c), InHand(U, c), ~c.closed,
           NEW bar \in BarT, Traded(bar.at),
           ~c.holding => Follows(U, c, bar),
           ~c.holding /\ c.current # NoBar /\ c.current.at < bar.at =>
              c.current = VenueBar(c.current.at) \/ Settled(U, c, c.current.at)
    PROVE  UpdatesRight(U, c, bar, OnUpdate(c, bar))
<1>1. PICK e : e = OnUpdate(c, bar)
  OBVIOUS
<1>2. PICK d : UpdatesTo(c, bar, d, e)
  BY <1>1, UpdateCases
<1>3. /\ SameQueue(c, d) /\ d.phase = Offset /\ d.holding = c.holding /\ d.blind = c.blind
      /\ d.closed = c.closed
  BY <1>2 DEF UpdatesTo, SameQueue
<1>4. Good(d) /\ LastEmitted(d) = LastEmitted(c)
  BY <1>3, SameQueueKept
<1>5. /\ Right(U, d) /\ Grows(U, c, d)
      /\ \A at : Settled(U, d, at) <=> Settled(U, c, at)
      /\ \A b : SettledTo(U, c, b) => SettledTo(U, d, b)
  BY <1>3, SameQueueRight
<1>6. /\ c.current # NoBar => Traded(c.current.at) /\ SettledTo(U, c, c.current.at)
      /\ c.held # NoBar => Traded(c.held.at)
      /\ c.holding \/ c.baseline => c.current = NoBar
  BY DEF InHand
<1>7. bar.at \in Boundaries /\ bar.at \in Nat /\ bar # NoBar
  BY BarFields
<1>8. c.current \in BarT \cup {NoBar} /\ c.holding \in BOOLEAN /\ c.baseline \in BOOLEAN
  BY CloserFields DEF Good
<1>9. NoBar.at = -1
  BY DEF NoBar
<1>10. LastEmitted(c) \in Int
  BY LastIsInt
<1>11. IsCovered(c, bar.at) => Past(U, d, bar.at)
  <2> SUFFICES ASSUME IsCovered(c, bar.at)
               PROVE  Settled(U, d, bar.at) /\ Closed(bar.at)
    BY DEF Past
  <2>1. LastEmitted(c) # -1 => Closed(LastEmitted(c))
    BY DEF Right
  <2>2. Closed(bar.at)
    BY <2>1, <1>7, <1>10, Numbers DEF IsCovered, Closed
  <2> QED BY <2>2, <1>5 DEF Settled
<1>12. IsQueued(c, bar.at) => Past(U, d, bar.at) /\ SettledTo(U, d, bar.at)
  <2> SUFFICES ASSUME IsQueued(c, bar.at)
               PROVE  Past(U, d, bar.at) /\ SettledTo(U, d, bar.at)
    OBVIOUS
  <2>1. PICK p \in ToSet(c.queue) : p.at = bar.at
    BY QueueEntries
  <2>2. Closed(bar.at) /\ SettledTo(U, c, bar.at)
    BY <2>1 DEF Right
  <2> QED BY <2>2, <1>5 DEF Past, Settled
\* Nothing was queued.
<1>13. ASSUME e = d, InHand(U, d),
              c.holding =>
                 /\ d.current = c.current
                 /\ d.held = bar \/ (d.held = c.held /\ Past(U, d, bar.at)),
              ~c.holding =>
                 /\ d.held = c.held
                 /\ \/ /\ d.current = bar
                       /\ c.current = NoBar \/ bar.at = c.current.at \/ Settled(U, d, c.current.at)
                    \/ /\ d.current = c.current
                       /\ Past(U, d, bar.at) \/ (c.current # NoBar /\ bar.at < c.current.at)
       PROVE  UpdatesRight(U, c, bar, e)
  BY <1>3, <1>4, <1>5, <1>10, <1>13 DEF UpdatesRight
<1>14. CASE IsCovered(c, bar.at)
  <2>1. e = d /\ d.current = c.current /\ d.held = c.held /\ d.baseline = c.baseline
    BY <1>2, <1>14 DEF UpdatesTo
  <2>2. InHand(U, d)
    BY <2>1, <1>3, <1>5, <1>6 DEF InHand
  <2> QED BY <2>1, <2>2, <1>1, <1>11, <1>13, <1>14
<1>15. CASE ~IsCovered(c, bar.at) /\ c.holding
  <2>1. e = d /\ d.current = c.current /\ d.held = bar /\ d.baseline = c.baseline
    BY <1>2, <1>15 DEF UpdatesTo
  <2>2. InHand(U, d)
    BY <2>1, <1>3, <1>5, <1>6 DEF InHand
  <2> QED BY <2>1, <2>2, <1>1, <1>13, <1>15
\* The bar itself is queued.
<1>16. ASSUME ~c.holding, e = EnqueueOne(d, bar, TRUE), d.current = c.current, d.held = c.held,
              d.baseline \in {c.baseline, FALSE}, Closed(bar.at), SettledTo(U, d, bar.at)
       PROVE  UpdatesRight(U, c, bar, e)
  <2>1. /\ Good(e) /\ SameRest(d, e) /\ Right(U, e) /\ Grows(U, d, e)
        /\ Settled(U, e, bar.at) /\ LastEmitted(d) <= LastEmitted(e)
    BY <1>3, <1>4, <1>5, <1>16, EnqueueOneRight
  <2>2. Grows(U, c, e)
    BY <2>1, <1>5, GrowsFurther
  <2>3. /\ e.current = c.current /\ e.held = c.held /\ e.baseline \in {c.baseline, FALSE}
        /\ e.phase = Offset /\ e.blind = c.blind /\ e.closed = c.closed /\ e.holding = c.holding
    BY <2>1, <1>3, <1>16 DEF SameRest
  <2>4. InHand(U, e)
    BY <2>2, <2>3, <1>6, SettledGrows DEF InHand
  <2>5. Past(U, e, bar.at)
    BY <2>1, <1>16 DEF Past
  <2> QED BY <2>1, <2>2, <2>3, <2>4, <2>5, <1>4, <1>16 DEF UpdatesRight
<1>17. CASE ~IsCovered(c, bar.at) /\ ~c.holding /\ IsQueued(c, bar.at)
  <2>1. /\ e = EnqueueOne(d, bar, TRUE)
        /\ d.current = c.current /\ d.held = c.held /\ d.baseline = c.baseline
    BY <1>2, <1>17 DEF UpdatesTo
  <2>2. Closed(bar.at) /\ SettledTo(U, d, bar.at)
    BY <1>12, <1>17 DEF Past
  <2> QED BY <2>1, <2>2, <1>1, <1>16, <1>17
<1>18. CASE /\ ~IsCovered(c, bar.at) /\ ~c.holding /\ ~IsQueued(c, bar.at)
            /\ c.baseline /\ Closed(bar.at)
  <2>1. /\ e = EnqueueOne(d, bar, TRUE)
        /\ d.current = c.current /\ d.held = c.held /\ d.baseline = FALSE
    BY <1>2, <1>18 DEF UpdatesTo
  <2>2. c.current.at = -1
    BY <1>6, <1>9, <1>18
  <2>3. \A at \in Boundaries : at # -1
    BY Numbers
  <2>4. SettledTo(U, c, bar.at)
    BY <2>2, <2>3, <1>18 DEF Follows, SettledTo
  <2> QED BY <2>1, <2>4, <1>1, <1>5, <1>16, <1>18
<1>19. CASE /\ ~IsCovered(c, bar.at) /\ ~c.holding /\ ~IsQueued(c, bar.at)
            /\ ~(c.baseline /\ Closed(bar.at))
  <2>1. /\ d.held = c.held /\ d.baseline = FALSE
        /\ \/ (c.current = NoBar \/ bar.at = c.current.at) /\ d.current = bar /\ e = d
           \/ /\ c.current # NoBar /\ c.current.at < bar.at
              /\ d.current = bar /\ e = EnqueueOne(d, c.current, FALSE)
           \/ c.current # NoBar /\ bar.at < c.current.at /\ d.current = c.current /\ e = d
    BY <1>2, <1>19 DEF UpdatesTo
  <2>2. CASE (c.current = NoBar \/ bar.at = c.current.at) /\ d.current = bar /\ e = d
    <3>1. SettledTo(U, c, bar.at)
      <4>1. CASE c.current = NoBar
        <5>1. \A at \in Boundaries : at # c.current.at
          BY <4>1, <1>9, Numbers
        <5> QED BY <5>1, <1>19 DEF Follows, SettledTo
      <4>2. CASE c.current # NoBar /\ bar.at = c.current.at
        BY <4>2, <1>6
      <4> QED BY <4>1, <4>2, <2>2
    <3>2. InHand(U, d)
      BY <3>1, <2>1, <2>2, <1>3, <1>5, <1>6, <1>19 DEF InHand
    <3> QED BY <3>2, <2>1, <2>2, <1>1, <1>13, <1>19
  <2>3. CASE /\ c.current # NoBar /\ c.current.at < bar.at
             /\ d.current = bar /\ e = EnqueueOne(d, c.current, FALSE)
    <3>1. c.current \in BarT /\ c.current.at \in Boundaries
      BY <2>3, <1>8, BarFields
    <3>2. Traded(c.current.at) /\ SettledTo(U, d, c.current.at)
      BY <2>3, <1>5, <1>6
    <3>3. Closed(c.current.at)
      <4>1. OnGrid(c.current.at) /\ OnGrid(bar.at)
        BY <3>1, <1>7, BoundaryOnGrid
      <4>2. c.current.at + Period <= bar.at /\ c.current.at \in Int
        BY <4>1, <2>3, GridStep
      <4>3. bar.at <= now
        BY <1>7 DEF Traded
      <4> QED BY <4>2, <4>3, <1>7, Numbers DEF Closed
    <3>4. c.current = VenueBar(c.current.at) \/ Settled(U, d, c.current.at)
      BY <2>3, <1>5, <1>19
    <3>5. /\ Good(e) /\ SameRest(d, e) /\ Right(U, e) /\ Grows(U, d, e)
          /\ Settled(U, e, c.current.at) /\ LastEmitted(d) <= LastEmitted(e)
      BY <3>1, <3>2, <3>3, <3>4, <2>3, <1>3, <1>4, <1>5, EnqueueOneRight
    <3>6. Grows(U, c, e)
      BY <3>5, <1>5, GrowsFurther
    <3>7. /\ e.current = bar /\ e.held = c.held /\ e.baseline = FALSE
          /\ e.phase = Offset /\ e.blind = c.blind /\ e.closed = c.closed /\ e.holding = c.holding
      BY <3>5, <2>1, <2>3, <1>3 DEF SameRest
    <3>8. SettledTo(U, e, bar.at)
      BY <3>5, <3>6, <1>19 DEF Follows, SettledTo, Grows
    <3>9. InHand(U, e)
      BY <3>7, <3>8, <1>6, <1>19 DEF InHand
    <3> QED BY <3>5, <3>6, <3>7, <3>9, <1>1, <1>4, <1>19 DEF UpdatesRight
  <2>4. CASE c.current # NoBar /\ bar.at < c.current.at /\ d.current = c.current /\ e = d
    <3>1. InHand(U, d)
      BY <2>1, <2>4, <1>3, <1>5, <1>6 DEF InHand
    <3> QED BY <3>1, <2>1, <2>4, <1>1, <1>13, <1>19
  <2> QED BY <2>1, <2>2, <2>3, <2>4
<1> QED BY <1>8, <1>14, <1>15, <1>17, <1>18, <1>19

-----------------------------------------------------------------------------
(* No bar is missed: the end of a backfill *)

\* Every closed bar the venue has is settled.
AllSettled(U, c) == \A at \in Boundaries : trades[at] > 0 /\ Closed(at) => Settled(U, c, at)

LEMMA ClosedOnGrid ==
    ASSUME now \in Nat, NEW at, OnGrid(at)
    PROVE  Closed(at) <=> at <= Forming(now) - Period
<1>1. PICK f : f = Forming(now)
  OBVIOUS
<1>2. f \in Int /\ OnGrid(f) /\ f <= now /\ now < f + Period /\ (at <= now => at <= f)
  BY <1>1, FormingOnGrid
<1>3. at \in Int /\ (at < f => at + Period <= f)
  BY <1>2, GridStep
<1>4. Period \in Nat /\ Period > 0
  BY Numbers
<1>5. at + Period <= now <=> at <= f - Period
  BY <1>2, <1>3, <1>4
<1> QED BY <1>1, <1>5 DEF Closed

\* The tail queued leaves no closed bar behind.
LEMMA TailRight ==
    ASSUME trades \in [Boundaries -> Nat], now \in Nat,
           NEW U, NEW c, Good(c), Right(U, c), ~c.closed, c.phase # -1,
           NEW end, OnGrid(end), Closed(end), SettledTo(U, c, end)
    PROVE  LET e == QueueTail(c, end) IN
           /\ Good(e) /\ SameRest(c, e) /\ Right(U, e) /\ Grows(U, c, e) /\ AllSettled(U, e)
           /\ LastEmitted(c) <= LastEmitted(e)
<1>1. PICK newest, first : /\ newest = LastClosedBoundary(c)
                           /\ first = Min({FloorBoundary(c, end), newest})
  OBVIOUS
<1>2. Forming(now) \in Int /\ Period \in Nat
  BY FormingOnGrid, Numbers
<1>3. newest = Forming(now) - Period /\ newest \in Int
  BY <1>1, <1>2, FloorForms DEF LastClosedBoundary
<1>4. end \in Int
  BY GridStep
<1>5. FloorBoundary(c, end) = end
  BY <1>4, FloorForms, FormingOnGrid
<1>6. end <= newest
  BY <1>3, ClosedOnGrid
<1>7. first = end
  BY <1>1, <1>3, <1>4, <1>5, <1>6, LeastOfTwo
<1>8. PICK tail : tail = TailFrom(first, newest)
  OBVIOUS
<1>9. PICK none : none = [at \in tail |-> NoBar]
  OBVIOUS
<1>10. PICK e : e = Enqueue(c, tail, none, TRUE)
  OBVIOUS
<1>11. Arrivals(tail, none) /\ \A at \in tail : none[at] = NoBar
  BY <1>3, <1>4, <1>7, <1>8, <1>9, TailArrives
<1>12. QueueTail(c, end) = e
  BY <1>1, <1>8, <1>9, <1>10 DEF QueueTail
<1>13. PICK d : Good(d) /\ Queues(c, d, tail, none, TRUE) /\ Good(e) /\ Emits(d, e)
  BY <1>10, <1>11, EnqueueQueues
<1>14. \A at \in Int : at \in tail <=> OnGrid(at) /\ end <= at /\ at <= newest
  BY <1>3, <1>7, <1>8, TailOnGrid
<1>15. Grows(U, c, d)
  BY <1>13, QueueGrows
<1>16. LastEmitted(d) = LastEmitted(c)
  BY <1>13 DEF Queues, LastEmitted
<1>17. ASSUME NEW at \in Boundaries, trades[at] > 0, at <= newest
       PROVE  Settled(U, d, at)
  <2>1. CASE at < end
    BY <2>1, <1>15, <1>17 DEF SettledTo, Grows
  <2>2. CASE ~(at < end)
    <3>1. at \in Int /\ at >= Floor
      BY Numbers
    <3>2. at \in tail
      BY <3>1, <2>2, <1>4, <1>14, <1>17, BoundaryOnGrid
    <3>3. IsCovered(c, at) \/ IsQueued(d, at)
      BY <3>1, <3>2, <1>13 DEF Queues
    <3> QED BY <3>3, <1>16 DEF Settled, IsCovered
  <2> QED BY <2>1, <2>2
<1>18. \A at \in tail : at \in Int /\ Closed(at) /\ SettledTo(U, d, at)
  <2> SUFFICES ASSUME NEW at \in tail
               PROVE  at \in Int /\ Closed(at) /\ SettledTo(U, d, at)
    OBVIOUS
  <2>1. at \in Int /\ OnGrid(at) /\ at <= newest
    BY <1>11, <1>14 DEF Arrivals
  <2>2. Closed(at)
    BY <2>1, <1>3, ClosedOnGrid
  <2>3. \A b \in Boundaries : b < at => b <= newest
    BY <2>1, <1>3, Numbers
  <2> QED BY <2>1, <2>2, <2>3, <1>17 DEF SettledTo
<1>19. Right(U, d)
  BY <1>11, <1>13, <1>18, QueueRight
<1>20. Right(U, e) /\ Grows(U, d, e)
  BY <1>13, <1>19, EmitRight
<1>21. AllSettled(U, e)
  <2> SUFFICES ASSUME NEW at \in Boundaries, trades[at] > 0, Closed(at)
               PROVE  Settled(U, e, at)
    BY DEF AllSettled
  <2>1. at <= newest
    BY <1>3, BoundaryOnGrid, ClosedOnGrid
  <2> QED BY <2>1, <1>17, <1>20 DEF Grows
<1>22. SameRest(c, e)
  BY <1>13 DEF Queues, Emits, SameRest
<1>23. Grows(U, c, e)
  BY <1>15, <1>20, GrowsFurther
<1>24. LastEmitted(c) <= LastEmitted(e)
  BY <1>13, <1>16 DEF Emits
<1> QED BY <1>12, <1>13, <1>20, <1>21, <1>22, <1>23, <1>24

\* What is left of the closer c when its backfill is done: no closed bar is missed, and the
\* update held is in hand, or was of a bar that is settled.
FinishesRight(U, c, e) ==
    /\ Good(e) /\ Right(U, e) /\ Grows(U, c, e) /\ InHand(U, e) /\ AllSettled(U, e)
    /\ e.holding = FALSE /\ e.held = NoBar /\ e.blind = c.blind /\ e.closed = c.closed
    /\ \/ c.held = NoBar /\ e.current = NoBar
       \/ c.held # NoBar /\ e.current = c.held
       \/ c.held # NoBar /\ e.current = NoBar /\ Past(U, e, c.held.at)

LEMMA BarClosesBefore ==
    ASSUME now \in Nat, NEW at \in Boundaries, NEW b \in Boundaries, at < b, b <= now
    PROVE  Closed(at)
<1>1. OnGrid(at) /\ OnGrid(b)
  BY BoundaryOnGrid
<1>2. at \in Int /\ b \in Int /\ at + Period <= b
  BY <1>1, GridStep
<1> QED BY <1>2, Numbers DEF Closed

LEMMA FinishedRight ==
    ASSUME trades \in [Boundaries -> Nat], now \in Nat,
           \A at \in Boundaries : trades[at] > 0 => at <= now,
           NEW U, NEW c, Good(c), Right(U, c), InHand(U, c), ~c.closed, c.phase # -1,
           c.current = NoBar,
           NEW end, OnGrid(end), Closed(end), SettledTo(U, c, end)
    PROVE  FinishesRight(U, c, Finished(c, end))
<1>1. PICK t : t = QueueTail(c, end)
  OBVIOUS
<1>2. /\ Good(t) /\ SameRest(c, t) /\ Right(U, t) /\ Grows(U, c, t) /\ AllSettled(U, t)
  BY <1>1, TailRight
<1>3. PICK u : u = Unhold(t)
  OBVIOUS
<1>4. /\ SameQueue(t, u) /\ Good(u) /\ u.holding = FALSE /\ u.current = NoBar
      /\ u.held = c.held /\ u.blind = c.blind /\ u.closed = c.closed
  BY <1>2, <1>3, UnholdKept DEF Kept, SameRest
<1>5. PICK v : v = [u EXCEPT !.held = NoBar]
  OBVIOUS
<1>6. /\ SameQueue(t, v) /\ v.holding = FALSE /\ v.current = NoBar /\ v.held = NoBar
      /\ v.blind = c.blind /\ v.closed = c.closed
  BY <1>4, <1>5 DEF Good, CloserT, SameQueue
<1>7. Good(v)
  BY <1>2, <1>6, SameQueueKept
<1>8. Right(U, v) /\ Grows(U, t, v) /\ \A at : Settled(U, v, at) <=> Settled(U, t, at)
  BY <1>2, <1>6, SameQueueRight
<1>9. Grows(U, c, v) /\ AllSettled(U, v)
  BY <1>2, <1>8, GrowsFurther DEF AllSettled
<1>10. InHand(U, v)
  BY <1>6 DEF InHand
<1>11. CASE c.held = NoBar
  <2>1. u = v
    BY <1>4, <1>5, <1>11 DEF Good, CloserT
  <2>2. Finished(c, end) = v
    BY <1>1, <1>3, <1>4, <1>11, <2>1 DEF Finished
  <2> QED BY <2>2, <1>6, <1>7, <1>8, <1>9, <1>10, <1>11 DEF FinishesRight
<1>12. CASE c.held # NoBar
  <2>1. PICK bar : bar = c.held
    OBVIOUS
  <2>2. bar \in BarT /\ Traded(bar.at)
    BY <2>1, <1>12, CloserFields DEF Good, InHand
  <2>3. Follows(U, v, bar)
    <3>1. \A at \in Boundaries : at < bar.at => Closed(at)
      BY <2>2, BarClosesBefore DEF Traded
    <3> QED BY <3>1, <1>9 DEF Follows, AllSettled
  <2>4. PICK e : e = OnUpdate(v, bar)
    OBVIOUS
  <2>5. UpdatesRight(U, v, bar, e)
    BY <2>2, <2>3, <2>4, <1>6, <1>7, <1>8, <1>10, UpdateRight
  <2>6. Finished(c, end) = e
    BY <1>1, <1>3, <1>4, <1>5, <1>12, <2>1, <2>4 DEF Finished
  <2>7. Grows(U, c, e) /\ AllSettled(U, e)
    <3>1. Grows(U, v, e)
      BY <2>5 DEF UpdatesRight
    <3> QED BY <3>1, <1>9, GrowsFurther DEF AllSettled, Grows
  <2> QED BY <2>1, <2>5, <2>6, <2>7, <1>6, <1>12 DEF FinishesRight, UpdatesRight
<1> QED BY <1>11, <1>12

\* A range that is asked for ends at a closed boundary, and begins where what is out ends.
Gapless(c, task) ==
    /\ c.phase = Offset /\ Closed(task.end) /\ OnGrid(task.end)
    /\ \/ task.start <= Floor
       \/ LastEmitted(c) # -1 /\ task.start <= LastEmitted(c) + Period

\* A backfill that is begun asks for the range it needs, or needs none, or has no connection.
BeginsRight(U, c, r) ==
    /\ ~c.blind
    /\ Good(r.closer) /\ Right(U, r.closer) /\ Grows(U, c, r.closer)
    /\ r.closer.current = NoBar /\ r.closer.held = NoBar /\ r.closer.closed = c.closed
    /\ \/ r.task.pc = "none" /\ AllSettled(U, r.closer)
       \/ r.task.pc = "none" /\ ~Accepting
       \/ r.task.pc = "range" /\ Gapless(r.closer, r.task)

\* Boundaries before the one that follows the last bar out are covered.
LEMMA CoveredBefore ==
    ASSUME NEW c, Good(c), LastEmitted(c) # -1, NEW at \in Boundaries, at < LastEmitted(c) + Period
    PROVE  IsCovered(c, at)
<1>1. PICK l : l = LastEmitted(c)
  OBVIOUS
<1>2. l \in Boundaries
  BY <1>1, LastIsInt
<1>3. OnGrid(l) /\ OnGrid(at)
  BY <1>2, BoundaryOnGrid
<1>4. l \in Int /\ at \in Int /\ (l < at => l + Period <= at)
  BY <1>3, GridStep
<1>5. at <= l
  BY <1>1, <1>4, Numbers
<1> QED BY <1>1, <1>5 DEF IsCovered

LEMMA BegunRight ==
    ASSUME trades \in [Boundaries -> Nat], now \in Nat,
           \A at \in Boundaries : trades[at] > 0 => at <= now,
           NEW U, NEW c, Good(c), Right(U, c), ~c.closed, ~Begun(c).closer.blind
    PROVE  BeginsRight(U, c, Begun(c))
<1>1. PICK g, h, end :
              /\ end \in Int
              /\ HeldAs(c, g, h) /\ end = LastClosedBoundary(h)
              /\ \/ /\ StartOf(h) > end
                    /\ Begun(c) = [closer |-> Finished(h, end), task |-> NoBackfill]
                 \/ /\ StartOf(h) <= end /\ ~Accepting
                    /\ Begun(c) = [closer |-> Unhold(h), task |-> NoBackfill]
                 \/ /\ StartOf(h) <= end /\ Accepting
                    /\ Begun(c) = [closer |-> h,
                                   task |-> [pc |-> "range", start |-> StartOf(h), end |-> end, until |-> 0]]
  BY BegunCases
<1>2. /\ SameQueue(c, g) /\ Good(g) /\ Good(h) /\ Emits(g, h)
      /\ h.current = NoBar /\ h.held = NoBar /\ h.closed = c.closed
      /\ h.blind = (c.blind \/ c.phase = -1) /\ h.phase = c.phase
  BY <1>1 DEF HeldAs, SameQueue, Emits, SameRest
<1>3. Right(U, g) /\ Grows(U, c, g)
  BY <1>2, SameQueueRight
<1>4. Right(U, h) /\ Grows(U, c, h)
  BY <1>2, <1>3, EmitRight, GrowsFurther
<1>5. PICK r : r = Begun(c)
  OBVIOUS
<1>6. InHand(U, h)
  BY <1>2 DEF InHand
<1>7. h.phase = Offset /\ h.phase # -1 /\ ~c.blind
      => OnGrid(end) /\ Closed(end)
  <2> SUFFICES ASSUME h.phase # -1
               PROVE  OnGrid(end) /\ Closed(end)
    OBVIOUS
  <2>1. end = Forming(now) - Period
    BY <1>1, <1>2, FloorForms DEF LastClosedBoundary
  <2>2. OnGrid(end)
    <3>1. PICK f : f = Forming(now)
      OBVIOUS
    <3>2. OnGrid(f)
      BY <3>1, FormingOnGrid
    <3> QED BY <2>1, <3>1, <3>2, GridStep
  <2> QED BY <2>1, <2>2, <1>1, ClosedOnGrid
<1>8. ~h.blind => h.phase = Offset /\ h.phase # -1 /\ ~c.blind
  <2>1. c.phase \in {-1, Offset} /\ c.blind \in BOOLEAN
    BY CloserFields DEF Good
  <2> QED BY <2>1, <1>2
<1>9. /\ StartOf(h) \in Int
      /\ \/ StartOf(h) <= Floor
         \/ LastEmitted(h) # -1 /\ StartOf(h) = LastEmitted(h) + Period
  BY <1>2, StartIsInt
<1>10. CASE StartOf(h) > end /\ r = [closer |-> Finished(h, end), task |-> NoBackfill]
  <2>1. PICK e : e = Finished(h, end)
    OBVIOUS
  <2>2. r.closer = e /\ r.task.pc = "none"
    BY <2>1, <1>10, NoTask
  <2>3. SettledTo(U, h, end)
    <3> SUFFICES ASSUME NEW at \in Boundaries, trades[at] > 0, at < end
                 PROVE  IsCovered(h, at)
      BY DEF SettledTo, Settled
    <3>1. at \in Int /\ at >= Floor /\ Floor \in Int
      BY Numbers
    <3>2. LastEmitted(h) # -1 /\ StartOf(h) = LastEmitted(h) + Period
      BY <3>1, <1>1, <1>9, <1>10
    <3>3. at < LastEmitted(h) + Period
      BY <3>1, <3>2, <1>1, <1>9, <1>10
    <3> QED BY <3>2, <3>3, <1>2, CoveredBefore
  <2>4. e.blind = h.blind
    BY <2>1, <1>1, <1>2, FinishedKept
  <2>5. h.phase = Offset /\ h.phase # -1 /\ ~c.blind
    BY <2>2, <2>4, <1>5, <1>8
  <2>6. FinishesRight(U, h, e)
    BY <2>1, <2>3, <2>5, <1>2, <1>4, <1>6, <1>7, FinishedRight
  <2>7. Grows(U, c, e)
    BY <2>6, <1>4, GrowsFurther DEF FinishesRight
  <2> QED BY <2>2, <2>5, <2>6, <2>7, <1>2, <1>5 DEF FinishesRight, BeginsRight
<1>11. CASE ~Accepting /\ r = [closer |-> Unhold(h), task |-> NoBackfill]
  <2>1. PICK u : u = Unhold(h)
    OBVIOUS
  <2>2. r.closer = u /\ r.task.pc = "none"
    BY <2>1, <1>11, NoTask
  <2>3. /\ SameQueue(h, u) /\ Good(u) /\ u.current = NoBar /\ u.held = NoBar /\ u.blind = h.blind
        /\ u.closed = c.closed
    BY <2>1, <1>2, UnholdKept DEF Kept
  <2>4. Right(U, u) /\ Grows(U, c, u)
    BY <2>3, <1>2, <1>4, SameQueueRight, GrowsFurther
  <2> QED BY <2>2, <2>3, <2>4, <1>5, <1>8, <1>11 DEF BeginsRight
<1>12. CASE r = [closer |-> h,
                 task |-> [pc |-> "range", start |-> StartOf(h), end |-> end, until |-> 0]]
  <2>1. PICK t : t = [pc |-> "range", start |-> StartOf(h), end |-> end, until |-> 0]
    OBVIOUS
  <2>2. r.closer = h /\ r.task = t /\ t.pc = "range" /\ t.start = StartOf(h) /\ t.end = end
    BY <2>1, <1>12
  <2>3. h.phase = Offset /\ h.phase # -1 /\ ~c.blind
    BY <2>2, <1>5, <1>8
  <2>4. StartOf(h) <= Floor \/ (LastEmitted(h) # -1 /\ StartOf(h) <= LastEmitted(h) + Period)
    BY <1>9
  <2>5. Gapless(r.closer, r.task)
    BY <2>2, <2>3, <2>4, <1>7 DEF Gapless
  <2> QED BY <2>2, <2>3, <2>5, <1>2, <1>4, <1>5 DEF BeginsRight
<1> QED BY <1>1, <1>5, <1>10, <1>11, <1>12

\* The closer d has a range settled up to its end, and holds the stream as c does.
DrainsRight(U, c, d, end) ==
    /\ Good(d) /\ Right(U, d) /\ Grows(U, c, d) /\ SettledTo(U, d, end)
    /\ d.phase = Offset /\ d.current = c.current /\ d.held = c.held /\ d.holding = c.holding
    /\ d.baseline = c.baseline /\ d.blind = c.blind /\ d.closed = c.closed

LEMMA RangeRight ==
    ASSUME StateShape, RangeServes, ~closer.closed,
           \A at \in Boundaries : trades[at] > 0 => at <= now,
           NEW U, Right(U, closer), InHand(U, closer), closer.current = NoBar,
           Gapless(closer, backfill)
    PROVE  \/ FinishesRight(U, closer, closer') /\ backfill' = NoBackfill
           \/ /\ DrainsRight(U, closer, closer', backfill.end)
              /\ backfill' \in TaskT /\ backfill'.pc = "draining" /\ backfill'.end = backfill.end
<1>1. Good(closer) /\ now \in Nat /\ trades \in [Boundaries -> Nat] /\ backfill \in TaskT
  BY DEF StateShape
<1>2. PICK found, seen, c : Serves(found, seen, c) /\ Good(c) /\ SameRest(seen, c)
  BY RangeCases
<1>3. PICK end, start : end = backfill.end /\ start = backfill.start
  OBVIOUS
<1>4. end \in Int /\ start \in Int /\ Closed(end) /\ OnGrid(end)
  BY <1>1, <1>3 DEF TaskT, Gapless
<1>5. PICK bars : bars = [b \in found |-> VenueBar(b)]
  OBVIOUS
<1>6. /\ found \subseteq Boundaries /\ \A b \in found : trades[b] > 0 /\ b <= end /\ bars[b] = VenueBar(b)
      /\ \A b \in Boundaries : trades[b] > 0 /\ start <= b /\ b < end => b \in found
      /\ Arrivals(found, bars)
      /\ SameQueue(closer, seen) /\ seen.current = closer.current /\ seen.held = closer.held
      /\ seen.holding = closer.holding /\ seen.baseline = closer.baseline
      /\ seen.blind = closer.blind /\ seen.closed = closer.closed /\ seen.phase = Offset
      /\ c = Enqueue(seen, found, bars, FALSE)
  BY <1>2, <1>3, <1>5 DEF Serves, SameQueue, Gapless
<1>7. Good(seen) /\ LastEmitted(seen) = LastEmitted(closer)
  BY <1>1, <1>6, SameQueueKept
<1>8. Right(U, seen) /\ Grows(U, closer, seen)
  BY <1>1, <1>6, SameQueueRight
<1>9. PICK d : Good(d) /\ Queues(seen, d, found, bars, FALSE) /\ Good(c) /\ Emits(d, c)
  BY <1>6, <1>7, EnqueueQueues
<1>10. Grows(U, seen, d) /\ LastEmitted(d) = LastEmitted(seen)
  <2>1. Grows(U, seen, d)
    BY <1>7, <1>9, QueueGrows
  <2> QED BY <2>1, <1>9 DEF Queues, LastEmitted
<1>11. SettledTo(U, d, end)
  <2> SUFFICES ASSUME NEW b \in Boundaries, trades[b] > 0, b < end
               PROVE  Settled(U, d, b)
    BY DEF SettledTo
  <2>1. b \in Int /\ b >= Floor /\ Floor \in Int
    BY Numbers
  <2>2. CASE start <= b
    <3>1. b \in found
      BY <2>2, <1>6
    <3>2. IsCovered(seen, b) \/ IsQueued(d, b)
      BY <3>1, <2>1, <1>6, <1>9 DEF Queues
    <3> QED BY <3>2, <1>10 DEF IsCovered, Settled
  <2>3. CASE ~(start <= b)
    <3>1. b < start /\ ~(start <= Floor)
      BY <2>1, <2>3, <1>4
    <3>2. LastEmitted(seen) # -1 /\ start <= LastEmitted(seen) + Period /\ LastEmitted(seen) \in Int
      BY <3>1, <1>3, <1>7, LastIsInt DEF Gapless
    <3>3. b < LastEmitted(seen) + Period
      BY <3>1, <3>2, <2>1, <1>4, Numbers
    <3>4. IsCovered(seen, b)
      BY <3>2, <3>3, <1>7, CoveredBefore
    <3> QED BY <3>4, <1>10 DEF IsCovered, Settled
  <2> QED BY <2>2, <2>3
<1>12. Right(U, d)
  <2>1. \A b \in found : Closed(b) /\ SettledTo(U, d, b)
    <3> SUFFICES ASSUME NEW b \in found
                 PROVE  Closed(b) /\ SettledTo(U, d, b)
      OBVIOUS
    <3>1. b \in Int /\ b <= end
      BY <1>6, Numbers
    <3>2. Closed(b)
      BY <3>1, <1>1, <1>4, Numbers DEF Closed
    <3>3. \A a \in Boundaries : a < b => a < end
      BY <3>1, <1>4, Numbers
    <3> QED BY <3>2, <3>3, <1>11 DEF SettledTo
  <2>2. \A b \in found : Traded(b)
    BY <1>6 DEF Traded
  <2>3. \A b \in found : b >= Floor => Closed(b) /\ SettledTo(U, d, b)
    BY <2>1
  <2>4. \A b \in found : bars[b] # NoBar => Traded(b)
    BY <2>2
  <2>5. \A b \in found : bars[b] = VenueBar(b) \/ Settled(U, seen, b)
    BY <1>6
  <2>6. /\ Arrivals(found, bars) /\ Queues(seen, d, found, bars, FALSE)
        /\ Good(seen) /\ Good(d) /\ Right(U, seen) /\ trades \in [Boundaries -> Nat]
    BY <1>1, <1>6, <1>7, <1>8, <1>9
  <2> QED BY <2>3, <2>4, <2>5, <2>6, QueueRight
<1>13. Right(U, c) /\ Grows(U, d, c)
  BY <1>1, <1>9, <1>12, EmitRight
<1>14. Grows(U, closer, c) /\ SettledTo(U, c, end)
  BY <1>8, <1>10, <1>11, <1>13, GrowsFurther, SettledGrows
<1>15. DrainsRight(U, closer, c, end)
  BY <1>2, <1>6, <1>13, <1>14 DEF DrainsRight, SameRest
<1>16. CASE closer' = Finished(c, end) /\ backfill' = NoBackfill
  <2>1. PICK e : e = Finished(c, end)
    OBVIOUS
  <2>2. InHand(U, c)
    BY <1>15 DEF DrainsRight, InHand
  <2>3. c.phase # -1 /\ c.current = NoBar /\ ~c.closed
    BY <1>15, Numbers DEF DrainsRight
  <2>4. FinishesRight(U, c, e)
    BY <2>1, <2>2, <2>3, <1>1, <1>4, <1>9, <1>13, <1>14, FinishedRight
  <2>5. FinishesRight(U, closer, e)
    BY <2>4, <1>14, <1>15, GrowsFurther DEF FinishesRight, DrainsRight
  <2> QED BY <2>1, <2>5, <1>16
<1>17. CASE closer' = c /\ backfill' \in TaskT /\ backfill'.pc = "draining" /\ backfill'.end = end
  BY <1>3, <1>15, <1>17
<1> QED BY <1>2, <1>3, <1>16, <1>17 DEF Serves

-----------------------------------------------------------------------------
(* No bar is missed: step by step *)

\* While the venue and the clock stand still, what is said of the next closer is said of it now.
LEMMA SameVenue ==
    ASSUME UNCHANGED venueVars
    PROVE  /\ Right(unserved, closer)' <=> Right(unserved', closer')
           /\ InHand(unserved, closer)' <=> InHand(unserved', closer')
           /\ AllSettled(unserved, closer)' <=> AllSettled(unserved', closer')
           /\ \A b : SettledTo(unserved, closer, b)' <=> SettledTo(unserved', closer', b)
           /\ \A at : Closed(at)' <=> Closed(at)
           /\ \A at : Traded(at)' <=> Traded(at)
           /\ \A at : VenueBar(at)' = VenueBar(at)
<1>1. now' = now /\ trades' = trades
  BY DEF venueVars
<1>2. /\ \A at : Closed(at)' <=> Closed(at)
      /\ \A at : Traded(at)' <=> Traded(at)
      /\ \A at : VenueBar(at)' = VenueBar(at)
  BY <1>1 DEF Closed, Traded, VenueBar
<1>3. \A b : SettledTo(unserved, closer, b)' <=> SettledTo(unserved', closer', b)
  BY <1>1 DEF SettledTo
<1>4. AllSettled(unserved, closer)' <=> AllSettled(unserved', closer')
  BY <1>1, <1>2 DEF AllSettled
<1>5. InHand(unserved, closer)' <=> InHand(unserved', closer')
  BY <1>2, <1>3 DEF InHand
<1>6. Right(unserved, closer)' <=> Right(unserved', closer')
  BY <1>1, <1>2, <1>3 DEF Right
<1> QED BY <1>2, <1>3, <1>4, <1>5, <1>6

\* What is settled for c, by those U, is settled for d by those V.
Keeps(U, c, V, d) ==
    \A at \in Boundaries : trades[at] > 0 /\ Settled(U, c, at) => Settled(V, d, at)

\* The closer moves on by itself: nothing else changes, and what it has in hand stays there or
\* is settled.
LEMMA CloserMoves ==
    ASSUME CloserInv, Sound, UNCHANGED <<venueVars, linkVars, wire, backfill, owes>>,
           NEW U, NEW V, NEW c, NEW d, c = closer, d = closer', U = unserved, V = unserved',
           Good(d), Right(V, d), Keeps(U, c, V, d), LastEmitted(c) <= LastEmitted(d),
           d.phase = c.phase, d.held = c.held, d.current \in {c.current, NoBar},
           d.current # c.current => Past(V, d, c.current.at),
           d.holding \/ d.baseline => d.current = NoBar
    PROVE  Sound'
<1>1. /\ now' = now /\ trades' = trades /\ link' = link /\ streaming' = streaming /\ wire' = wire
      /\ backfill' = backfill /\ owes' = owes
  BY DEF venueVars, linkVars
<1>2. /\ Right(unserved, closer)' <=> Right(V, d)
      /\ InHand(unserved, closer)' <=> InHand(V, d)
      /\ \A b : SettledTo(unserved, closer, b)' <=> SettledTo(V, d, b)
      /\ \A at : Closed(at)' <=> Closed(at)
      /\ \A at : VenueBar(at)' = VenueBar(at)
  BY SameVenue
<1>3. Good(c) /\ Right(U, c) /\ InHand(U, c)
  BY DEF CloserInv, StateShape, Sound
<1>4. \A b : SettledTo(U, c, b) => SettledTo(V, d, b)
  BY DEF Keeps, SettledTo
<1>5. InHand(V, d)
  <2>1. c.held # NoBar => Traded(c.held.at)
    BY <1>3 DEF InHand
  <2>2. c.current # NoBar => Traded(c.current.at) /\ SettledTo(V, d, c.current.at)
    BY <1>3, <1>4 DEF InHand
  <2> QED BY <2>1, <2>2 DEF InHand
<1>6. BackfillInv'
  <2>1. BackfillInv
    BY DEF Sound
  <2>2. LastEmitted(c) # -1 => LastEmitted(d) # -1
    <3>1. LastEmitted(c) # -1 => LastEmitted(c) \in Boundaries
      BY <1>3, LastIsInt
    <3>2. \A b \in Boundaries : b \in Nat
      BY Numbers
    <3>3. LastEmitted(d) \in Int
      BY LastIsInt
    <3> QED BY <3>1, <3>2, <3>3
  <2>3. backfill.pc = "range" =>
          \/ backfill.start <= Floor
          \/ LastEmitted(d) # -1 /\ backfill.start <= LastEmitted(d) + Period
    <3>1. backfill.start \in Int /\ LastEmitted(c) \in Int /\ LastEmitted(d) \in Int
      BY <1>3, LastIsInt DEF CloserInv, StateShape, TaskT
    <3> QED BY <2>1, <2>2, <3>1, Numbers DEF BackfillInv
  <2>4. backfill.pc = "draining" => SettledTo(V, d, backfill.end)
    BY <2>1, <1>4 DEF BackfillInv
  <2>5. Running => d.phase = Offset /\ Closed(backfill.end) /\ OnGrid(backfill.end)
    BY <2>1 DEF BackfillInv
  <2>6. Running' <=> Running
    BY <1>1 DEF Running
  <2>7. SettledTo(unserved', closer', backfill.end) <=> SettledTo(V, d, backfill.end)
    OBVIOUS
  <2>8. backfill.pc = "draining" => SettledTo(unserved, closer, backfill.end)'
    BY <2>4, <2>7, <1>1, <1>2
  <2>9. Running' => closer'.phase = Offset /\ Closed(backfill.end)' /\ OnGrid(backfill.end)'
    BY <2>5, <2>6, <1>1, <1>2
  <2>10. backfill'.pc = "range" =>
          \/ backfill'.start <= Floor
          \/ LastEmitted(closer') # -1 /\ backfill'.start <= LastEmitted(closer') + Period
    BY <2>3, <1>1
  <2> QED BY <2>8, <2>9, <2>10, <1>1 DEF BackfillInv
<1>7. FormingInv'
  <2>1. FormingInv
    BY DEF Sound
  <2>2. ASSUME NEW at \in Boundaries, trades[at] > 0, ~Closed(at), VenueBar(at) \in {c.current, c.held}
        PROVE  VenueBar(at) \in {d.current, d.held}
    <3>1. VenueBar(at).at = at
      BY <2>2, VenueBars DEF CloserInv, StateShape
    <3>2. VenueBar(at) = c.current => d.current = c.current
      BY <2>2, <3>1 DEF Past
    <3> QED BY <2>2, <3>2
  <2>3. ASSUME NEW bar \in {d.current, d.held}, bar # NoBar, link = "ready"
        PROVE  Fresh(bar)'
    <3>1. bar \in {c.current, c.held} /\ Traded(bar.at)
      BY <2>3, <1>3 DEF InHand
    <3>2. Fresh(bar)
      BY <2>1, <2>3, <3>1 DEF FormingInv
    <3>3. bar.at \in Boundaries /\ trades[bar.at] > 0
      BY <3>1 DEF Traded
    <3>4. Settled(U, c, bar.at) => Settled(V, d, bar.at)
      BY <3>3 DEF Keeps
    <3>5. Settled(unserved, closer, bar.at) => Settled(unserved', closer', bar.at)
      BY <3>4
    <3> QED BY <3>2, <3>5, <1>1, <1>2 DEF Fresh
  <2>4. backfill.pc = "waiting" /\ link = "ready" => d.current = NoBar
    BY <2>1 DEF FormingInv
  <2>5. backfill.pc \in {"none", "waiting"} /\ link = "ready" => d.held = NoBar
    BY <2>1 DEF FormingInv
  <2>6. streaming =>
          \A at \in Boundaries : trades[at] > 0 =>
             \/ Closed(at) \/ VenueBar(at) \in ToSet(wire)
             \/ link = "ready" /\ VenueBar(at) \in {d.current, d.held}
    BY <2>1, <2>2 DEF FormingInv
  <2> QED BY <2>3, <2>4, <2>5, <2>6, <1>1, <1>2 DEF FormingInv
<1>8. GapInv'
  <2> SUFFICES ASSUME link = "ready", backfill.pc = "none", ~owes,
                      NEW at \in Boundaries, trades[at] > 0, Closed(at),
                      at # d.current.at, VenueBar(at) \notin ToSet(wire)
               PROVE  Settled(V, d, at)
    BY <1>1, <1>2 DEF GapInv
  <2>1. Settled(U, c, at) \/ at = c.current.at
    BY DEF Sound, GapInv
  <2>2. at = c.current.at => Settled(V, d, at)
    BY DEF Past
  <2> QED BY <2>1, <2>2 DEF Keeps
<1> QED BY <1>2, <1>5, <1>6, <1>7, <1>8 DEF Sound

LEMMA RightWider ==
    ASSUME NEW U, NEW V, U \subseteq V, NEW c
    PROVE  Keeps(U, c, V, c) /\ (Right(U, c) => Right(V, c))
<1>1. \A at : Settled(U, c, at) => Settled(V, c, at)
  BY DEF Settled
<1>2. \A b : SettledTo(U, c, b) => SettledTo(V, c, b)
  BY <1>1 DEF SettledTo
<1>3. Right(U, c) => Right(V, c)
  BY <1>2 DEF Right
<1> QED BY <1>1, <1>3 DEF Keeps

\* What the resolver does with its entry.
LEMMA ResolverRight ==
    ASSUME CloserInv, Sound, ResolverStarts \/ HistoryServes \/ HistoryLacks \/ ResolverWakes
    PROVE  Sound'
<1>1. Good(closer) /\ now \in Nat /\ closer \in CloserT /\ trades \in [Boundaries -> Nat]
  BY DEF CloserInv, StateShape, Good
<1>2. PICK U, V, c : U = unserved /\ V = unserved' /\ c = closer
  OBVIOUS
<1>3. Right(U, c) /\ InHand(U, c) /\ Good(c)
  BY <1>1, <1>2 DEF Sound
<1>4. UNCHANGED <<venueVars, linkVars, wire, backfill, owes>>
  BY DEF ResolverStarts, HistoryServes, HistoryLacks, ResolverWakes, taskVars
<1>5. c.resolver \in ResolverT
  BY <1>1, <1>2, CloserFields
<1>6. c.holding \/ c.baseline => c.current = NoBar
  BY <1>3 DEF InHand
<1>7. ASSUME NEW e, closer' = e, Good(e), NEW d, SameRest(c, d), Emits(d, e), Right(V, d), Good(d),
             LastEmitted(d) = LastEmitted(c), Keeps(U, c, V, d)
      PROVE  Sound'
  <2>1. Right(V, e) /\ Grows(V, d, e)
    BY <1>1, <1>7, EmitRight
  <2>2. Keeps(U, c, V, e)
    BY <2>1, <1>7 DEF Keeps, Grows
  <2>3. LastEmitted(c) <= LastEmitted(e)
    BY <1>7 DEF Emits
  <2>4. /\ e.phase = c.phase /\ e.held = c.held /\ e.current = c.current
        /\ e.holding = c.holding /\ e.baseline = c.baseline
    BY <1>7 DEF Emits, SameRest
  <2> QED BY <2>1, <2>2, <2>3, <2>4, <1>2, <1>4, <1>6, <1>7, CloserMoves
<1>8. ASSUME NEW e, closer' = e, Good(e), Emits(c, e), U = V
      PROVE  Sound'
  <2>1. SameRest(c, c) /\ Keeps(U, c, V, c)
    BY <1>8 DEF SameRest, Keeps
  <2> QED BY <2>1, <1>3, <1>7, <1>8
<1>9. ASSUME NEW bar \in BarT \cup {NoBar}, bar # NoBar => bar.at = c.resolver.at,
             closer' = ResolveOn(Resolved(c, bar)), U \subseteq V,
             c.resolver.at \in V \/ bar = VenueBar(c.resolver.at)
      PROVE  Sound'
  <2>1. PICK d, e : d = Resolved(c, bar) /\ e = ResolveOn(d)
    OBVIOUS
  <2>2. Good(d) /\ Resolves(c, d, bar)
    BY <2>1, <1>3, <1>9, ResolvedCases
  <2>3. Right(V, c) /\ Keeps(U, c, V, c)
    BY <1>3, <1>9, RightWider
  <2>4. Right(V, d) /\ Grows(V, c, d)
    BY <2>2, <2>3, <1>3, <1>9, ResolveRight
  <2>5. Good(e) /\ Emits(d, e)
    BY <2>1, <2>2, <1>1, ResolveOnEmits
  <2>6. SameRest(c, d) /\ LastEmitted(d) = LastEmitted(c)
    BY <2>2 DEF Resolves, LastEmitted
  <2>7. Keeps(U, c, V, d)
    BY <2>3, <2>4 DEF Keeps, Grows
  <2> QED BY <2>1, <2>2, <2>4, <2>5, <2>6, <2>7, <1>7, <1>9
<1>10. ASSUME NEW r, closer' = [closer EXCEPT !.resolver = r], r \in ResolverT, U = V
       PROVE  Sound'
  <2>1. /\ closer' \in CloserT /\ closer'.queue = closer.queue /\ closer'.emitted = closer.emitted
        /\ SameRest(closer, closer')
    BY <1>1, <1>10 DEF CloserT, SameRest
  <2>2. Good(closer') /\ Emits(closer, closer')
    BY <2>1, <1>1, EmitsNothing, EmitsStill
  <2> QED BY <2>2, <1>2, <1>8, <1>10
<1>11. CASE ResolverStarts
  <2>1. closer' = ResolveOn(c) /\ U = V
    BY <1>2, <1>11 DEF ResolverStarts
  <2>2. Good(ResolveOn(c)) /\ Emits(c, ResolveOn(c))
    BY <1>1, <1>3, ResolveOnEmits
  <2> QED BY <2>1, <2>2, <1>8
<1>12. CASE HistoryServes
  <2>1. PICK bar : bar = VenueBar(c.resolver.at)
    OBVIOUS
  <2>2. bar # NoBar /\ closer' = ResolveOn(Resolved(c, bar)) /\ U = V
    BY <2>1, <1>2, <1>12 DEF HistoryServes
  <2>3. bar \in BarT /\ bar.at = c.resolver.at
    BY <2>1, <2>2, <1>1 DEF VenueBar, BarT
  <2> QED BY <2>1, <2>2, <2>3, <1>9
<1>13. CASE HistoryLacks
  <2>1. CASE /\ closer.resolver.attempt < Retries /\ UNCHANGED unserved
             /\ closer' = [closer EXCEPT !.resolver.pc = "sleeping", !.resolver.attempt = @ + 1,
                                         !.resolver.wake = now + Grace]
    <3>1. PICK r : r = [c.resolver EXCEPT !.pc = "sleeping", !.attempt = @ + 1, !.wake = now + Grace]
      OBVIOUS
    <3>2. now + Grace \in Nat /\ c.resolver.attempt + 1 \in Nat
      BY <1>1, <1>5, Numbers DEF ResolverT
    <3>3. r \in ResolverT
      BY <3>1, <3>2, <1>5 DEF ResolverT
    <3>4. closer' = [closer EXCEPT !.resolver = r]
      BY <2>1, <3>1, <1>1, <1>2 DEF CloserT
    <3> QED BY <2>1, <3>3, <3>4, <1>2, <1>10
  <2>2. CASE /\ unserved' = unserved \cup {closer.resolver.at}
             /\ \E bar \in {p.streamed : p \in {q \in ToSet(closer.queue) : q.at = closer.resolver.at}} :
                  closer' = ResolveOn(Resolved(closer, bar))
    <3>1. PICK p \in ToSet(c.queue) : /\ p.at = c.resolver.at
                                      /\ closer' = ResolveOn(Resolved(c, p.streamed))
      BY <2>2, <1>2
    <3>2. p \in EntryT /\ (p.streamed # NoBar => p.streamed.at = p.at)
      BY <1>3, QueueEntries
    <3>3. p.streamed \in BarT \cup {NoBar}
      BY <3>2, EntryFields
    <3>4. U \subseteq V /\ c.resolver.at \in V
      BY <2>2, <1>2
    <3> QED BY <3>1, <3>2, <3>3, <3>4, <1>9
  <2> QED BY <2>1, <2>2, <1>13 DEF HistoryLacks
<1>14. CASE ResolverWakes
  <2>1. CASE Accepting
    <3>1. PICK r : r = [c.resolver EXCEPT !.pc = "asking", !.wake = 0]
      OBVIOUS
    <3>2. r \in ResolverT
      BY <3>1, <1>5 DEF ResolverT
    <3>3. closer' = [closer EXCEPT !.resolver = r] /\ U = V
      BY <2>1, <3>1, <1>1, <1>2, <1>14 DEF CloserT, ResolverWakes
    <3> QED BY <3>2, <3>3, <1>10
  <2>2. CASE ~Accepting
    <3>1. Idle \in ResolverT
      BY DEF Idle, ResolverT
    <3>2. closer' = [closer EXCEPT !.resolver = Idle] /\ U = V
      BY <2>2, <1>2, <1>14 DEF ResolverWakes
    <3> QED BY <3>1, <3>2, <1>10
  <2> QED BY <2>1, <2>2
<1> QED BY <1>11, <1>12, <1>13, <1>14

\* The timer queues the bar in hand.
LEMMA TimerRight ==
    ASSUME CloserInv, Sound, TimerFires, ~closer.closed
    PROVE  Sound'
<1>1. Good(closer) /\ now \in Nat /\ closer \in CloserT /\ trades \in [Boundaries -> Nat]
  BY DEF CloserInv, StateShape, Good
<1>2. PICK U, V, c, e : U = unserved /\ V = unserved' /\ c = closer /\ e = closer'
  OBVIOUS
<1>3. PICK bar, d : bar = c.current /\ d = [c EXCEPT !.current = NoBar]
  OBVIOUS
<1>4. /\ bar # NoBar /\ now >= bar.at + Period + Grace /\ e = EnqueueOne(d, bar, TRUE)
      /\ UNCHANGED <<venueVars, linkVars, wire, backfill, owes>> /\ U = V
  BY <1>2, <1>3 DEF TimerFires, taskVars
<1>5. bar \in BarT /\ Traded(bar.at) /\ SettledTo(U, c, bar.at) /\ Right(U, c)
  BY <1>1, <1>2, <1>3, <1>4, CloserFields DEF Sound, InHand
<1>6. /\ SameQueue(c, d) /\ d.current = NoBar /\ d.held = c.held /\ d.phase = c.phase
      /\ d.closed = c.closed
  BY <1>1, <1>2, <1>3 DEF CloserT, SameQueue
<1>7. Good(d) /\ LastEmitted(d) = LastEmitted(c)
  BY <1>1, <1>2, <1>6, SameQueueKept
<1>8. Right(U, d) /\ Grows(U, c, d) /\ SettledTo(U, d, bar.at)
  BY <1>1, <1>2, <1>5, <1>6, SameQueueRight
<1>9. Closed(bar.at)
  <2>1. bar.at \in Nat
    BY <1>5, BarFields
  <2> QED BY <2>1, <1>1, <1>4, Numbers DEF Closed
<1>10. /\ Good(e) /\ SameRest(d, e) /\ Right(U, e) /\ Grows(U, d, e)
       /\ Settled(U, e, bar.at) /\ LastEmitted(d) <= LastEmitted(e)
  BY <1>1, <1>2, <1>4, <1>5, <1>6, <1>7, <1>8, <1>9, EnqueueOneRight
<1>11. Keeps(U, c, V, e)
  BY <1>4, <1>8, <1>10 DEF Keeps, Grows
<1>12. e.current = NoBar /\ e.held = c.held /\ e.phase = c.phase /\ Past(V, e, c.current.at)
  BY <1>3, <1>4, <1>6, <1>9, <1>10 DEF SameRest, Past
<1> QED BY <1>2, <1>4, <1>7, <1>10, <1>11, <1>12, CloserMoves

\* A backfill that is done takes the stream up again.
LEMMA FinishMoves ==
    ASSUME CloserInv, Sound, UNCHANGED <<venueVars, linkVars, wire, owes, unserved>>,
           FinishesRight(unserved, closer, closer'), closer.current = NoBar, backfill' = NoBackfill
    PROVE  Sound'
<1>1. PICK U, c, e : U = unserved /\ c = closer /\ e = closer'
  OBVIOUS
<1>2. /\ now' = now /\ trades' = trades /\ link' = link /\ streaming' = streaming /\ wire' = wire
      /\ owes' = owes /\ unserved' = U /\ backfill'.pc = "none"
  BY <1>1, NoTask DEF venueVars, linkVars
<1>3. /\ Right(unserved, closer)' <=> Right(U, e)
      /\ InHand(unserved, closer)' <=> InHand(U, e)
      /\ \A at : Closed(at)' <=> Closed(at)
      /\ \A at : VenueBar(at)' = VenueBar(at)
  BY <1>1, <1>2, SameVenue
<1>4. /\ Good(e) /\ Right(U, e) /\ Grows(U, c, e) /\ InHand(U, e) /\ AllSettled(U, e) /\ e.held = NoBar
      /\ \/ c.held = NoBar /\ e.current = NoBar
         \/ c.held # NoBar /\ e.current = c.held
         \/ c.held # NoBar /\ e.current = NoBar /\ Past(U, e, c.held.at)
  BY <1>1 DEF FinishesRight
<1>5. trades \in [Boundaries -> Nat]
  BY DEF CloserInv, StateShape
<1>6. FormingInv /\ InHand(U, c)
  BY <1>1 DEF Sound
<1>7. BackfillInv'
  BY <1>2 DEF BackfillInv, Running
<1>8. FormingInv'
  <2>1. ASSUME NEW at \in Boundaries, trades[at] > 0, ~Closed(at), VenueBar(at) \in {c.current, c.held}
        PROVE  VenueBar(at) = e.current
    <3>1. VenueBar(at) # NoBar /\ VenueBar(at).at = at
      BY <2>1, <1>5, VenueBars
    <3>2. VenueBar(at) = c.held
      BY <2>1, <3>1, <1>1
    <3> QED BY <2>1, <3>1, <3>2, <1>4 DEF Past
  <2>2. ASSUME link = "ready", e.current # NoBar
        PROVE  Fresh(e.current)'
    <3>1. e.current = c.held /\ c.held # NoBar
      BY <2>2, <1>4
    <3>2. PICK bar : bar = c.held
      OBVIOUS
    <3>3. Fresh(bar)
      BY <2>2, <3>1, <3>2, <1>1, <1>6 DEF FormingInv
    <3>4. bar.at \in Boundaries /\ trades[bar.at] > 0
      BY <3>1, <3>2, <1>6 DEF InHand, Traded
    <3>5. Settled(unserved, closer, bar.at) => Settled(unserved', closer', bar.at)
      BY <3>4, <1>1, <1>2, <1>4 DEF Grows
    <3>6. bar = closer'.current
      BY <3>1, <3>2, <1>1
    <3>7. Fresh(bar)'
      BY <3>3, <3>5, <1>2, <1>3 DEF Fresh
    <3> QED BY <3>6, <3>7, <1>1 DEF Fresh
  <2>3. streaming =>
          \A at \in Boundaries : trades[at] > 0 =>
             \/ Closed(at) \/ VenueBar(at) \in ToSet(wire)
             \/ link = "ready" /\ VenueBar(at) = e.current
    BY <2>1, <1>1, <1>6 DEF FormingInv
  <2>4. closer'.held = NoBar /\ closer'.current = e.current
    BY <1>1, <1>4
  <2>5. link = "ready" => \A bar \in {closer'.current, closer'.held} : bar # NoBar => Fresh(bar)'
    <3> SUFFICES ASSUME link = "ready", NEW bar \in {closer'.current, closer'.held}, bar # NoBar
                 PROVE  Fresh(bar)'
      OBVIOUS
    <3>1. bar = e.current
      BY <2>4
    <3> QED BY <3>1, <2>2, <1>1 DEF Fresh
  <2> QED BY <2>3, <2>4, <2>5, <1>2, <1>3 DEF FormingInv
<1>9. GapInv'
  BY <1>1, <1>2, <1>3, <1>4 DEF GapInv, AllSettled
<1> QED BY <1>3, <1>4, <1>7, <1>8, <1>9 DEF Sound

\* While a backfill runs it holds the stream, and no bar forms.
LEMMA HeldWhileRunning ==
    ASSUME CloserInv, Sound, ~closer.closed, Running \/ unwinding
    PROVE  closer.holding = TRUE /\ closer.current = NoBar
<1>1. closer.holding = TRUE
  <2>1. closer.holding \in BOOLEAN
    BY CloserFields DEF CloserInv, StateShape, Good
  <2> QED BY <2>1 DEF CloserInv, NothingStuck, HoldingHasTask, Running
<1> QED BY <1>1 DEF Sound, InHand

LEMMA DrainEndsRight ==
    ASSUME CloserInv, WireInv, Sound, DrainEnds
    PROVE  Sound'
<1>1. /\ backfill.pc = "draining" /\ closer' = Finished(closer, backfill.end) /\ backfill' = NoBackfill
      /\ UNCHANGED <<venueVars, linkVars, wire, owes, unserved>>
  BY DEF DrainEnds
<1>2. ~closer.closed /\ Running
  BY <1>1 DEF CloserInv, TaskShape, Running
<1>3. closer.current = NoBar
  BY <1>2, HeldWhileRunning
<1>4. /\ closer.phase = Offset /\ Closed(backfill.end) /\ OnGrid(backfill.end)
      /\ SettledTo(unserved, closer, backfill.end)
  BY <1>1, <1>2 DEF Sound, BackfillInv
<1>5. Good(closer) /\ now \in Nat /\ trades \in [Boundaries -> Nat]
  BY DEF CloserInv, StateShape
<1>6. closer.phase # -1
  BY <1>4, Numbers
<1>7. \A at \in Boundaries : trades[at] > 0 => at <= now
  BY DEF WireInv
<1>8. PICK e : e = Finished(closer, backfill.end)
  OBVIOUS
<1>9. FinishesRight(unserved, closer, e)
  BY <1>2, <1>3, <1>4, <1>5, <1>6, <1>7, <1>8, FinishedRight DEF Sound
<1> QED BY <1>1, <1>3, <1>8, <1>9, FinishMoves

LEMMA UnwindsRight ==
    ASSUME CloserInv, Sound, Unwinds, ~closer.closed
    PROVE  Sound'
<1>1. /\ unwinding /\ closer' = Unhold(closer)
      /\ UNCHANGED <<venueVars, linkVars, wire, backfill, owes, unserved>>
  BY DEF Unwinds
<1>2. PICK U, c, d : U = unserved /\ c = closer /\ d = closer'
  OBVIOUS
<1>3. Good(c) /\ Right(U, c) /\ c.current = NoBar
  BY <1>1, <1>2, HeldWhileRunning DEF CloserInv, StateShape, Sound
<1>4. SameQueue(c, d) /\ d.current = c.current /\ d.held = c.held /\ d.phase = c.phase
  BY <1>1, <1>2, <1>3, UnholdKept
<1>5. Good(d) /\ LastEmitted(d) = LastEmitted(c) /\ LastEmitted(c) \in Int
  BY <1>3, <1>4, SameQueueKept, LastIsInt
<1>6. Right(U, d) /\ Keeps(U, c, U, d)
  BY <1>3, <1>4, SameQueueRight DEF Keeps
<1>7. LastEmitted(c) <= LastEmitted(d)
  BY <1>5
<1> QED BY <1>1, <1>2, <1>3, <1>4, <1>5, <1>6, <1>7, CloserMoves

-----------------------------------------------------------------------------
(* No bar is missed: the venue's side *)

\* What the venue sends first is the newest bar it has, the only one that may not be closed.
LEMMA FirstIsNewest ==
    ASSUME trades \in [Boundaries -> Nat], now \in Nat,
           \A at \in Boundaries : trades[at] > 0 => at <= now
    PROVE  /\ FirstUpdate \in Seq(BarT)
           /\ FirstUpdate # <<>> =>
                 /\ Len(FirstUpdate) = 1 /\ Traded(FirstUpdate[1].at)
                 /\ FirstUpdate[1] = VenueBar(FirstUpdate[1].at)
                 /\ \A at \in Boundaries : trades[at] > 0 => at <= FirstUpdate[1].at
           /\ \A at \in Boundaries :
                 trades[at] > 0 => Closed(at) \/ VenueBar(at) \in ToSet(FirstUpdate)
<1>1. PICK traded : traded = {b \in Boundaries : trades[b] > 0}
  OBVIOUS
<1>2. PICK f : f = FirstUpdate
  OBVIOUS
<1>3. CASE traded = {}
  <2>1. f = <<>>
    BY <1>1, <1>2, <1>3 DEF FirstUpdate
  <2>2. \A at \in Boundaries : ~(trades[at] > 0)
    BY <1>1, <1>3
  <2> QED BY <2>1, <2>2, <1>2, EmptySeq
<1>4. CASE traded # {}
  <2>1. PICK m : m = Max(traded)
    OBVIOUS
  <2>2. m \in traded /\ \A b \in traded : b <= m
    <3>1. traded \subseteq Nat
      BY <1>1, Numbers
    <3>2. \A b \in traded : b <= now
      BY <1>1
    <3> QED BY <3>1, <3>2, <2>1, <1>4, Greatest
  <2>3. PICK bar : bar = VenueBar(m)
    OBVIOUS
  <2>4. bar \in BarT /\ bar.at = m /\ m \in Boundaries /\ trades[m] > 0
    BY <2>2, <2>3, <1>1, VenueBars
  <2>5. f = <<bar>>
    BY <2>1, <2>3, <1>1, <1>2, <1>4 DEF FirstUpdate
  <2>6. f \in Seq(BarT) /\ Len(f) = 1 /\ f[1] = bar /\ bar \in ToSet(f)
    BY <2>4, <2>5 DEF ToSet
  <2>7. ASSUME NEW at \in Boundaries, trades[at] > 0
        PROVE  at <= m /\ (Closed(at) \/ VenueBar(at) \in ToSet(f))
    <3>1. at <= m
      BY <2>2, <2>7, <1>1
    <3>2. CASE at = m
      BY <3>1, <3>2, <2>3, <2>6
    <3>3. CASE at # m
      <4>1. at < m /\ m <= now
        BY <3>1, <3>3, <2>4, Numbers
      <4>2. Closed(at)
        BY <4>1, <2>4, BarClosesBefore
      <4> QED BY <3>1, <4>2
    <3> QED BY <3>2, <3>3
  <2> QED BY <2>3, <2>4, <2>6, <2>7, <1>2 DEF Traded
<1> QED BY <1>3, <1>4

\* What the wire carries, and what owes a backfill, whatever the step.
LEMMA WireStep == CloserInv /\ WireInv /\ [Next]_vars => WireInv'
<1> SUFFICES ASSUME CloserInv, WireInv, [Next]_vars
             PROVE  WireInv'
  OBVIOUS
<1>1. /\ now \in Nat /\ trades \in [Boundaries -> Nat] /\ wire \in Seq(BarT)
      /\ link \in {"down", "up", "restored", "ready"}
      /\ {streaming, owes, barsFailed} \subseteq BOOLEAN
  BY DEF CloserInv, StateShape
<1>2. /\ \A at \in Boundaries : trades[at] > 0 => at <= now
      /\ wire # <<>> =>
            /\ Len(wire) = 1 /\ Traded(wire[1].at) /\ wire[1] = VenueBar(wire[1].at)
            /\ \A at \in Boundaries : trades[at] > 0 => at <= wire[1].at
            /\ streaming
      /\ streaming => link \in {"restored", "ready"}
      /\ link = "ready" /\ ~streaming => owes
      /\ link \in {"restored", "ready"} /\ ~streaming => barsFailed
  BY DEF WireInv
<1>3. UNCHANGED venueVars
      => /\ now' = now /\ trades' = trades
         /\ \A at : (Traded(at)' <=> Traded(at)) /\ VenueBar(at)' = VenueBar(at)
  BY SameVenue DEF venueVars
<1>4. ASSUME UNCHANGED venueVars, wire' \in {wire, <<>>}, streaming' = streaming \/ wire' = <<>>,
             streaming' => link' \in {"restored", "ready"},
             link' = "ready" /\ ~streaming' => owes',
             link' \in {"restored", "ready"} /\ ~streaming' => barsFailed'
      PROVE  WireInv'
  <2>1. wire' # <<>> => wire' = wire /\ streaming' = streaming
    BY <1>4
  <2>2. now' = now /\ trades' = trades
    BY <1>3, <1>4
  <2>3. wire' # <<>> =>
            /\ Len(wire') = 1 /\ Traded(wire'[1].at) /\ wire'[1] = VenueBar(wire'[1].at)
            /\ \A at \in Boundaries : trades[at] > 0 => at <= wire'[1].at
            /\ streaming'
    BY <2>1, <1>2
  <2> QED BY <2>2, <2>3, <1>2, <1>4 DEF WireInv, Traded, VenueBar
<1>5. ASSUME UNCHANGED venueVars, wire' = FirstUpdate, streaming' = TRUE,
             link' \in {"restored", "ready"}
      PROVE  WireInv'
  <2>1. FirstUpdate # <<>> =>
                 /\ Len(FirstUpdate) = 1 /\ Traded(FirstUpdate[1].at)
                 /\ FirstUpdate[1] = VenueBar(FirstUpdate[1].at)
                 /\ \A at \in Boundaries : trades[at] > 0 => at <= FirstUpdate[1].at
    BY <1>1, <1>2, FirstIsNewest
  <2>2. wire' # <<>> =>
                 /\ Len(wire') = 1 /\ Traded(wire'[1].at)
                 /\ wire'[1] = VenueBar(wire'[1].at)
                 /\ \A at \in Boundaries : trades[at] > 0 => at <= wire'[1].at
    BY <2>1, <1>5
  <2> QED BY <2>2, <1>2, <1>3, <1>5 DEF WireInv, Traded, VenueBar
<1>6. CASE \/ ResolverStarts \/ HistoryServes \/ HistoryLacks \/ ResolverWakes \/ TimerFires
           \/ Unwinds \/ BackfillResumes \/ RangeServes \/ DrainEnds \/ RangeFails
           \/ UNCHANGED vars
  <2>1. UNCHANGED <<venueVars, link, streaming, wire, owes, barsFailed>>
    BY <1>6 DEF ResolverStarts, HistoryServes, HistoryLacks, ResolverWakes, TimerFires, Unwinds,
        BackfillResumes, RangeServes, DrainEnds, RangeFails, vars, linkVars, taskVars
  <2> QED BY <2>1, <1>2, <1>4
<1>7. CASE Lose \/ BringUp
  BY <1>7, <1>2, <1>4 DEF Lose, BringUp
<1>8. CASE TrendbarsRestored
  <2>1. /\ UNCHANGED venueVars /\ link' = "restored" /\ streaming' \in BOOLEAN
        /\ ~barsFailed' => streaming'
        /\ wire' = IF streaming' THEN FirstUpdate ELSE <<>>
    BY <1>8 DEF TrendbarsRestored
  <2>2. CASE streaming'
    BY <2>1, <2>2, <1>5
  <2>3. CASE ~streaming'
    BY <2>1, <2>3, <1>4
  <2> QED BY <2>2, <2>3
<1>9. CASE BarsRestored \/ RetryBars
  <2>1. /\ UNCHANGED <<venueVars, streaming, wire, barsFailed>> /\ link' = "ready" /\ owes' = barsFailed
        /\ link \in {"restored", "ready"}
    BY <1>9 DEF BarsRestored, RetryBars, RestoreBars, linkVars
  <2> QED BY <2>1, <1>2, <1>4
<1>10. CASE RetryTrendbars
  <2>1. /\ UNCHANGED <<venueVars, link>> /\ link = "ready" /\ streaming' = TRUE
        /\ wire' = IF streaming THEN wire ELSE FirstUpdate
    BY <1>10 DEF RetryTrendbars
  <2>2. CASE streaming
    BY <2>1, <2>2, <1>1, <1>4
  <2>3. CASE ~streaming
    BY <2>1, <2>3, <1>5
  <2> QED BY <2>2, <2>3
<1>11. CASE Deliver
  <2>1. /\ UNCHANGED <<venueVars, link, streaming, barsFailed>> /\ wire # <<>> /\ wire' = Tail(wire)
    BY <1>11 DEF Deliver, linkVars
  <2>2. wire' = <<>>
    <3>1. Len(wire) = 1
      BY <2>1, <1>2
    <3> QED BY <3>1, <2>1, <1>1
  <2> QED BY <2>1, <2>2, <1>2, <1>4
<1>12. CASE Close
  <2>1. UNCHANGED <<venueVars, link, streaming, wire, owes, barsFailed>>
    BY <1>12 DEF Close, linkVars
  <2> QED BY <2>1, <1>2, <1>4
<1>13. CASE Trade
  <2>1. PICK f : f = Forming(now)
    OBVIOUS
  <2>2. PICK bar : bar = [at |-> f, trades |-> trades[f] + 1]
    OBVIOUS
  <2>3. /\ f \in Boundaries /\ trades' = [trades EXCEPT ![f] = @ + 1] /\ wire = <<>>
        /\ wire' = (IF streaming THEN <<bar>> ELSE wire)
        /\ UNCHANGED <<now, link, streaming, owes, barsFailed>>
    BY <2>1, <2>2, <1>13 DEF Trade, linkVars, taskVars
  <2>4. f <= now /\ \A b \in Boundaries : b <= now => b <= f
    BY <2>1, <1>1, FormingOnGrid, BoundaryOnGrid
  <2>5. trades[f] \in Nat /\ trades'[f] = trades[f] + 1
    BY <2>3, <1>1
  <2>6. \A at \in Boundaries : trades'[at] > 0 => at <= now
    BY <2>3, <2>4, <1>1, <1>2
  <2>7. CASE streaming
    <3>1. wire' = <<bar>> /\ bar.at = f /\ bar.trades = trades'[f] /\ trades'[f] > 0
      BY <2>2, <2>3, <2>5, <2>7
    <3>2. bar = VenueBar(f)'
      BY <3>1, <2>2, <2>3, <2>5 DEF VenueBar
    <3>3. Traded(f)'
      BY <3>1, <2>3 DEF Traded
    <3>4. Len(wire') = 1 /\ wire'[1] = bar
      BY <3>1
    <3>5. wire'[1].at = f
      BY <3>1, <3>4
    <3> QED BY <3>2, <3>3, <3>4, <3>5, <2>3, <2>4, <2>6, <2>7, <1>2 DEF WireInv, Traded, VenueBar
  <2>8. CASE ~streaming
    BY <2>3, <2>6, <2>8, <1>2 DEF WireInv
  <2> QED BY <2>7, <2>8
<1>14. CASE Tick
  <2>1. now' = now + 1 /\ UNCHANGED <<trades, link, streaming, wire, owes, barsFailed>>
    BY <1>14 DEF Tick, linkVars, taskVars
  <2>2. \A at \in Boundaries : trades[at] > 0 => at <= now + 1
    <3>1. \A at \in Boundaries : at \in Int
      BY Numbers
    <3> QED BY <3>1, <1>1, <1>2
  <2> QED BY <2>1, <2>2, <1>2 DEF WireInv, Traded, VenueBar
<1> QED BY <1>6, <1>7, <1>8, <1>9, <1>10, <1>11, <1>12, <1>13, <1>14 DEF Next

-----------------------------------------------------------------------------
(* No bar is missed: backfills that begin, and the connection *)

\* The wire has the bar forming.
WireHas(w) == \A at \in Boundaries : trades[at] > 0 => Closed(at) \/ VenueBar(at) \in ToSet(w)

\* With nothing in hand the wire has it.
LEMMA WireHasForming ==
    ASSUME CloserInv, FormingInv, streaming,
           link # "ready" \/ (closer.current = NoBar /\ closer.held = NoBar)
    PROVE  WireHas(wire)
<1> SUFFICES ASSUME NEW at \in Boundaries, trades[at] > 0
             PROVE  Closed(at) \/ VenueBar(at) \in ToSet(wire)
  BY DEF WireHas
<1>1. VenueBar(at) # NoBar
  BY VenueBars DEF CloserInv, StateShape
<1> QED BY <1>1 DEF FormingInv

\* A backfill that begins, or waits, lets go of what the closer had in hand.
LEMMA BegunMoves ==
    ASSUME UNCHANGED <<venueVars, unserved>>,
           NEW U, NEW e, U = unserved, e = closer', Right(U, e), e.current = NoBar, e.held = NoBar,
           streaming' => WireHas(wire'),
           \/ backfill'.pc = "none" /\ AllSettled(U, e)
           \/ backfill'.pc = "none" /\ link' # "ready"
           \/ backfill'.pc = "range" /\ Gapless(e, backfill')
           \/ backfill'.pc = "waiting"
           \/ backfill'.pc # "none" /\ BackfillInv'
    PROVE  Sound'
<1>1. now' = now /\ trades' = trades /\ unserved' = U
  BY DEF venueVars
<1>2. /\ Right(unserved, closer)' <=> Right(U, e)
      /\ InHand(unserved, closer)' <=> InHand(U, e)
      /\ \A at : Closed(at)' <=> Closed(at)
      /\ \A at : VenueBar(at)' = VenueBar(at)
  BY <1>1, SameVenue
<1>3. InHand(U, e)
  BY DEF InHand
<1>4. BackfillInv'
  <2> SUFFICES ASSUME ~BackfillInv'
               PROVE  BackfillInv'
    OBVIOUS
  <2>1. backfill'.pc # "draining"
    OBVIOUS
  <2>2. backfill'.pc = "range" => Gapless(e, backfill')
    OBVIOUS
  <2>3. Running' => backfill'.pc = "range"
    BY <2>1 DEF Running
  <2>4. Running' => closer'.phase = Offset /\ Closed(backfill'.end) /\ OnGrid(backfill'.end)
    BY <2>2, <2>3 DEF Gapless
  <2>5. backfill'.pc = "range" =>
          \/ backfill'.start <= Floor
          \/ LastEmitted(closer') # -1 /\ backfill'.start <= LastEmitted(closer') + Period
    BY <2>2 DEF Gapless
  <2>6. Running' => closer'.phase = Offset /\ Closed(backfill.end)' /\ OnGrid(backfill.end)'
    BY <2>4, <1>1 DEF Closed, OnGrid
  <2> QED BY <2>1, <2>5, <2>6 DEF BackfillInv
<1>5. FormingInv'
  <2>1. closer'.current = NoBar /\ closer'.held = NoBar
    OBVIOUS
  <2> QED BY <2>1, <1>1, <1>2 DEF FormingInv, WireHas
<1>6. GapInv'
  BY <1>1, <1>2 DEF GapInv, AllSettled
<1> QED BY <1>2, <1>3, <1>4, <1>5, <1>6 DEF Sound

LEMMA BackfillResumesRight ==
    ASSUME CloserInv, WireInv, Sound, BackfillResumes, ~closer'.blind
    PROVE  Sound'
<1>1. PICK r : r = Begun(closer)
  OBVIOUS
<1>2. /\ backfill.pc = "waiting" /\ closer' = r.closer /\ backfill' = r.task
      /\ UNCHANGED <<venueVars, linkVars, wire, unserved>>
  BY <1>1 DEF BackfillResumes, Takes
<1>3. ~closer.closed /\ Good(closer) /\ now \in Nat /\ trades \in [Boundaries -> Nat]
  BY <1>2 DEF CloserInv, TaskShape, StateShape
<1>4. PICK U, e : U = unserved /\ e = closer'
  OBVIOUS
<1>5. BeginsRight(U, closer, r)
  BY <1>1, <1>2, <1>3, <1>4, BegunRight DEF Sound, WireInv
<1>6. streaming => WireHas(wire)
  <2>1. FormingInv
    BY DEF Sound
  <2>2. link # "ready" \/ (closer.current = NoBar /\ closer.held = NoBar)
    BY <2>1, <1>2 DEF FormingInv
  <2> QED BY <2>1, <2>2, WireHasForming
<1>7. ~Accepting => link' # "ready"
  BY <1>2 DEF Accepting, linkVars
<1>8. streaming' => WireHas(wire')
  BY <1>2, <1>6 DEF linkVars
<1> QED BY <1>2, <1>4, <1>5, <1>7, <1>8, BegunMoves DEF BeginsRight

\* What _restore_bars() starts for a closer that has been told of the loss.
LEMMA BarsRestoredRight ==
    ASSUME CloserInv, WireInv, Sound, BarsRestored, ~closer'.blind
    PROVE  Sound'
<1>1. PICK c, r : c = OnDisconnect(closer) /\ r = Started(c)
  OBVIOUS
<1>2. /\ link = "restored" /\ ~closer.closed /\ closer' = r.closer /\ backfill' = r.task
      /\ UNCHANGED <<venueVars, wire, streaming, unserved>>
  BY <1>1 DEF BarsRestored, RestoreBars, Takes
<1>3. Good(closer) /\ now \in Nat /\ trades \in [Boundaries -> Nat]
  BY DEF CloserInv, StateShape
<1>4. SameQueue(closer, c) /\ Good(c) /\ c.current = NoBar /\ c.held = NoBar /\ ~c.closed
  BY <1>1, <1>2, <1>3, DisconnectKept DEF Kept
<1>5. PICK U, e : U = unserved /\ e = closer'
  OBVIOUS
<1>6. Right(U, c)
  BY <1>3, <1>4, <1>5, SameQueueRight DEF Sound
<1>7. streaming' => WireHas(wire')
  <2>1. streaming => WireHas(wire)
    BY <1>2, WireHasForming DEF Sound
  <2> QED BY <2>1, <1>2
<1>8. Accepting
  BY <1>2 DEF Accepting
<1>9. CASE r = Begun(c)
  <2>1. BeginsRight(U, c, r)
    BY <1>2, <1>3, <1>4, <1>6, <1>9, BegunRight DEF WireInv
  <2> QED BY <2>1, <1>2, <1>5, <1>7, <1>8, BegunMoves DEF BeginsRight
<1>10. CASE r.closer = c /\ r.task.pc = "waiting"
  BY <1>2, <1>4, <1>5, <1>6, <1>7, <1>10, BegunMoves
<1> QED BY <1>1, <1>3, <1>4, <1>9, <1>10, StartedCases

\* Nothing is asked of the stream before the bars are restored.
LEMMA OffStream ==
    ASSUME UNCHANGED <<venueVars, unserved>>, link' # "ready",
           NEW U, NEW c, NEW e, U = unserved, c = closer, e = closer',
           Right(U, e), InHand(U, e), BackfillInv, Keeps(U, c, U, e),
           e.phase = c.phase, LastEmitted(e) = LastEmitted(c),
           backfill' = backfill \/ backfill'.pc = "none",
           streaming' => WireHas(wire')
    PROVE  Sound'
<1>1. now' = now /\ trades' = trades /\ unserved' = U
  BY DEF venueVars
<1>2. /\ Right(unserved, closer)' <=> Right(U, e)
      /\ InHand(unserved, closer)' <=> InHand(U, e)
      /\ \A b : SettledTo(unserved, closer, b)' <=> SettledTo(U, e, b)
      /\ \A at : Closed(at)' <=> Closed(at)
      /\ \A at : VenueBar(at)' = VenueBar(at)
  BY <1>1, SameVenue
<1>3. BackfillInv'
  <2>1. CASE backfill' = backfill
    <3>1. \A b : SettledTo(U, c, b) => SettledTo(U, e, b)
      BY DEF Keeps, SettledTo
    <3>2. SettledTo(unserved, closer, backfill.end) => SettledTo(U, e, backfill.end)
      BY <3>1
    <3>3. PICK b : b = backfill.end
      OBVIOUS
    <3>4. SettledTo(U, e, b) => SettledTo(unserved, closer, b)'
      BY <1>2
    <3>5. backfill.pc = "draining" => SettledTo(unserved, closer, b)'
      BY <3>2, <3>3, <3>4 DEF BackfillInv
    <3>6. backfill'.pc = "draining" => SettledTo(unserved, closer, backfill.end)'
      BY <3>3, <3>5, <2>1 DEF SettledTo
    <3>7. Running' => closer'.phase = Offset /\ Closed(backfill'.end) /\ OnGrid(backfill'.end)
      BY <2>1 DEF BackfillInv, Running
    <3>8. backfill'.pc = "range" =>
            \/ backfill'.start <= Floor
            \/ LastEmitted(closer') # -1 /\ backfill'.start <= LastEmitted(closer') + Period
      BY <2>1 DEF BackfillInv
    <3> QED BY <3>6, <3>7, <3>8, <1>1 DEF BackfillInv, Closed, OnGrid
  <2>2. CASE backfill'.pc = "none"
    BY <2>2 DEF BackfillInv, Running
  <2> QED BY <2>1, <2>2
<1>4. FormingInv'
  BY <1>1, <1>2 DEF FormingInv, WireHas
<1>5. GapInv'
  BY DEF GapInv
<1> QED BY <1>2, <1>3, <1>4, <1>5 DEF Sound

LEMMA LoseRight ==
    ASSUME CloserInv, Sound, Lose
    PROVE  Sound'
<1>1. Good(closer) /\ closer \in CloserT /\ trades \in [Boundaries -> Nat]
  BY DEF CloserInv, StateShape, Good
<1>2. PICK c : c = [closer EXCEPT !.resolver = IF @.pc = "asking" THEN Idle ELSE @]
  OBVIOUS
<1>3. /\ link' = "down" /\ ~closer.closed /\ streaming' = FALSE /\ UNCHANGED <<venueVars, unserved>>
      /\ \/ backfill.pc = "range" /\ closer' = Unhold(c) /\ backfill' = NoBackfill
         \/ backfill.pc # "range" /\ closer' = c /\ backfill' = backfill
  BY <1>2 DEF Lose
<1>4. Idle \in ResolverT /\ closer.resolver \in ResolverT
  BY <1>1, CloserFields DEF Idle, ResolverT
<1>5. PICK r : r = IF closer.resolver.pc = "asking" THEN Idle ELSE closer.resolver
  OBVIOUS
<1>6. c = [closer EXCEPT !.resolver = r] /\ r \in ResolverT
  BY <1>1, <1>2, <1>4, <1>5
<1>7. c \in CloserT /\ c.queue = closer.queue /\ c.emitted = closer.emitted /\ SameRest(closer, c)
  BY <1>1, <1>6 DEF CloserT, SameRest
<1>8. Good(c) /\ Emits(closer, c) /\ LastEmitted(c) = LastEmitted(closer)
  BY <1>1, <1>7, EmitsNothing, EmitsStill DEF LastEmitted
<1>9. PICK U, d, e : U = unserved /\ d = closer /\ e = closer'
  OBVIOUS
<1>10. Right(U, c) /\ Keeps(U, d, U, c)
  BY <1>1, <1>8, <1>9, EmitRight DEF Sound, Keeps, Grows
<1>11. InHand(U, d) /\ BackfillInv
  BY <1>9 DEF Sound
<1>12. \A b : SettledTo(U, d, b) => SettledTo(U, c, b)
  BY <1>10 DEF Keeps, SettledTo
<1>13. InHand(U, c) /\ c.phase = d.phase
  BY <1>7, <1>9, <1>11, <1>12 DEF InHand, SameRest
<1>14. link' # "ready" /\ ~streaming'
  BY <1>3
<1>15. CASE backfill.pc = "range" /\ closer' = Unhold(c) /\ backfill' = NoBackfill
  <2>1. /\ SameQueue(c, e) /\ e.baseline = TRUE /\ e.current = c.current /\ e.held = c.held
        /\ e.phase = c.phase
    BY <1>8, <1>9, <1>15, UnholdKept
  <2>2. c.current = NoBar
    BY <1>3, <1>7, <1>15, HeldWhileRunning DEF Running, SameRest
  <2>3. /\ Right(U, e) /\ LastEmitted(e) = LastEmitted(d)
        /\ \A at : Settled(U, e, at) <=> Settled(U, c, at)
    BY <2>1, <1>8, <1>9, <1>10, SameQueueRight, SameQueueKept
  <2>4. InHand(U, e)
    BY <2>1, <2>2, <1>13 DEF InHand
  <2>5. Keeps(U, d, U, e)
    BY <2>3, <1>10 DEF Keeps
  <2> QED BY <2>1, <2>3, <2>4, <2>5, <1>3, <1>9, <1>11, <1>13, <1>14, <1>15, NoTask, OffStream
<1>16. CASE closer' = c /\ backfill' = backfill
  BY <1>3, <1>8, <1>9, <1>10, <1>11, <1>13, <1>14, <1>16, OffStream
<1> QED BY <1>3, <1>15, <1>16

LEMMA BringUpRight ==
    ASSUME CloserInv, WireInv, Sound, BringUp \/ TrendbarsRestored
    PROVE  Sound'
<1>1. /\ UNCHANGED <<venueVars, unserved, closer, backfill>> /\ link # "ready" /\ link' # "ready"
  BY DEF BringUp, TrendbarsRestored
<1>2. PICK U, c : U = unserved /\ c = closer
  OBVIOUS
<1>3. Right(U, c) /\ InHand(U, c) /\ BackfillInv /\ Keeps(U, c, U, c)
  BY <1>2 DEF Sound, Keeps
<1>4. streaming' => WireHas(wire')
  <2>1. CASE BringUp
    <3>1. streaming' = streaming /\ wire' = wire
      BY <2>1 DEF BringUp
    <3>2. streaming => WireHas(wire)
      BY <1>1, WireHasForming DEF Sound
    <3> QED BY <3>1, <3>2
  <2>2. CASE TrendbarsRestored
    <3>1. streaming' => wire' = FirstUpdate
      BY <2>2 DEF TrendbarsRestored
    <3>2. WireHas(FirstUpdate)
      BY FirstIsNewest DEF CloserInv, StateShape, WireInv, WireHas
    <3> QED BY <3>1, <3>2
  <2> QED BY <2>1, <2>2
<1> QED BY <1>1, <1>2, <1>3, <1>4, OffStream

LEMMA RetryTrendbarsRight ==
    ASSUME CloserInv, WireInv, Sound, RetryTrendbars, ~closer'.blind
    PROVE  Sound'
<1>1. PICK r : r = Paid(closer)
  OBVIOUS
<1>2. /\ link = "ready" /\ ~closer.closed /\ closer' = r.closer /\ backfill' = r.task
      /\ UNCHANGED <<venueVars, link, losses, failures, unserved>> /\ streaming' = TRUE
      /\ wire' = (IF streaming THEN wire ELSE FirstUpdate) /\ owes' = FALSE
  BY <1>1 DEF RetryTrendbars, Takes
<1>3. /\ Good(closer) /\ now \in Nat /\ trades \in [Boundaries -> Nat] /\ backfill \in TaskT
      /\ {streaming, owes} \subseteq BOOLEAN
  BY DEF CloserInv, StateShape
<1>4. FormingInv /\ BackfillInv /\ GapInv /\ InHand(unserved, closer)
  BY DEF Sound
<1>5. PICK U, c, e : U = unserved /\ c = closer /\ e = closer'
  OBVIOUS
\* A bar in hand is one of a stream that owes nothing.
<1>6. ~streaming \/ owes => c.current = NoBar /\ c.held = NoBar
  BY <1>2, <1>4, <1>5 DEF FormingInv, Fresh
<1>7. c.current = NoBar /\ c.held = NoBar => WireHas(wire')
  <2>1. CASE streaming
    <3>1. c.current = NoBar /\ c.held = NoBar => WireHas(wire)
      BY <2>1, <1>4, <1>5, WireHasForming
    <3> QED BY <2>1, <3>1, <1>2
  <2>2. CASE ~streaming
    <3>1. WireHas(FirstUpdate)
      BY <1>3, FirstIsNewest DEF WireInv, WireHas
    <3> QED BY <2>2, <3>1, <1>2
  <2> QED BY <2>1, <2>2, <1>3
<1>8. CASE owes /\ backfill.pc = "none" /\ r = Started(closer)
  <2>1. ~unwinding
    BY <1>2, <1>8 DEF CloserInv, TaskShape
  <2>2. r = Begun(closer)
    BY <2>1, <1>8 DEF Started
  <2>3. BeginsRight(U, c, r)
    BY <2>2, <1>2, <1>3, <1>5, BegunRight DEF Sound, WireInv
  <2>4. WireHas(wire')
    BY <1>6, <1>7, <1>8
  <2>5. Accepting
    BY <1>2 DEF Accepting
  <2> QED BY <2>3, <2>4, <2>5, <1>2, <1>5, BegunMoves DEF BeginsRight
<1>9. CASE ~(owes /\ backfill.pc = "none") /\ closer' = c /\ backfill' = backfill
  <2>1. Right(U, c) /\ Good(c)
    BY <1>3, <1>5 DEF Sound
  <2>2. CASE streaming /\ ~owes
    <3>1. UNCHANGED <<venueVars, linkVars, wire, backfill, owes>>
      BY <2>2, <1>2, <1>3, <1>9 DEF linkVars
    <3>2. Keeps(U, c, U, c) /\ LastEmitted(c) <= LastEmitted(c)
      BY <2>1, LastIsInt DEF Keeps
    <3>3. c.holding \/ c.baseline => c.current = NoBar
      BY <1>4, <1>5 DEF InHand
    <3> QED BY <2>1, <3>1, <3>2, <3>3, <1>2, <1>5, <1>9, CloserMoves
  <2>3. CASE ~streaming \/ owes
    <3>1. c.current = NoBar /\ c.held = NoBar /\ WireHas(wire')
      BY <2>3, <1>6, <1>7
    <3>2. backfill.pc # "none"
      BY <2>3, <1>2, <1>9 DEF WireInv
    <3>3. BackfillInv'
      <4>1. closer' = closer /\ unserved' = unserved /\ now' = now /\ trades' = trades /\ backfill' = backfill
        BY <1>2, <1>5, <1>9 DEF venueVars
      <4> QED BY <4>1, <1>4 DEF BackfillInv, Running, Closed, SettledTo
    <3> QED BY <2>1, <3>1, <3>2, <3>3, <1>2, <1>5, <1>9, BegunMoves
  <2> QED BY <2>2, <2>3, <1>3
<1>10. \/ ~(owes /\ backfill.pc = "none") /\ Paid(closer).closer = closer /\ Paid(closer).task = backfill
       \/ owes /\ backfill.pc = "none" /\ Paid(closer) = Started(closer)
  BY <1>3, PaidCases
<1> QED BY <1>1, <1>2, <1>5, <1>8, <1>9, <1>10

LEMMA RangeServesRight ==
    ASSUME CloserInv, WireInv, Sound, RangeServes
    PROVE  Sound'
<1>1. backfill.pc = "range" /\ UNCHANGED <<venueVars, linkVars, wire, owes, unserved>>
  BY DEF RangeServes
<1>2. ~closer.closed /\ Running
  BY <1>1 DEF CloserInv, TaskShape, Running
<1>3. closer.current = NoBar
  BY <1>2, HeldWhileRunning
<1>4. Gapless(closer, backfill)
  BY <1>1, <1>2 DEF Sound, BackfillInv, Gapless
<1>5. PICK U, c, e, end : U = unserved /\ c = closer /\ e = closer' /\ end = backfill.end
  OBVIOUS
<1>6. Right(U, c) /\ InHand(U, c) /\ StateShape /\ FormingInv
  BY <1>5 DEF Sound, CloserInv
<1>7. \/ FinishesRight(U, c, e) /\ backfill' = NoBackfill
      \/ DrainsRight(U, c, e, end) /\ backfill'.pc = "draining" /\ backfill'.end = end
  BY <1>2, <1>3, <1>4, <1>5, <1>6, RangeRight DEF WireInv
<1>8. CASE FinishesRight(U, c, e) /\ backfill' = NoBackfill
  BY <1>1, <1>3, <1>5, <1>8, FinishMoves
<1>9. CASE DrainsRight(U, c, e, end) /\ backfill'.pc = "draining" /\ backfill'.end = end
  <2>1. /\ now' = now /\ trades' = trades /\ link' = link /\ streaming' = streaming /\ wire' = wire
        /\ owes' = owes /\ unserved' = U
    BY <1>1, <1>5 DEF venueVars, linkVars
  <2>2. /\ Right(unserved, closer)' <=> Right(U, e)
        /\ InHand(unserved, closer)' <=> InHand(U, e)
        /\ \A b : SettledTo(unserved, closer, b)' <=> SettledTo(U, e, b)
        /\ \A at : Closed(at)' <=> Closed(at)
        /\ \A at : VenueBar(at)' = VenueBar(at)
    BY <1>1, <1>5, <2>1, SameVenue
  <2>3. /\ Good(e) /\ Right(U, e) /\ Grows(U, c, e) /\ SettledTo(U, e, end)
        /\ e.phase = Offset /\ e.current = NoBar /\ e.held = c.held
    BY <1>3, <1>5, <1>9 DEF DrainsRight
  <2>4. InHand(U, e)
    BY <2>3, <1>6 DEF InHand
  <2>5. BackfillInv'
    <3>1. SettledTo(unserved, closer, end)'
      BY <2>2, <2>3
    <3>2. Closed(end) /\ OnGrid(end)
      BY <1>4, <1>5 DEF Gapless
    <3> QED BY <3>1, <3>2, <2>1, <2>3, <1>5, <1>9 DEF BackfillInv, Running, SettledTo, Closed, OnGrid
  <2>6. FormingInv'
    <3>1. closer'.current = NoBar /\ closer'.held = c.held
      BY <2>3, <1>5
    <3>2. ASSUME link = "ready", NEW bar, bar = c.held, bar # NoBar
          PROVE  Fresh(bar)'
      <4>1. Fresh(bar)
        BY <3>2, <1>5, <1>6 DEF FormingInv
      <4>2. bar.at \in Boundaries /\ trades[bar.at] > 0
        BY <3>2, <1>6 DEF InHand, Traded
      <4>3. Settled(unserved, closer, bar.at) => Settled(unserved', closer', bar.at)
        BY <4>2, <2>1, <2>3, <1>5 DEF Grows
      <4> QED BY <4>1, <4>3, <2>1, <2>2 DEF Fresh
    <3>3. link = "ready" => \A bar \in {closer'.current, closer'.held} : bar # NoBar => Fresh(bar)'
      <4> SUFFICES ASSUME link = "ready", NEW bar \in {closer'.current, closer'.held}, bar # NoBar
                   PROVE  Fresh(bar)'
        OBVIOUS
      <4>1. bar = c.held
        BY <3>1
      <4> QED BY <4>1, <3>2
    <3>4. streaming =>
            \A at \in Boundaries : trades[at] > 0 =>
               \/ Closed(at) \/ VenueBar(at) \in ToSet(wire)
               \/ link = "ready" /\ VenueBar(at) \in {closer'.current, closer'.held}
      BY <3>1, <1>3, <1>5, <1>6 DEF FormingInv
    <3>5. backfill'.pc \notin {"none", "waiting"}
      BY <1>9
    <3> QED BY <3>1, <3>3, <3>4, <3>5, <2>1, <2>2 DEF FormingInv
  <2>7. GapInv'
    BY <1>9 DEF GapInv
  <2> QED BY <2>2, <2>3, <2>4, <2>5, <2>6, <2>7 DEF Sound
<1> QED BY <1>7, <1>8, <1>9

-----------------------------------------------------------------------------
(* No bar is missed: updates, trades and the clock *)

\* The closer an update finds, its backfill paid if it owed one.
UpdateFinds(U, c, t, bar) ==
    /\ Good(c) /\ Right(U, c) /\ InHand(U, c) /\ Keeps(U, closer, U, c) /\ ~c.closed
    /\ c.blind \in BOOLEAN
    /\ t.pc \in {"none", "range", "draining"}
    /\ c.holding = FALSE <=> t.pc = "none"
    /\ t.pc # "none" => Closed(t.end) /\ OnGrid(t.end)
    /\ t.pc = "range" =>
          t.start <= Floor \/ (LastEmitted(c) # -1 /\ t.start <= LastEmitted(c) + Period)
    /\ t.pc = "draining" => SettledTo(U, c, t.end)
    /\ t.pc = "none" => c.held = NoBar /\ Follows(U, c, bar)
    /\ \A b \in {c.current, c.held} :
          b # NoBar => b = VenueBar(b.at) \/ b.at = bar.at \/ Settled(U, c, b.at)

LEMMA DeliverFinds ==
    ASSUME CloserInv, WireInv, Sound, Deliver, ~raced', ~closer'.blind,
           NEW U, U = unserved, NEW bar, bar = Head(wire)
    PROVE  /\ link = "ready" /\ streaming /\ bar \in BarT /\ Traded(bar.at) /\ bar = VenueBar(bar.at)
           /\ ToSet(wire) = {bar} /\ wire' = <<>>
           /\ \A at \in Boundaries : trades[at] > 0 => at <= bar.at
           /\ UpdateFinds(U, Paid(closer).closer, Paid(closer).task, bar)
<1>1. PICK c, t : c = Paid(closer).closer /\ t = Paid(closer).task
  OBVIOUS
<1>2. /\ wire # <<>> /\ ~closer.closed /\ closer' = OnUpdate(c, bar) /\ wire' = Tail(wire)
      /\ link \notin {"up", "restored"} /\ backfill.pc # "waiting"
  BY <1>1 DEF Deliver, Takes
<1>3. /\ Good(closer) /\ now \in Nat /\ trades \in [Boundaries -> Nat] /\ backfill \in TaskT
      /\ wire \in Seq(BarT)
  BY DEF CloserInv, StateShape
<1>4. /\ Len(wire) = 1 /\ wire[1] = bar /\ wire' = <<>> /\ bar \in BarT /\ ToSet(wire) = {bar}
  <2>1. Len(wire) = 1
    BY <1>2 DEF WireInv
  <2>2. 1 \in 1..Len(wire)
    BY <2>1
  <2>3. wire[1] \in BarT /\ bar = wire[1] /\ wire' = <<>>
    BY <2>1, <2>2, <1>2, <1>3, ElementOfSeq
  <2>4. ToSet(wire) = {bar}
    <3>1. DOMAIN wire = {1}
      BY <2>1, <1>3, LenProperties
    <3> QED BY <3>1, <2>3 DEF ToSet
  <2> QED BY <2>1, <2>2, <2>3, <2>4
<1>5. /\ Traded(bar.at) /\ bar = VenueBar(bar.at) /\ streaming
      /\ \A at \in Boundaries : trades[at] > 0 => at <= bar.at
  BY <1>2, <1>4 DEF WireInv
<1>6. link = "ready"
  BY <1>2, <1>5 DEF WireInv
<1>7. /\ Right(U, closer) /\ InHand(U, closer) /\ BackfillInv /\ FormingInv /\ GapInv
  BY DEF Sound
<1>8. bar.at \in Boundaries /\ bar.at <= now
  BY <1>5 DEF Traded, WireInv
<1>9. \A at \in Boundaries : at < bar.at => Closed(at)
  BY <1>3, <1>8, BarClosesBefore
<1>10. CASE ~(owes /\ backfill.pc = "none") /\ c = closer /\ t = backfill
  <2>1. Keeps(U, c, U, c)
    BY DEF Keeps
  <2>2. backfill.pc \in {"none", "range", "draining"} /\ ~unwinding
    BY <1>2, <1>3 DEF TaskT, CloserInv, TaskShape
  <2>3. c.holding = FALSE <=> t.pc = "none"
    <3>1. closer.holding \in BOOLEAN
      BY <1>3, CloserFields DEF Good
    <3> QED BY <3>1, <2>2, <1>2, <1>10 DEF CloserInv, NothingStuck, HoldingHasTask
  <2>4. /\ t.pc # "none" => Closed(t.end) /\ OnGrid(t.end)
        /\ t.pc = "range" =>
              t.start <= Floor \/ (LastEmitted(c) # -1 /\ t.start <= LastEmitted(c) + Period)
        /\ t.pc = "draining" => SettledTo(U, c, t.end)
    BY <2>2, <1>7, <1>10 DEF BackfillInv, Running
  <2>5. ASSUME NEW b \in {c.current, c.held}, b # NoBar
        PROVE  b = VenueBar(b.at) \/ b.at = bar.at \/ Settled(U, c, b.at)
    <3>1. Fresh(b) /\ Traded(b.at)
      BY <2>5, <1>6, <1>7, <1>10 DEF FormingInv, InHand
    <3>2. VenueBar(b.at).at = b.at
      BY <3>1, <1>3, VenueBars DEF Traded
    <3> QED BY <3>1, <3>2, <1>4, <1>10 DEF Fresh
  <2>6. t.pc = "none" => c.held = NoBar
    BY <1>6, <1>7, <1>10 DEF FormingInv
  <2>7. t.pc = "none" => Follows(U, c, bar)
    <3> SUFFICES ASSUME t.pc = "none", NEW at \in Boundaries, trades[at] > 0, at < bar.at
                 PROVE  Settled(U, c, at) \/ at = c.current.at
      BY DEF Follows
    <3>1. Closed(at) /\ ~owes
      BY <1>9, <1>3, <1>10 DEF CloserInv, StateShape
    <3>2. Settled(U, c, at) \/ at = c.current.at \/ VenueBar(at) = bar
      BY <3>1, <1>4, <1>6, <1>7, <1>10 DEF GapInv
    <3>3. VenueBar(at).at = at /\ at # bar.at
      BY <1>3, <1>8, VenueBars, Numbers
    <3> QED BY <3>2, <3>3
  <2>8. ~c.closed /\ c.blind \in BOOLEAN
    BY <1>2, <1>3, <1>10, CloserFields DEF Good
  <2> QED BY <2>1, <2>2, <2>3, <2>4, <2>5, <2>6, <2>7, <2>8, <1>1, <1>3, <1>4, <1>5, <1>6, <1>7, <1>10
          DEF UpdateFinds
<1>11. CASE owes /\ backfill.pc = "none" /\ Paid(closer) = Started(closer)
  <2>1. ~unwinding
    BY <1>2, <1>11 DEF CloserInv, TaskShape
  <2>2. Paid(closer) = Begun(closer)
    BY <2>1, <1>11 DEF Started
  <2>3. PICK r : r = Begun(closer) /\ c = r.closer /\ t = r.task
    BY <2>2, <1>1
  <2>4. BegunWell(closer, r)
    BY <2>3, <1>3, BegunKept
  <2>5. c.blind = closer'.blind /\ Good(c)
    BY <2>3, <2>4, <1>2, <1>4, UpdateKept DEF BegunWell, Kept
  <2>6. BeginsRight(U, closer, r)
    BY <2>3, <2>5, <1>2, <1>3, <1>7, BegunRight DEF WireInv
  <2>7. /\ Good(c) /\ Right(U, c) /\ Keeps(U, closer, U, c) /\ ~c.closed /\ c.blind \in BOOLEAN
        /\ c.current = NoBar /\ c.held = NoBar
    BY <2>3, <2>6, <1>2, CloserFields DEF BeginsRight, Grows, Keeps, Good
  <2>8. InHand(U, c)
    BY <2>7 DEF InHand
  <2>9. Accepting
    BY <1>6 DEF Accepting
  <2>10. t.pc = "none" => Follows(U, c, bar)
    BY <2>3, <2>6, <2>9, <1>9 DEF BeginsRight, AllSettled, Follows
  <2>11. t.pc = "range" => Gapless(c, t)
    BY <2>3, <2>6 DEF BeginsRight
  <2>12. t.pc \in {"none", "range"} /\ (c.holding = FALSE <=> t.pc = "none")
    BY <2>3, <2>4 DEF BegunWell
  <2> QED BY <2>7, <2>8, <2>10, <2>11, <2>12, <1>1, <1>4, <1>5, <1>6 DEF UpdateFinds, Gapless
<1> QED BY <1>1, <1>3, <1>10, <1>11, PaidCases

LEMMA DeliverRight ==
    ASSUME CloserInv, WireInv, Sound, Deliver, ~raced', ~closer'.blind
    PROVE  Sound'
<1>1. PICK U, c, t, bar : /\ U = unserved /\ bar = Head(wire)
                          /\ c = Paid(closer).closer /\ t = Paid(closer).task
  OBVIOUS
<1>2. PICK e : e = OnUpdate(c, bar)
  OBVIOUS
<1>3. /\ closer' = e /\ backfill' = t /\ owes' = FALSE /\ UNCHANGED <<venueVars, linkVars, unserved>>
  BY <1>1, <1>2 DEF Deliver, Takes
<1>4. /\ link = "ready" /\ streaming /\ bar \in BarT /\ Traded(bar.at) /\ bar = VenueBar(bar.at)
      /\ wire' = <<>>
      /\ \A at \in Boundaries : trades[at] > 0 => at <= bar.at
      /\ UpdateFinds(U, c, t, bar)
  BY <1>1, DeliverFinds
<1>5. /\ now \in Nat /\ trades \in [Boundaries -> Nat]
      /\ \A at \in Boundaries : trades[at] > 0 => at <= now
      /\ \A at \in Boundaries : at \in Int
  BY Numbers DEF CloserInv, StateShape, WireInv
<1>6. /\ Good(c) /\ Right(U, c) /\ InHand(U, c) /\ ~c.closed
      /\ t.pc \in {"none", "range", "draining"}
      /\ c.holding = FALSE <=> t.pc = "none"
      /\ t.pc # "none" => Closed(t.end) /\ OnGrid(t.end)
      /\ t.pc = "range" =>
            t.start <= Floor \/ (LastEmitted(c) # -1 /\ t.start <= LastEmitted(c) + Period)
      /\ t.pc = "draining" => SettledTo(U, c, t.end)
      /\ t.pc = "none" => c.held = NoBar /\ Follows(U, c, bar)
      /\ \A b \in {c.current, c.held} :
            b # NoBar => b = VenueBar(b.at) \/ b.at = bar.at \/ Settled(U, c, b.at)
  BY <1>4 DEF UpdateFinds
<1>7. c.holding \in BOOLEAN /\ (c.holding => c.current = NoBar) /\ bar # NoBar /\ bar.at \in Boundaries
  BY <1>4, <1>6, CloserFields, BarFields DEF Good, InHand
<1>8. UpdatesRight(U, c, bar, e)
  <2>1. ~c.holding /\ c.current # NoBar /\ c.current.at < bar.at =>
              c.current = VenueBar(c.current.at) \/ Settled(U, c, c.current.at)
    <3>1. bar.at \in Int
      BY <1>4, BarFields
    <3> QED BY <3>1, <1>6
  <2> QED BY <2>1, <1>2, <1>4, <1>5, <1>6, <1>7, UpdateRight
<1>9. /\ Good(e) /\ Right(U, e) /\ Grows(U, c, e) /\ InHand(U, e) /\ e.phase = Offset
      /\ LastEmitted(c) <= LastEmitted(e)
  BY <1>8 DEF UpdatesRight
\* The bar is in hand, or out of it for good.
<1>10. /\ c.holding => /\ e.current = NoBar
                       /\ e.held = bar \/ (e.held = c.held /\ Past(U, e, bar.at))
       /\ ~c.holding =>
             /\ e.held = NoBar
             /\ \/ /\ e.current = bar
                   /\ c.current = NoBar \/ bar.at = c.current.at \/ Settled(U, e, c.current.at)
                \/ e.current = c.current /\ Past(U, e, bar.at)
  <2>1. ~(c.current # NoBar /\ bar.at < c.current.at)
    <3> SUFFICES ASSUME c.current # NoBar, bar.at < c.current.at
                 PROVE  FALSE
      OBVIOUS
    <3>1. c.current.at \in Boundaries /\ c.current.at <= bar.at
      BY <1>4, <1>6 DEF InHand, Traded
    <3> QED BY <3>1, <1>5, <1>7
  <2> QED BY <2>1, <1>6, <1>7, <1>8 DEF UpdatesRight
<1>11. /\ now' = now /\ trades' = trades /\ link' = "ready" /\ streaming' = TRUE /\ unserved' = U
  BY <1>1, <1>3, <1>4 DEF venueVars, linkVars, CloserInv, StateShape
<1>12. /\ Right(unserved, closer)' <=> Right(U, e)
       /\ InHand(unserved, closer)' <=> InHand(U, e)
       /\ \A b : SettledTo(unserved, closer, b)' <=> SettledTo(U, e, b)
       /\ \A at : Closed(at)' <=> Closed(at)
       /\ \A at : VenueBar(at)' = VenueBar(at)
  BY <1>3, <1>11, SameVenue
<1>13. BackfillInv'
  <2>1. t.pc = "draining" => SettledTo(U, e, t.end)
    BY <1>6, <1>9, SettledGrows
  <2>2. t.pc = "range" =>
            t.start <= Floor \/ (LastEmitted(e) # -1 /\ t.start <= LastEmitted(e) + Period)
    <3>1. t.pc = "range" => t.start \in Int
      BY <1>1, <1>3, CloserStep DEF CloserInv, StateShape, TaskT, Next
    <3>2. LastEmitted(c) \in Int /\ LastEmitted(e) \in Int
      BY <1>6, <1>9, LastIsInt
    <3>3. LastEmitted(c) # -1 => LastEmitted(c) \in Nat
      BY <1>6, LastIsInt, Numbers
    <3> QED BY <3>1, <3>2, <3>3, <1>6, <1>9, Numbers
  <2>3. PICK end : end = t.end
    OBVIOUS
  <2>4. t.pc = "draining" => SettledTo(unserved, closer, end)'
    BY <2>1, <2>3, <1>12
  <2>5. t.pc = "draining" => SettledTo(unserved, closer, backfill.end)'
    BY <2>3, <2>4, <1>3 DEF SettledTo
  <2>6. Running' => closer'.phase = Offset /\ Closed(backfill'.end) /\ OnGrid(backfill'.end)
    BY <1>3, <1>6, <1>9 DEF Running
  <2>7. backfill'.pc = "range" =>
            \/ backfill'.start <= Floor
            \/ LastEmitted(closer') # -1 /\ backfill'.start <= LastEmitted(closer') + Period
    BY <2>2, <1>3
  <2>8. Running' => closer'.phase = Offset /\ Closed(backfill.end)' /\ OnGrid(backfill.end)'
    BY <2>6, <1>11 DEF Closed, OnGrid
  <2> QED BY <2>5, <2>7, <2>8, <1>3 DEF BackfillInv
<1>14. FormingInv'
  <2>1. ASSUME NEW at \in Boundaries, trades[at] > 0, ~Closed(at)
        PROVE  VenueBar(at) \in {e.current, e.held}
    <3>1. at = bar.at
      <4>1. at <= bar.at /\ bar.at <= now
        BY <2>1, <1>4, <1>5 DEF Traded
      <4>2. ~(at < bar.at)
        BY <4>1, <2>1, <1>5, <1>7, BarClosesBefore
      <4> QED BY <4>1, <4>2, <1>5, <1>7
    <3> QED BY <3>1, <2>1, <1>4, <1>7, <1>10 DEF Past
  <2>2. ASSUME NEW b \in {e.current, e.held}, b # NoBar
        PROVE  b = VenueBar(b.at) \/ Settled(U, e, b.at)
    <3>1. CASE b = bar
      BY <3>1, <1>4
    <3>2. CASE b # bar
      <4>1. b \in {c.current, c.held} /\ Past(U, e, bar.at)
        BY <2>2, <3>2, <1>7, <1>10
      <4>2. b.at \in Boundaries /\ trades[b.at] > 0
        BY <4>1, <2>2, <1>6 DEF InHand, Traded
      <4>3. b = VenueBar(b.at) \/ b.at = bar.at \/ Settled(U, c, b.at)
        BY <4>1, <2>2, <1>6
      <4> QED BY <4>1, <4>2, <4>3, <1>9 DEF Past, Grows
    <3> QED BY <3>1, <3>2
  <2>3. ASSUME NEW b \in {e.current, e.held}, b # NoBar
        PROVE  Fresh(b)'
    <3>1. b = VenueBar(b.at)' \/ Settled(unserved', closer', b.at)
      BY <2>2, <2>3, <1>3, <1>11, <1>12
    <3> QED BY <3>1, <1>3, <1>11 DEF Fresh
  <2>4. backfill'.pc # "waiting" /\ (backfill'.pc = "none" => e.held = NoBar)
    BY <1>3, <1>6, <1>7, <1>10
  <2> QED BY <2>1, <2>3, <2>4, <1>3, <1>11, <1>12 DEF FormingInv
<1>15. GapInv'
  <2> SUFFICES ASSUME t.pc = "none", NEW at \in Boundaries, trades[at] > 0, Closed(at), at # e.current.at
               PROVE  Settled(U, e, at)
    BY <1>3, <1>11, <1>12 DEF GapInv
  <2>1. ~c.holding /\ Follows(U, c, bar)
    BY <1>6, <1>7
  <2>2. CASE at = bar.at
    BY <2>1, <2>2, <1>10 DEF Past
  <2>3. CASE at # bar.at
    <3>1. at < bar.at
      <4>1. at <= bar.at
        BY <1>4
      <4> QED BY <4>1, <2>3, <1>5, <1>7
    <3>2. Settled(U, c, at) \/ at = c.current.at
      BY <3>1, <2>1 DEF Follows
    <3>3. at # NoBar.at
      BY Numbers DEF NoBar
    <3>4. at = c.current.at => Settled(U, e, at)
      BY <3>3, <2>1, <2>3, <1>10
    <3> QED BY <3>2, <3>4, <1>9 DEF Grows
  <2> QED BY <2>2, <2>3
<1> QED BY <1>9, <1>12, <1>13, <1>14, <1>15 DEF Sound

\* A trade changes the bar that forms, which is not closed.
LEMMA TradeRight ==
    ASSUME CloserInv, WireInv, WireInv', Sound, Trade
    PROVE  Sound'
<1>1. PICK f, U, c : f = Forming(now) /\ U = unserved /\ c = closer
  OBVIOUS
<1>2. /\ f \in Boundaries /\ trades' = [trades EXCEPT ![f] = @ + 1] /\ wire = <<>>
      /\ wire' = (IF streaming THEN <<[at |-> f, trades |-> trades[f] + 1]>> ELSE wire)
      /\ now' = now /\ link' = link /\ streaming' = streaming /\ closer' = c /\ unserved' = U
      /\ backfill' = backfill /\ owes' = owes
  BY <1>1 DEF Trade, linkVars, taskVars
<1>3. /\ now \in Nat /\ trades \in [Boundaries -> Nat] /\ Good(c)
      /\ \A at \in Boundaries : trades[at] > 0 => at <= now
      /\ \A at \in Boundaries : at \in Int
  BY <1>1, Numbers DEF CloserInv, StateShape, WireInv
<1>4. /\ Right(U, c) /\ InHand(U, c) /\ BackfillInv /\ FormingInv /\ GapInv
  BY <1>1 DEF Sound
<1>5. ~Closed(f) /\ f <= now
  <2>1. f \in Int /\ f <= now /\ now < f + Period
    BY <1>1, <1>3, FormingOnGrid
  <2> QED BY <2>1, <1>3, Numbers DEF Closed
<1>6. \A at \in Boundaries : at < f => Closed(at)
  BY <1>2, <1>3, <1>5, BarClosesBefore
<1>7. /\ trades' \in [Boundaries -> Nat]
      /\ \A at \in Boundaries : at # f => trades'[at] = trades[at]
      /\ \A at \in Boundaries : trades[at] > 0 => trades'[at] > 0
      /\ trades'[f] > 0
  BY <1>2, <1>3
<1>8. /\ \A at : Closed(at)' <=> Closed(at)
      /\ \A at : at # f => VenueBar(at)' = VenueBar(at)
  BY <1>2, <1>7 DEF Closed, VenueBar
<1>9. \A at : Traded(at) => Traded(at)'
  BY <1>7 DEF Traded
\* Behind a closed boundary, or one that has traded, nothing trades.
<1>10. ASSUME NEW b \in Int, Closed(b) \/ (b \in Boundaries /\ b <= now)
       PROVE  SettledTo(U, c, b) => SettledTo(unserved, closer, b)'
  <2> SUFFICES ASSUME SettledTo(U, c, b), NEW at \in Boundaries, trades'[at] > 0, at < b
               PROVE  Settled(U, c, at)
    BY <1>2 DEF SettledTo
  <2>1. at # f
    <3>1. CASE Closed(b)
      <4>1. f < b => Closed(f)
        BY <3>1, <1>2, <1>3, Numbers DEF Closed
      <4> QED BY <4>1, <1>5
    <3>2. CASE b \in Boundaries /\ b <= now
      BY <3>2, <1>2, <1>3, <1>5, BarClosesBefore
    <3> QED BY <3>1, <3>2, <1>10
  <2> QED BY <2>1, <1>7 DEF SettledTo
<1>11. Right(unserved, closer)'
  <2>1. /\ LastEmitted(c) # -1 => Closed(LastEmitted(c))
        /\ \A p \in ToSet(c.queue) :
              /\ Closed(p.at)
              /\ ~p.needs => p.at \in U \/ p.streamed = VenueBar(p.at)
              /\ SettledTo(U, c, p.at)
        /\ \A at \in Boundaries :
              trades[at] > 0 /\ IsCovered(c, at) => at \in U \/ VenueBar(at) \in ToSet(c.emitted)
    BY <1>4 DEF Right
  <2>2. ASSUME NEW p \in ToSet(c.queue)
        PROVE  /\ Closed(p.at)'
               /\ ~p.needs => p.at \in U \/ p.streamed = VenueBar(p.at)'
               /\ SettledTo(unserved, closer, p.at)'
    <3>1. Closed(p.at) /\ p.at \in Int
      BY <2>1, <1>3, QueueEntries, EntryFields
    <3>2. p.at # f
      BY <3>1, <1>5
    <3> QED BY <2>1, <3>1, <3>2, <1>8, <1>10
  <2>3. ASSUME NEW at \in Boundaries, trades'[at] > 0, IsCovered(c, at)
        PROVE  at \in U \/ VenueBar(at)' \in ToSet(c.emitted)
    <3>1. LastEmitted(c) \in Int
      BY <1>3, LastIsInt
    <3>2. LastEmitted(c) # -1 /\ at <= LastEmitted(c)
      BY <2>3, <3>1, Numbers DEF IsCovered
    <3>3. at # f
      <4>1. Closed(LastEmitted(c))
        BY <2>1, <3>2
      <4> QED BY <4>1, <3>1, <3>2, <1>3, <1>5, Numbers DEF Closed
    <3> QED BY <2>1, <2>3, <3>3, <1>7, <1>8
  <2>4. LastEmitted(c) # -1 => Closed(LastEmitted(c))'
    BY <2>1, <1>8
  <2> QED BY <2>2, <2>3, <2>4, <1>2 DEF Right
<1>12. InHand(unserved, closer)'
  <2>1. ASSUME c.current # NoBar
        PROVE  Traded(c.current.at)' /\ SettledTo(unserved, closer, c.current.at)'
    <3>1. Traded(c.current.at) /\ SettledTo(U, c, c.current.at)
      BY <2>1, <1>4 DEF InHand
    <3>2. c.current.at \in Boundaries /\ c.current.at <= now /\ c.current.at \in Int
      BY <3>1, <1>3 DEF Traded
    <3> QED BY <3>1, <3>2, <1>9, <1>10
  <2>2. c.held # NoBar => Traded(c.held.at)'
    BY <1>4, <1>9 DEF InHand
  <2>3. c.holding \/ c.baseline => c.current = NoBar
    BY <1>4 DEF InHand
  <2> QED BY <2>1, <2>2, <2>3, <1>2 DEF InHand
<1>13. BackfillInv'
  <2>1. backfill.end \in Int
    BY DEF CloserInv, StateShape, TaskT
  <2>2. PICK end : end = backfill.end
    OBVIOUS
  <2>3. backfill.pc = "draining" => Closed(end) /\ SettledTo(U, c, end)
    BY <2>2, <1>1, <1>4 DEF BackfillInv, Running
  <2>4. backfill.pc = "draining" => SettledTo(unserved, closer, end)'
    BY <2>1, <2>2, <2>3, <1>10
  <2>5. backfill.pc = "draining" => SettledTo(unserved, closer, backfill.end)'
    BY <2>2, <2>4, <1>2 DEF SettledTo
  <2>6. Running' => closer'.phase = Offset /\ Closed(backfill.end) /\ OnGrid(backfill.end)
    BY <1>1, <1>2, <1>4 DEF BackfillInv, Running
  <2>7. Running' => closer'.phase = Offset /\ Closed(backfill.end)' /\ OnGrid(backfill.end)'
    BY <2>6, <1>2 DEF Closed, OnGrid
  <2>8. backfill'.pc = "range" =>
            \/ backfill'.start <= Floor
            \/ LastEmitted(closer') # -1 /\ backfill'.start <= LastEmitted(closer') + Period
    BY <1>1, <1>2, <1>4 DEF BackfillInv
  <2> QED BY <2>5, <2>7, <2>8, <1>2 DEF BackfillInv
<1>14. streaming => VenueBar(f)' \in ToSet(wire')
  <2> SUFFICES ASSUME streaming
               PROVE  VenueBar(f)' \in ToSet(wire')
    OBVIOUS
  <2>1. PICK bar : bar = [at |-> f, trades |-> trades[f] + 1]
    OBVIOUS
  <2>2. wire' = <<bar>> /\ bar \in ToSet(wire')
    BY <2>1, <1>2 DEF ToSet
  <2>3. VenueBar(f)' = bar
    BY <2>1, <1>2, <1>3, <1>7 DEF VenueBar
  <2> QED BY <2>2, <2>3
<1>15. FormingInv'
  <2>1. ASSUME NEW bar \in {c.current, c.held}, bar # NoBar, link = "ready"
        PROVE  Fresh(bar)'
    <3>1. Fresh(bar) /\ Traded(bar.at)
      BY <2>1, <1>1, <1>4 DEF FormingInv, InHand
    <3>2. CASE bar.at = f
      BY <3>1, <3>2, <1>2, <1>14 DEF Fresh
    <3>3. CASE bar.at # f
      <4>1. bar = VenueBar(bar.at) \/ Settled(unserved, closer, bar.at)
        BY <3>1, <1>2 DEF Fresh, ToSet
      <4>2. VenueBar(bar.at)' = VenueBar(bar.at)
        BY <3>3, <1>8
      <4>3. Settled(unserved, closer, bar.at) => Settled(unserved', closer', bar.at)
        BY <1>1, <1>2
      <4> QED BY <3>1, <4>1, <4>2, <4>3, <1>2 DEF Fresh
    <3> QED BY <3>2, <3>3
  <2>2. ASSUME streaming, NEW at \in Boundaries, trades'[at] > 0
        PROVE  \/ Closed(at)' \/ VenueBar(at)' \in ToSet(wire')
               \/ link = "ready" /\ VenueBar(at)' \in {c.current, c.held}
    <3>1. CASE at = f
      BY <3>1, <2>2, <1>14
    <3>2. CASE at # f
      <4>1. trades[at] > 0 /\ VenueBar(at)' = VenueBar(at)
        BY <3>2, <2>2, <1>7, <1>8
      <4>2. VenueBar(at) \notin ToSet(wire)
        BY <1>2 DEF ToSet
      <4> QED BY <4>1, <4>2, <2>2, <1>1, <1>4, <1>8 DEF FormingInv
    <3> QED BY <3>1, <3>2
  <2>3. link = "ready" =>
          /\ backfill.pc = "waiting" => c.current = NoBar
          /\ backfill.pc \in {"none", "waiting"} => c.held = NoBar
    BY <1>1, <1>4 DEF FormingInv
  <2> QED BY <2>1, <2>2, <2>3, <1>2 DEF FormingInv
<1>16. GapInv'
  <2> SUFFICES ASSUME link = "ready", backfill.pc = "none", ~owes,
                      NEW at \in Boundaries, trades'[at] > 0, Closed(at)
               PROVE  Settled(U, c, at) \/ at = c.current.at
    BY <1>2, <1>8 DEF GapInv
  <2>1. trades[at] > 0
    BY <1>5, <1>7
  <2>2. VenueBar(at) \notin ToSet(wire)
    BY <1>2 DEF ToSet
  <2> QED BY <2>1, <2>2, <1>1, <1>4 DEF GapInv
<1> QED BY <1>11, <1>12, <1>13, <1>15, <1>16 DEF Sound

\* A bar that the clock closes was forming: it is on the wire or in hand.
LEMMA TickRight ==
    ASSUME CloserInv, WireInv, Sound, Tick
    PROVE  Sound'
<1>1. PICK U, c : U = unserved /\ c = closer
  OBVIOUS
<1>2. /\ now' = now + 1 /\ trades' = trades /\ link' = link /\ streaming' = streaming /\ wire' = wire
      /\ closer' = c /\ unserved' = U /\ backfill' = backfill /\ owes' = owes
  BY <1>1 DEF Tick, linkVars, taskVars
<1>3. /\ now \in Nat /\ trades \in [Boundaries -> Nat] /\ Good(c) /\ backfill.end \in Int
  BY <1>1 DEF CloserInv, StateShape, TaskT
<1>4. /\ Right(U, c) /\ InHand(U, c) /\ BackfillInv /\ FormingInv /\ GapInv
  BY <1>1 DEF Sound
<1>5. \A at \in Int : Closed(at) => Closed(at)'
  BY <1>2, <1>3, Numbers DEF Closed
<1>6. /\ \A at : VenueBar(at)' = VenueBar(at)
      /\ \A at : Traded(at)' <=> Traded(at)
      /\ \A b : SettledTo(unserved, closer, b)' <=> SettledTo(U, c, b)
  BY <1>2 DEF VenueBar, Traded, SettledTo
<1>7. \A b \in Boundaries : b \in Nat /\ b \in Int
  BY Numbers
<1>8. Right(unserved, closer)'
  <2>1. /\ LastEmitted(c) # -1 => Closed(LastEmitted(c))
        /\ \A p \in ToSet(c.queue) :
              /\ Closed(p.at)
              /\ ~p.needs => p.at \in U \/ p.streamed = VenueBar(p.at)
              /\ SettledTo(U, c, p.at)
        /\ \A at \in Boundaries :
              trades[at] > 0 /\ IsCovered(c, at) => at \in U \/ VenueBar(at) \in ToSet(c.emitted)
    BY <1>4 DEF Right
  <2>2. \A p \in ToSet(c.queue) : p.at \in Int
    BY <1>3, QueueEntries, EntryFields
  <2>3. \A p \in ToSet(c.queue) : Closed(p.at)'
    BY <2>1, <2>2, <1>5
  <2>4. LastEmitted(c) # -1 => Closed(LastEmitted(c))'
    <3>1. LastEmitted(c) \in Int
      BY <1>3, LastIsInt
    <3> QED BY <2>1, <3>1, <1>5
  <2> QED BY <2>1, <2>3, <2>4, <1>2, <1>6 DEF Right
<1>9. InHand(unserved, closer)'
  BY <1>2, <1>4, <1>6 DEF InHand
<1>10. BackfillInv'
  <2>1. PICK end : end = backfill.end
    OBVIOUS
  <2>2. Running' => closer'.phase = Offset /\ Closed(end)' /\ OnGrid(backfill.end)'
    BY <2>1, <1>1, <1>2, <1>3, <1>4, <1>5 DEF BackfillInv, Running, OnGrid
  <2>3. backfill'.pc = "draining" => SettledTo(unserved, closer, end)'
    BY <2>1, <1>1, <1>2, <1>4, <1>6 DEF BackfillInv
  <2>4. backfill'.pc = "range" =>
            \/ backfill'.start <= Floor
            \/ LastEmitted(closer') # -1 /\ backfill'.start <= LastEmitted(closer') + Period
    BY <1>1, <1>2, <1>4 DEF BackfillInv
  <2>5. /\ Closed(end)' => Closed(backfill.end)'
        /\ SettledTo(unserved, closer, end)' => SettledTo(unserved, closer, backfill.end)'
    BY <2>1, <1>2 DEF Closed, SettledTo
  <2> QED BY <2>2, <2>3, <2>4, <2>5 DEF BackfillInv
<1>11. FormingInv'
  <2>1. \A bar : Fresh(bar)' <=> Fresh(bar)
    BY <1>1, <1>2, <1>6 DEF Fresh
  <2>2. streaming =>
          \A at \in Boundaries : trades[at] > 0 =>
             \/ Closed(at)' \/ VenueBar(at) \in ToSet(wire)
             \/ link = "ready" /\ VenueBar(at) \in {c.current, c.held}
    BY <1>1, <1>4, <1>5, <1>7 DEF FormingInv
  <2>3. link = "ready" =>
          /\ \A bar \in {c.current, c.held} : bar # NoBar => Fresh(bar)
          /\ backfill.pc = "waiting" => c.current = NoBar
          /\ backfill.pc \in {"none", "waiting"} => c.held = NoBar
    BY <1>1, <1>4 DEF FormingInv
  <2> QED BY <2>1, <2>2, <2>3, <1>2, <1>6 DEF FormingInv
<1>12. GapInv'
  <2> SUFFICES ASSUME link = "ready", backfill.pc = "none", ~owes,
                      NEW at \in Boundaries, trades[at] > 0
               PROVE  Settled(U, c, at) \/ at = c.current.at \/ VenueBar(at) \in ToSet(wire)
    BY <1>2, <1>6 DEF GapInv
  <2>1. CASE Closed(at)
    BY <2>1, <1>1, <1>4 DEF GapInv
  <2>2. CASE ~Closed(at)
    <3>1. streaming
      BY DEF WireInv
    <3>2. VenueBar(at) \in ToSet(wire) \/ VenueBar(at) \in {c.current, c.held}
      BY <3>1, <2>2, <1>1, <1>4 DEF FormingInv
    <3>3. VenueBar(at).at = at /\ VenueBar(at) # NoBar
      BY <1>3, <1>7, VenueBars DEF NoBar
    <3>4. c.held = NoBar
      BY <1>1, <1>4 DEF FormingInv
    <3> QED BY <3>2, <3>3, <3>4
  <2> QED BY <2>1, <2>2
<1> QED BY <1>8, <1>9, <1>10, <1>11, <1>12 DEF Sound

-----------------------------------------------------------------------------
(* No bar is missed, whatever the step *)

\* What history remembers of a blind backfill it does not forget.
LEMMA StaysBlind ==
    ASSUME CloserInv, [Next]_vars, closer.blind
    PROVE  closer'.blind
<1>1. /\ Good(closer) /\ closer \in CloserT /\ now \in Nat /\ backfill \in TaskT /\ StateShape
      /\ wire \in Seq(BarT)
  BY DEF CloserInv, StateShape, Good
<1>2. ASSUME NEW c, Good(c), c.blind
      PROVE  Started(c).closer.blind
  BY <1>1, <1>2, StartedCases DEF BegunWell
<1>3. Good(Paid(closer).closer) /\ Paid(closer).closer.blind
  <2>1. CASE owes /\ backfill.pc = "none" /\ Paid(closer) = Started(closer)
    BY <2>1, <1>1, <1>2, StartedCases DEF BegunWell, Kept
  <2>2. CASE Paid(closer).closer = closer
    BY <2>2, <1>1
  <2> QED BY <2>1, <2>2, <1>1, PaidCases
<1>4. ASSUME RestoreBars, ~closer.closed
      PROVE  closer'.blind
  <2>1. PICK d : d = OnDisconnect(closer)
    OBVIOUS
  <2>2. Good(d) /\ d.blind
    BY <2>1, <1>1, <1>4, DisconnectKept DEF Kept
  <2>3. closer' = Started(d).closer
    BY <2>1, <1>4 DEF RestoreBars, Takes
  <2> QED BY <2>2, <2>3, <1>2
<1>5. CASE ResolverStarts \/ HistoryServes \/ HistoryLacks \/ ResolverWakes \/ TimerFires
  BY <1>5, ResolverKept
<1>6. CASE Unwinds \/ RangeFails
  <2>1. closer' = Unhold(closer)
    BY <1>6 DEF Unwinds, RangeFails
  <2> QED BY <2>1, <1>1, UnholdKept
<1>7. CASE BackfillResumes
  <2>1. closer' = Begun(closer).closer
    BY <1>7 DEF BackfillResumes, Takes
  <2> QED BY <2>1, <1>1, BegunKept DEF BegunWell
<1>8. CASE RangeServes
  <2>1. PICK found, seen, c : Serves(found, seen, c) /\ Good(c) /\ SameRest(seen, c)
    BY <1>1, <1>8, RangeCases
  <2>2. c.blind
    BY <2>1 DEF Serves, SameRest
  <2>3. Finished(c, backfill.end).blind
    BY <2>1, <2>2, <1>1, FinishedKept DEF TaskT
  <2> QED BY <2>1, <2>2, <2>3 DEF Serves
<1>9. CASE DrainEnds
  <2>1. closer' = Finished(closer, backfill.end)
    BY <1>9 DEF DrainEnds
  <2> QED BY <2>1, <1>1, FinishedKept DEF TaskT
<1>10. CASE Lose
  <2>1. PICK c : c = [closer EXCEPT !.resolver = IF @.pc = "asking" THEN Idle ELSE @]
    OBVIOUS
  <2>2. c.blind = closer.blind
    BY <2>1, <1>1 DEF CloserT
  <2>3. Unhold(c).blind = c.blind
    <3>1. c \in CloserT
      <4>1. Idle \in ResolverT /\ closer.resolver \in ResolverT
        BY <1>1, CloserFields DEF Idle, ResolverT
      <4> QED BY <4>1, <2>1, <1>1 DEF CloserT
    <3> QED BY <3>1 DEF Unhold, CloserT
  <2>4. closer' \in {c, Unhold(c)}
    BY <2>1, <1>10 DEF Lose
  <2> QED BY <2>2, <2>3, <2>4
<1>11. CASE BarsRestored \/ RetryBars
  BY <1>4, <1>11 DEF BarsRestored, RetryBars
<1>12. CASE RetryTrendbars
  BY <1>3, <1>12 DEF RetryTrendbars, Takes
<1>13. CASE Deliver
  <2>1. PICK c, bar : c = Paid(closer).closer /\ bar = Head(wire)
    OBVIOUS
  <2>2. wire # <<>> /\ closer' = OnUpdate(c, bar)
    BY <2>1, <1>13 DEF Deliver, Takes
  <2>3. bar \in BarT
    BY <2>1, <2>2, <1>1
  <2> QED BY <2>1, <2>2, <2>3, <1>3, UpdateKept
<1>14. CASE Close
  <2>1. closer' = [closer EXCEPT !.closed = TRUE, !.current = NoBar, !.held = NoBar, !.queue = <<>>,
                                 !.resolver = Idle, !.drained = TRUE]
    BY <1>14 DEF Close
  <2> QED BY <2>1, <1>1 DEF CloserT
<1>15. CASE BringUp \/ TrendbarsRestored \/ Trade \/ Tick \/ UNCHANGED vars
  <2>1. closer' = closer
    BY <1>15 DEF BringUp, TrendbarsRestored, Trade, Tick, vars
  <2> QED BY <2>1
<1> QED BY <1>5, <1>6, <1>7, <1>8, <1>9, <1>10, <1>11, <1>12, <1>13, <1>14, <1>15 DEF Next

LEMMA StaysRaced ==
    ASSUME [Next]_vars, raced
    PROVE  raced'
  BY DEF Next, vars, ResolverStarts, HistoryServes, HistoryLacks, ResolverWakes, TimerFires, Unwinds,
         BackfillResumes, RangeServes, DrainEnds, RangeFails, Lose, BringUp, TrendbarsRestored,
         BarsRestored, RetryBars, RetryTrendbars, Deliver, Close, Trade, Tick

\* Until it is closed, every step keeps track of the bars the venue has.
LEMMA SoundStep ==
    ASSUME CloserInv, WireInv, WireInv', Sound, [Next]_vars, ~Close, ~closer.closed,
           ~raced', ~closer'.blind
    PROVE  Sound'
<1>1. ~RangeFails /\ ~RetryBars
  <2>1. backfillFailed => raced
    BY DEF CloserInv, TaskShape
  <2> QED BY <2>1 DEF RangeFails, RetryBars
<1>2. CASE ResolverStarts \/ HistoryServes \/ HistoryLacks \/ ResolverWakes
  BY <1>2, ResolverRight
<1>3. CASE TimerFires
  BY <1>3, TimerRight
<1>4. CASE Unwinds
  BY <1>4, UnwindsRight
<1>5. CASE BackfillResumes
  BY <1>5, BackfillResumesRight
<1>6. CASE RangeServes
  BY <1>6, RangeServesRight
<1>7. CASE DrainEnds
  BY <1>7, DrainEndsRight
<1>8. CASE Lose
  BY <1>8, LoseRight
<1>9. CASE BringUp \/ TrendbarsRestored
  BY <1>9, BringUpRight
<1>10. CASE BarsRestored
  BY <1>10, BarsRestoredRight
<1>11. CASE RetryTrendbars
  BY <1>11, RetryTrendbarsRight
<1>12. CASE Deliver
  BY <1>12, DeliverRight
<1>13. CASE Trade
  BY <1>13, TradeRight
<1>14. CASE Tick
  BY <1>14, TickRight
<1>15. CASE UNCHANGED vars
  BY <1>15 DEF Sound, Right, InHand, BackfillInv, FormingInv, GapInv, vars, venueVars, linkVars, taskVars,
               Traded, SettledTo, Settled, IsCovered, LastEmitted, IsQueued, Closed, VenueBar, Running,
               OnGrid, Fresh
<1> QED BY <1>1, <1>2, <1>3, <1>4, <1>5, <1>6, <1>7, <1>8, <1>9, <1>10, <1>11, <1>12, <1>13, <1>14,
           <1>15 DEF Next

\* A closed closer emits nothing more.
LEMMA ClosedStep ==
    ASSUME CloserInv, [Next]_vars, closer.closed, AllEmitted
    PROVE  closer'.closed /\ AllEmitted'
<1>1. /\ closer.resolver.pc = "none" /\ closer.current = NoBar /\ backfill.pc = "none" /\ Good(closer)
  BY DEF CloserInv, TaskShape, StateShape
<1>2. ~(ResolverStarts \/ HistoryServes \/ HistoryLacks \/ ResolverWakes \/ TimerFires)
  BY ResolverKept
<1>3. ~(BackfillResumes \/ RangeServes \/ DrainEnds \/ RangeFails)
  BY <1>1 DEF BackfillResumes, RangeServes, DrainEnds, RangeFails
<1>4. Unwinds \/ UNCHANGED vars
  BY <1>2, <1>3 DEF Next, Lose, BringUp, TrendbarsRestored, BarsRestored, RetryBars, RetryTrendbars,
                    Deliver, Close, Trade, Tick
<1>5. UNCHANGED <<venueVars, unserved>> /\ closer' \in {closer, Unhold(closer)}
  BY <1>4 DEF Unwinds, vars
<1>6. closer'.emitted = closer.emitted /\ closer'.closed
  BY <1>1, <1>5, UnholdKept DEF SameQueue
<1>7. AllEmitted'
  BY <1>5, <1>6 DEF AllEmitted, venueVars, IsCovered, LastEmitted, VenueBar
<1> QED BY <1>6, <1>7

LEMMA SoundEmits == Sound => AllEmitted
  BY DEF Sound, Right, AllEmitted

LEMMA MissedStep ==
    ASSUME CloserInv, WireInv, WireInv', MissedInv, [Next]_vars
    PROVE  MissedInv'
<1> SUFFICES ASSUME ~raced', ~closer'.blind
             PROVE  IF closer'.closed THEN AllEmitted' ELSE Sound'
  BY DEF MissedInv
<1>1. ~raced /\ ~closer.blind
  BY StaysBlind, StaysRaced
<1>2. CASE closer.closed
  BY <1>1, <1>2, ClosedStep DEF MissedInv
<1>3. CASE ~closer.closed /\ Close
  <2>1. AllEmitted
    BY <1>1, <1>3, SoundEmits DEF MissedInv
  <2>2. /\ closer' = [closer EXCEPT !.closed = TRUE, !.current = NoBar, !.held = NoBar, !.queue = <<>>,
                                    !.resolver = Idle, !.drained = TRUE]
        /\ UNCHANGED <<venueVars, unserved>>
    BY <1>3 DEF Close
  <2>3. closer'.emitted = closer.emitted /\ closer'.closed
    BY <2>2 DEF CloserInv, StateShape, Good, CloserT
  <2>4. AllEmitted'
    BY <2>1, <2>2, <2>3 DEF AllEmitted, venueVars, IsCovered, LastEmitted, VenueBar
  <2> QED BY <2>3, <2>4
<1>4. CASE ~closer.closed /\ ~Close
  <2>1. Sound'
    BY <1>1, <1>4, SoundStep DEF MissedInv
  <2>2. Sound' => AllEmitted'
    BY SoundEmits, PTL
  <2> QED BY <2>1, <2>2
<1> QED BY <1>2, <1>3, <1>4

LEMMA BarInitially == Init => BarInv
<1> SUFFICES ASSUME Init
             PROVE  WireInv /\ Sound
  BY CloserInitially, SoundEmits DEF BarInv, MissedInv
<1>1. /\ trades = [b \in Boundaries |-> 0] /\ wire = <<>> /\ unserved = {} /\ backfill = NoBackfill
      /\ closer = [phase |-> -1, emitted |-> <<>>, current |-> NoBar, queue |-> <<>>,
                   resolver |-> Idle, drained |-> TRUE, holding |-> FALSE, held |-> NoBar,
                   baseline |-> TRUE, closed |-> FALSE, blind |-> FALSE]
      /\ owes = barsFailed /\ (~barsFailed => streaming) /\ link = "ready"
      /\ streaming \in BOOLEAN /\ barsFailed \in BOOLEAN
  BY DEF Init
<1>2. /\ \A at \in Boundaries : ~(trades[at] > 0)
      /\ closer.emitted = <<>> /\ closer.queue = <<>> /\ closer.current = NoBar /\ closer.held = NoBar
      /\ backfill.pc = "none"
  BY <1>1 DEF NoBackfill
<1>3. WireInv
  BY <1>1, <1>2 DEF WireInv
<1>4. ToSet(closer.queue) = {} /\ LastEmitted(closer) = -1
  BY <1>2 DEF ToSet, LastEmitted
<1>5. Right(unserved, closer)
  BY <1>2, <1>4 DEF Right
<1>6. InHand(unserved, closer)
  BY <1>2 DEF InHand
<1>7. BackfillInv /\ FormingInv /\ GapInv
  BY <1>2 DEF BackfillInv, Running, FormingInv, GapInv
<1> QED BY <1>3, <1>5, <1>6, <1>7 DEF Sound

LEMMA BarAlways == Spec => []BarInv
<1>1. BarInv /\ [Next]_vars => BarInv'
  <2> SUFFICES ASSUME BarInv, [Next]_vars
               PROVE  BarInv'
    OBVIOUS
  <2>1. CloserInv' /\ WireInv'
    BY CloserStep, WireStep DEF BarInv
  <2>2. MissedInv'
    BY <2>1, MissedStep DEF BarInv
  <2> QED BY <2>1, <2>2 DEF BarInv
<1> QED BY <1>1, BarInitially, PTL DEF Spec

\* For any interleaving of the stream, the timer, any number of losses, the resolver's history
\* and backfills that are served, lost or replaced: once a bar is emitted, every bar the venue
\* has up to it went out as the venue has it, but those the resolver was not served
\* (on_update(), _resolve(), backfill() and _queue_tail()).  Not covered: an update that comes
\* between a reconnect and its backfill, a backfill that is refused, one that begins before any
\* bar was seen.
THEOREM NoBarMissed == Spec => []NothingMissed
<1>1. BarInv => NothingMissed
  BY SoundEmits DEF BarInv, MissedInv, NothingMissed
<1> QED BY <1>1, BarAlways, PTL

=============================================================================
