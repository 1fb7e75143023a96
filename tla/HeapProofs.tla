------------------------------ MODULE HeapProofs -----------------------------
(***************************************************************************)
(* What holds of the heap and its collector for every number of objects,   *)
(* references and borrows: the ledger is exact, a collection keeps what    *)
(* the program can reach, and with nothing borrowed it keeps no more.      *)
(***************************************************************************)
EXTENDS Heap, WellFoundedInduction, FiniteSetTheorems, TLAPS

\* Induction over the natural numbers, stated with a set.
LEMMA NatSetInduction ==
  ASSUME NEW P, 0 \in P, \A n \in Nat : n \in P => n + 1 \in P
  PROVE  Nat \subseteq P
<1> DEFINE Below == OpToRel(<, Nat)
           Rest == Nat \ P
<1>1. IsWellFoundedOn(Below, Nat) BY NatLessThanWellFounded
<1>2. \A n \in Rest : n - 1 \in Rest /\ <<n - 1, n>> \in Below BY DEF OpToRel
<1> HIDE DEF Below
<1> QED BY <1>1, <1>2, WFMin

-----------------------------------------------------------------------------
(* Least sets.                                                             *)

\* The least set of a monotone step is a fixed point of it.
LEMMA LeastIsFixed ==
  ASSUME NEW A, NEW step, \A S \in SUBSET A : step[S] \in SUBSET A,
         \A S, T \in SUBSET A : S \subseteq T => step[S] \subseteq step[T]
  PROVE  Least(A, step) \in SUBSET A /\ step[Least(A, step)] = Least(A, step)
<1> DEFINE L == Least(A, step)
<1>1. L \in SUBSET A BY DEF Least
<1>2. ASSUME NEW S \in SUBSET A, step[S] \subseteq S PROVE L \subseteq S
  BY <1>2 DEF Least
<1>3. \A o \in A : (\A S \in SUBSET A : step[S] \subseteq S => o \in S) => o \in L
  BY DEF Least
<1> HIDE DEF L
<1>4. step[L] \subseteq L
  <2> SUFFICES ASSUME NEW o \in step[L] PROVE o \in L OBVIOUS
  <2>1. o \in A BY <1>1
  <2>2. ASSUME NEW S \in SUBSET A, step[S] \subseteq S PROVE o \in S
    BY <1>1, <1>2, <2>2
  <2> QED BY <1>3, <2>1, <2>2
<1>5. step[step[L]] \subseteq step[L] BY <1>1, <1>4
<1>6. L \subseteq step[L] BY <1>1, <1>2, <1>5
<1> QED BY <1>1, <1>4, <1>6 DEF L

\* It is contained in every set that the step adds nothing to.
LEMMA LeastIsLeast ==
  ASSUME NEW A, NEW step, NEW S \in SUBSET A, step[S] \subseteq S
  PROVE  Least(A, step) \subseteq S
BY DEF Least

-----------------------------------------------------------------------------
(* The shape of the heap.                                                  *)

Records ==
  [allocations : Nat, alive : SUBSET Objects, content : [Objects -> Seq(Objects)],
   ledger : SUBSET Objects, live : Nat, tracking : BOOLEAN,
   accounted : [Objects -> Nat], bytes : Nat]

\* Nothing dangles, the ledger knows what exists, the counters are right.
Typed(h) ==
  /\ h \in Records /\ h.allocations <= MaxObjects
  /\ h.alive \subseteq h.ledger /\ h.ledger \subseteq 1..h.allocations
  /\ \A o \in Objects : Len(h.content[o]) <= MaxRefs
Closed(h) ==
  /\ \A o \in h.alive : Range(h.content[o]) \subseteq h.alive
  /\ \A o \in Objects : o \notin h.alive => h.content[o] = <<>>
Counted(h) ==
  /\ h.live = Cardinality(h.alive)
  /\ h.tracking => h.bytes = Total(h.accounted, h.alive)

Sound(h) == Typed(h) /\ Closed(h) /\ Counted(h)

\* Every object that exists is held or referred to.
Kept(h, out) == \A o \in h.alive : out[o] > 0 \/ \E p \in h.alive : o \in Range(h.content[p])

LEMMA FiniteObjects == \A S \in SUBSET Objects : IsFiniteSet(S) /\ Cardinality(S) \in Nat
<1>1. MaxObjects \in Nat BY BoundsAssumption
<1>2. IsFiniteSet(Objects) BY <1>1, FS_Interval DEF Objects
<1> QED BY <1>2, FS_Subset, FS_CardinalityType

-----------------------------------------------------------------------------
(* Byte counts.                                                            *)

Counts(size, S) == {u \in S \X (1..2) : u[2] <= size[u[1]]}

LEMMA CountsFinite ==
  ASSUME NEW size, NEW S \in SUBSET Objects
  PROVE  /\ IsFiniteSet(Counts(size, S))
         /\ Total(size, S) \in Nat /\ Total(size, S) = Cardinality(Counts(size, S))
<1>0. 1 \in Int /\ 2 \in Int OBVIOUS
<1>1. IsFiniteSet(1..2) BY <1>0, FS_Interval
<1>2. IsFiniteSet(S \X (1..2)) BY <1>1, FiniteObjects, FS_Product
<1>3. IsFiniteSet(Counts(size, S)) BY <1>2, FS_Subset DEF Counts
<1> QED BY <1>3, FS_CardinalityType DEF Counts, Total

\* What is taken away and what stays add up.
LEMMA TotalSplits ==
  ASSUME NEW size, NEW S \in SUBSET Objects, NEW D \in SUBSET S
  PROVE  /\ Total(size, S) = Total(size, D) + Total(size, S \ D)
         /\ Total(size, D) \in Nat /\ Total(size, S \ D) \in Nat
<1> DEFINE a == Counts(size, D)
           b == Counts(size, S \ D)
<1>1. /\ IsFiniteSet(a) /\ Total(size, D) \in Nat /\ Total(size, D) = Cardinality(a)
      /\ IsFiniteSet(b) /\ Total(size, S \ D) \in Nat /\ Total(size, S \ D) = Cardinality(b)
      /\ Total(size, S) = Cardinality(Counts(size, S))
  BY CountsFinite
<1>2. Counts(size, S) = a \cup b /\ a \cap b = {} BY DEF Counts
<1> HIDE DEF a, b
<1>3. Cardinality(a \cup b) = Cardinality(a) + Cardinality(b) - Cardinality({})
  BY <1>1, <1>2, FS_Union
<1>4. Cardinality({}) = 0 BY FS_EmptySet
<1> QED BY <1>1, <1>2, <1>3, <1>4

LEMMA BytesSplit ==
  ASSUME NEW h, h.alive \in SUBSET Objects, NEW dead \in SUBSET h.alive
  PROVE  /\ Total(h.accounted, dead) \in Nat /\ Total(h.accounted, h.alive \ dead) \in Nat
         /\ Total(h.accounted, h.alive)
              = Total(h.accounted, dead) + Total(h.accounted, h.alive \ dead)
<1>1. Total(h.accounted, dead) \in Nat BY TotalSplits
<1>2. Total(h.accounted, h.alive \ dead) \in Nat BY TotalSplits
<1>3. Total(h.accounted, h.alive)
        = Total(h.accounted, dead) + Total(h.accounted, h.alive \ dead)
  BY ZenonT(60), TotalSplits
<1> QED BY <1>1, <1>2, <1>3

LEMMA TotalSame ==
  ASSUME NEW size, NEW other, NEW S \in SUBSET Objects, \A o \in S : size[o] = other[o]
  PROVE  Total(size, S) = Total(other, S)
<1>1. Counts(size, S) = Counts(other, S) BY DEF Counts
<1> QED BY <1>1, CountsFinite

-----------------------------------------------------------------------------
(* Dropping references.                                                    *)

\* An object dies if no reference outside the heap is left to it and whatever
\* refers to it dies as well.
LEMMA DyingDef ==
  ASSUME NEW h, NEW out
  PROVE  LET dead == Dying(h, out) IN
         /\ dead \subseteq h.alive
         /\ \A o \in h.alive :
              o \in dead <=> out[o] = 0 /\ \A p \in h.alive \ dead : o \notin Range(h.content[p])
<1> DEFINE idle == {o \in h.alive : out[o] = 0}
           kept == [p \in h.alive |-> Range(h.content[p])]
           step == [S \in SUBSET idle |-> {o \in idle : \A p \in h.alive \ S : o \notin kept[p]}]
           dead == Least(idle, step)
<1>1. Dying(h, out) = dead BY DEF Dying
<1>2. \A S \in SUBSET idle : step[S] = {o \in idle : \A p \in h.alive \ S : o \notin kept[p]}
  OBVIOUS
<1>3. \A p \in h.alive : kept[p] = Range(h.content[p]) OBVIOUS
<1>4. \A o : o \in idle <=> o \in h.alive /\ out[o] = 0 OBVIOUS
<1> HIDE DEF idle, kept, step
<1>5. dead \in SUBSET idle /\ step[dead] = dead
  <2>1. \A S \in SUBSET idle : step[S] \in SUBSET idle BY <1>2
  <2>2. \A S, T \in SUBSET idle : S \subseteq T => step[S] \subseteq step[T] BY <1>2
  <2> QED BY <2>1, <2>2, LeastIsFixed
<1> HIDE DEF dead
<1>6. \A o : o \in dead <=> o \in idle /\ \A p \in h.alive \ dead : o \notin kept[p]
  BY <1>2, <1>5
<1>7. \A o \in h.alive :
        o \in dead <=> out[o] = 0 /\ \A p \in h.alive \ dead : o \notin Range(h.content[p])
  BY <1>3, <1>4, <1>6
<1> QED BY <1>1, <1>4, <1>5, <1>7

\* A set that needs nothing outside of it survives.
LEMMA SupportedSurvive ==
  ASSUME NEW h, NEW out, NEW K \in SUBSET h.alive,
         \A o \in K : out[o] > 0 \/ \E p \in K : o \in Range(h.content[p])
  PROVE  Dying(h, out) \cap K = {}
<1> DEFINE idle == {o \in h.alive : out[o] = 0}
           kept == [p \in h.alive |-> Range(h.content[p])]
           step == [S \in SUBSET idle |-> {o \in idle : \A p \in h.alive \ S : o \notin kept[p]}]
           rest == idle \ K
<1>1. Dying(h, out) = Least(idle, step) BY DEF Dying
<1>2. step[rest] = {o \in idle : \A p \in h.alive \ rest : o \notin kept[p]} OBVIOUS
<1>3. \A p \in h.alive : kept[p] = Range(h.content[p]) OBVIOUS
<1>4. \A o \in K \cap idle : \E p \in K : o \in Range(h.content[p])
  <2> SUFFICES ASSUME NEW o \in K, o \in idle PROVE \E p \in K : o \in Range(h.content[p])
    OBVIOUS
  <2>1. out[o] = 0 OBVIOUS
  <2> QED BY <2>1
<1> HIDE DEF kept, step
<1>5. step[rest] \subseteq rest BY <1>2, <1>3, <1>4
<1>6. rest \in SUBSET idle OBVIOUS
<1> HIDE DEF idle, rest
<1>7. Least(idle, step) \subseteq rest BY <1>5, <1>6, LeastIsLeast
<1> QED BY <1>1, <1>7 DEF rest

\* What a drop takes is released, and what is left is whole.
LEMMA DroppedSound ==
  ASSUME NEW h, NEW out, Typed(h), Counted(h), out \in [Objects -> Nat],
         \A o \in h.alive : Range(h.content[o]) \subseteq h.alive,
         \A o \in Objects : o \notin h.alive => h.content[o] = <<>>
  PROVE  LET d == Dropped(h, out) IN
         /\ Sound(d) /\ Kept(d, out)
         /\ d.alive = h.alive \ Dying(h, out)
         /\ \A o \in d.alive : d.content[o] = h.content[o]
         /\ d.ledger = h.ledger /\ d.allocations = h.allocations /\ d.tracking = h.tracking
         /\ \A o \in h.alive : out[o] > 0 => o \in d.alive
<1> DEFINE dead == Dying(h, out)
           freed == Total(h.accounted, dead)
           d == Dropped(h, out)
<1>1. /\ dead \subseteq h.alive
      /\ \A o \in h.alive :
           o \in dead <=> out[o] = 0 /\ \A p \in h.alive \ dead : o \notin Range(h.content[p])
  BY DyingDef
<1>2. d = [allocations |-> h.allocations, alive |-> h.alive \ dead,
           content |-> [o \in Objects |-> IF o \in dead THEN <<>> ELSE h.content[o]],
           ledger |-> h.ledger, live |-> h.live - Cardinality(dead), tracking |-> h.tracking,
           accounted |-> [o \in Objects |-> IF o \in dead THEN 0 ELSE h.accounted[o]],
           bytes |-> IF ~h.tracking THEN h.bytes
                     ELSE IF freed > h.bytes THEN 0 ELSE h.bytes - freed]
  <2>1. h \in Records BY DEF Typed
  <2> HIDE DEF dead, freed
  <2>2. d = Released(h, dead) BY DEF Dropped, dead
  <2> HIDE DEF d
  <2> QED BY <2>1, <2>2 DEF Released, Records, freed
<1> HIDE DEF d
<1>3. h \in Records /\ h.alive \in SUBSET Objects /\ dead \in SUBSET h.alive
  BY <1>1 DEF Typed, Records
<1>4. /\ freed \in Nat /\ Total(h.accounted, h.alive \ dead) \in Nat
      /\ Total(h.accounted, h.alive) = freed + Total(h.accounted, h.alive \ dead)
  BY <1>3, BytesSplit
<1>5. Total(d.accounted, h.alive \ dead) = Total(h.accounted, h.alive \ dead)
  <2>1. \A o \in h.alive \ dead : d.accounted[o] = h.accounted[o] BY <1>2, <1>3
  <2> QED BY <1>3, <2>1, TotalSame
<1>6. /\ Cardinality(h.alive \ dead) = h.live - Cardinality(dead)
      /\ Cardinality(dead) \in Nat /\ Cardinality(h.alive \ dead) \in Nat
  <2>1. h.alive \cap dead = dead BY <1>3
  <2>2. Cardinality(h.alive \ dead) = Cardinality(h.alive) - Cardinality(dead)
    BY <1>3, <2>1, FiniteObjects, FS_Difference
  <2>3. dead \in SUBSET Objects /\ h.alive \ dead \in SUBSET Objects BY <1>3
  <2> QED BY <2>2, <2>3, FiniteObjects DEF Counted
<1> HIDE DEF freed, dead
<1>7. d.tracking => d.bytes = Total(d.accounted, h.alive \ dead)
  BY <1>2, <1>4, <1>5 DEF Counted
<1>8. d \in Records
  <2>1. d.bytes \in Nat BY <1>2, <1>3, <1>4 DEF Records
  <2>2. d.live \in Nat BY <1>2, <1>6
  <2>3. d.content \in [Objects -> Seq(Objects)] BY <1>2, <1>3 DEF Records
  <2>4. d.accounted \in [Objects -> Nat] BY <1>2, <1>3 DEF Records
  <2> QED BY <1>2, <1>3, <2>1, <2>2, <2>3, <2>4 DEF Records
<1>9. Typed(d)
  <2>1. \A o \in Objects : Len(d.content[o]) <= MaxRefs
    BY <1>2, BoundsAssumption DEF Typed
  <2> QED BY <1>2, <1>8, <2>1 DEF Typed
<1>10. Closed(d)
  <2>1. \A o \in h.alive \ dead : Range(h.content[o]) \subseteq h.alive \ dead BY <1>1
  <2> QED BY <1>2, <1>3, <2>1 DEF Closed
<1>11. Counted(d) BY <1>2, <1>6, <1>7 DEF Counted
<1>12. Kept(d, out)
  <2> SUFFICES ASSUME NEW o \in h.alive \ dead, out[o] = 0
               PROVE  \E p \in h.alive \ dead : o \in Range(d.content[p])
    BY <1>2, <1>3 DEF Kept
  <2>1. PICK p \in h.alive \ dead : o \in Range(h.content[p]) BY <1>1
  <2>2. d.content[p] = h.content[p] BY <1>2, <1>3
  <2> QED BY <2>1, <2>2
<1>13. \A o \in h.alive : out[o] > 0 => o \in d.alive BY <1>1, <1>2, <1>3
<1>14. \A o \in d.alive : d.content[o] = h.content[o] BY <1>2, <1>3
<1>15. d.alive = h.alive \ Dying(h, out) BY <1>2 DEF dead
<1> QED BY <1>2, <1>9, <1>10, <1>11, <1>12, <1>13, <1>14, <1>15 DEF Sound, d

\* A recount keeps what exists and makes the byte counter right.
LEMMA ObservedSound ==
  ASSUME NEW h, Typed(h), Closed(h), h.live = Cardinality(h.alive)
  PROVE  LET d == Observed(h) IN
         /\ Sound(d)
         /\ d.alive = h.alive /\ d.content = h.content /\ d.allocations = h.allocations
         /\ d.tracking = h.tracking
         /\ d.ledger = IF h.tracking THEN h.ledger \cap h.alive ELSE h.ledger
<1> DEFINE sizes == [o \in Objects |->
                       IF o \in h.alive /\ borrow[o] # "mutable" THEN Size(h.content[o])
                       ELSE h.accounted[o]]
           d == [allocations |-> h.allocations, alive |-> h.alive, content |-> h.content,
                 ledger |-> h.ledger \cap h.alive, live |-> h.live, tracking |-> h.tracking,
                 accounted |-> sizes, bytes |-> Total(sizes, h.alive)]
<1>1. h \in Records /\ h.alive \in SUBSET Objects /\ h.ledger \cap h.alive = h.alive
  BY DEF Typed, Records
<1>2. sizes \in [Objects -> Nat] BY <1>1 DEF Records, Size
<1>3. Total(sizes, h.alive) \in Nat BY <1>1, CountsFinite
<1>4. h.tracking => Observed(h) = d
  <2> HIDE DEF sizes
  <2>1. h.tracking => Observed(h) = [h EXCEPT !.ledger = @ \cap h.alive, !.accounted = sizes,
                                              !.bytes = Total(sizes, h.alive)]
    BY <1>1 DEF Observed, sizes
  <2> QED BY <1>1, <2>1 DEF Records
<1> HIDE DEF sizes
<1>5. Sound(d)
  <2>1. d \in Records BY <1>1, <1>2, <1>3 DEF Records
  <2>2. Typed(d) BY <1>1, <2>1 DEF Typed
  <2> QED BY <2>2 DEF Sound, Closed, Counted
<1>6. ~ h.tracking => Observed(h) = h /\ Sound(h) BY <1>1 DEF Observed, Sound, Counted
<1> QED BY <1>1, <1>4, <1>5, <1>6

\* A new object is recorded with references to objects that exist.
LEMMA RecordedSound ==
  ASSUME NEW h, Sound(h), h.allocations + 1 \in Objects,
         NEW refs \in Seq(Objects), Range(refs) \subseteq h.alive, Len(refs) <= MaxRefs
  PROVE  LET o == h.allocations + 1
             d == Recorded(h, o, refs) IN
         /\ Sound(d) /\ d.allocations = o
         /\ o \notin h.alive /\ d.alive = h.alive \cup {o}
         /\ d.content = [h.content EXCEPT ![o] = refs]
<1> DEFINE o == h.allocations + 1
           e == [h EXCEPT !.allocations = o, !.alive = @ \cup {o},
                          !.content[o] = refs, !.ledger = @ \cup {o}, !.live = @ + 1]
<1>1. h \in Records /\ Typed(h) /\ Closed(h) /\ Counted(h) BY DEF Sound, Typed
<1>2. o \in Objects /\ o \in Nat /\ h.allocations \in Nat BY <1>1 DEF Records
<1>3. o \notin h.ledger /\ o \notin h.alive BY <1>1, <1>2 DEF Typed
<1>4. Recorded(h, o, refs) = Observed(e) BY DEF Recorded
<1>9. /\ e.allocations = o /\ e.alive = h.alive \cup {o} /\ e.ledger = h.ledger \cup {o}
      /\ e.content = [h.content EXCEPT ![o] = refs] /\ e.live = h.live + 1 /\ e \in Records
  <2>1. e.allocations = o BY <1>1 DEF Records
  <2>2. e.alive = h.alive \cup {o} BY <1>1 DEF Records
  <2>3. e.ledger = h.ledger \cup {o} BY <1>1 DEF Records
  <2>4. e.content = [h.content EXCEPT ![o] = refs] BY <1>1 DEF Records
  <2>5. e.live = h.live + 1 BY <1>1 DEF Records
  <2>6. e \in Records
    <3> DEFINE n == h.live + 1
               more == [h.content EXCEPT ![o] = refs]
    <3>1. n \in Nat /\ more \in [Objects -> Seq(Objects)]
      BY <1>1, <1>2 DEF Records
    <3>2. e = [h EXCEPT !.allocations = o, !.alive = @ \cup {o},
                        !.content = more, !.ledger = @ \cup {o}, !.live = n]
      OBVIOUS
    <3> HIDE DEF n, more, e, o
    <3> QED BY <1>1, <1>2, <3>1, <3>2 DEF Records
  <2> QED BY <2>1, <2>2, <2>3, <2>4, <2>5, <2>6
<1> HIDE DEF e
<1>5. Typed(e)
  <2>2. e.allocations <= MaxObjects BY <1>2, <1>9, BoundsAssumption DEF Objects
  <2>3. h.ledger \cup {o} \subseteq 1..o BY <1>1, <1>2 DEF Typed
  <2>4. \A x \in Objects : Len(e.content[x]) <= MaxRefs BY <1>1, <1>2, <1>9 DEF Typed, Records
  <2> QED BY <1>1, <1>9, <2>2, <2>3, <2>4 DEF Typed
<1>6. Closed(e) BY ZenonT(60), <1>1, <1>2, <1>3, <1>9 DEF Closed, Records
<1>7. e.live = Cardinality(e.alive)
  <2>1. h.alive \in SUBSET Objects BY <1>1 DEF Records
  <2>2. Cardinality(h.alive \cup {o}) = Cardinality(h.alive) + 1
    BY <1>3, <2>1, FiniteObjects, FS_AddElement
  <2> QED BY <1>1, <1>9, <2>2 DEF Counted
<1> HIDE DEF o
<1>8. /\ Sound(Observed(e)) /\ Observed(e).alive = e.alive
      /\ Observed(e).content = e.content /\ Observed(e).allocations = e.allocations
  BY <1>5, <1>6, <1>7, ObservedSound
<1> QED BY <1>3, <1>4, <1>8, <1>9 DEF o

-----------------------------------------------------------------------------
(* The collector.                                                          *)

EdgesOf(h, S, o) == {e \in S \X (1..MaxRefs) :
                       e[2] \in DOMAIN h.content[e[1]] /\ h.content[e[1]][e[2]] = o}

\* There are more references to an object from T than from a part S of it if
\* one of them comes from elsewhere.
LEMMA MoreEdges ==
  ASSUME NEW h, Typed(h), NEW T \in SUBSET h.alive, NEW S \in SUBSET T, NEW o
  PROVE  /\ Edges(h, S, o) \in Nat /\ Edges(h, T, o) \in Nat
         /\ Edges(h, S, o) <= Edges(h, T, o)
         /\ Edges(h, T, o) > Edges(h, S, o) <=> \E p \in T \ S : o \in Range(h.content[p])
<1> DEFINE a == EdgesOf(h, S, o)
           b == EdgesOf(h, T, o)
<1>1. Edges(h, S, o) = Cardinality(a) /\ Edges(h, T, o) = Cardinality(b)
  BY DEF Edges, EdgesOf
<1>2. h \in Records /\ T \in SUBSET Objects /\ MaxRefs \in Nat
  BY BoundsAssumption DEF Typed, Records
<1>3. IsFiniteSet(b)
  <2>1. IsFiniteSet(1..MaxRefs) BY <1>2, FS_Interval
  <2>2. IsFiniteSet(T \X (1..MaxRefs)) BY <1>2, <2>1, FiniteObjects, FS_Product
  <2> QED BY <2>2, FS_Subset DEF EdgesOf
<1>4. a \in SUBSET b BY DEF EdgesOf
<1>5. (\E p \in T \ S : o \in Range(h.content[p])) <=> a # b
  <2>1. ASSUME NEW p \in T \ S, o \in Range(h.content[p]) PROVE a # b
    <3>1. PICK i \in DOMAIN h.content[p] : h.content[p][i] = o BY <2>1 DEF Range
    <3>2. h.content[p] \in Seq(Objects) /\ Len(h.content[p]) <= MaxRefs
      BY <1>2 DEF Typed, Records
    <3>3. i \in 1..MaxRefs BY <1>2, <3>1, <3>2
    <3>4. <<p, i>> \in b /\ <<p, i>> \notin a BY <3>1, <3>3 DEF EdgesOf
    <3> QED BY <3>4
  <2>2. ASSUME a # b PROVE \E p \in T \ S : o \in Range(h.content[p])
    <3>1. PICK e \in b : e \notin a BY <1>4, <2>2
    <3>2. e[1] \in T \ S /\ o \in Range(h.content[e[1]]) BY <3>1 DEF EdgesOf, Range
    <3> QED BY <3>2
  <2> QED BY <2>1, <2>2
<1> HIDE DEF a, b
<1>6. /\ IsFiniteSet(a) /\ Cardinality(a) <= Cardinality(b)
      /\ Cardinality(a) = Cardinality(b) => a = b
  BY <1>3, <1>4, FS_Subset
<1>7. Cardinality(a) \in Nat /\ Cardinality(b) \in Nat BY <1>3, <1>6, FS_CardinalityType
<1>8. Cardinality(b) > Cardinality(a) <=> a # b BY <1>6, <1>7
<1> QED BY <1>1, <1>5, <1>6, <1>7, <1>8

\* What the collector assumes of the references and borrows outside the heap.
Outside(h) ==
  /\ held \in [Objects -> Nat]
  /\ \A o \in Objects : held[o] > 0 => o \in h.alive
  /\ \A o \in Objects : borrow[o] # "none" => held[o] > 0

\* A root is held, or referred to by an object that cannot be inspected.
LEMMA RootDef ==
  ASSUME NEW h, Typed(h), Outside(h), NEW o \in Inspected(h)
  PROVE  StrongCount(h, o) > Incoming(h, o)
           <=> held[o] > 0 \/ \E p \in h.alive \ Inspected(h) : o \in Range(h.content[p])
<1> DEFINE all == Edges(h, h.alive, o)
           seen == Edges(h, Inspected(h), o)
<1>1. Inspected(h) \in SUBSET h.alive BY DEF Inspected
<1>2. /\ seen \in Nat /\ all \in Nat /\ seen <= all
      /\ all > seen <=> \E p \in h.alive \ Inspected(h) : o \in Range(h.content[p])
  BY <1>1, MoreEdges
<1>3. held[o] \in Nat BY <1>1 DEF Outside, Typed, Records
<1>4. StrongCount(h, o) = held[o] + all /\ Incoming(h, o) = seen BY DEF StrongCount, Incoming
<1> HIDE DEF all, seen
<1>5. held[o] + all > seen <=> held[o] > 0 \/ all > seen BY <1>2, <1>3
<1> QED BY <1>2, <1>4, <1>5

\* The roots are marked, and what marked objects refer to; nothing else is.
LEMMA MarkedDef ==
  ASSUME NEW h
  PROVE  /\ Marked(h) \subseteq Inspected(h)
         /\ \A o \in Inspected(h) :
              o \in Marked(h) <=> \/ StrongCount(h, o) > Incoming(h, o)
                                  \/ \E p \in Marked(h) : o \in Range(h.content[p])
<1> DEFINE all == Inspected(h)
           roots == {o \in all : StrongCount(h, o) > Incoming(h, o)}
           step == [S \in SUBSET all |->
                      roots \cup {o \in all : \E p \in S : o \in Range(h.content[p])}]
           marked == Least(all, step)
<1>1. Marked(h) = marked BY DEF Marked
<1>2. \A S \in SUBSET all :
        step[S] = roots \cup {o \in all : \E p \in S : o \in Range(h.content[p])}
  OBVIOUS
<1>3. \A o : o \in roots <=> o \in all /\ StrongCount(h, o) > Incoming(h, o) OBVIOUS
<1> HIDE DEF all, roots, step
<1>4. marked \in SUBSET all /\ step[marked] = marked
  <2>1. \A S \in SUBSET all : step[S] \in SUBSET all BY <1>2, <1>3
  <2>2. \A S, T \in SUBSET all : S \subseteq T => step[S] \subseteq step[T] BY <1>2
  <2> QED BY <2>1, <2>2, LeastIsFixed
<1> HIDE DEF marked
<1>5. \A o : o \in marked
        <=> o \in roots \/ (o \in all /\ \E p \in marked : o \in Range(h.content[p]))
  BY <1>2, <1>4
<1> QED BY <1>1, <1>3, <1>4, <1>5 DEF all

\* What a collection leaves alone.
Garbage(h) == Inspected(h) \ Marked(h)
Survivors(h) == h.alive \ Garbage(h)

\* The survivors need no other object, lead to no other, and are all that is
\* held: nothing that dies when the garbage is cleared is theirs.
LEMMA SurvivorsSupported ==
  ASSUME NEW h, Sound(h), Kept(h, held), Outside(h)
  PROVE  /\ \A o \in Survivors(h) :
              held[o] > 0 \/ \E p \in Survivors(h) : o \in Range(h.content[p])
         /\ \A p \in Survivors(h) : Range(h.content[p]) \subseteq Survivors(h)
         /\ \A o \in h.alive : held[o] > 0 => o \in Survivors(h)
<1>1. /\ Typed(h) /\ h.alive \subseteq Objects /\ h.alive \subseteq h.ledger
      /\ \A p \in h.alive : Range(h.content[p]) \subseteq h.alive
  BY DEF Sound, Typed, Closed, Records
<1>2. \A o \in h.alive : o \notin Inspected(h) => held[o] > 0
  BY <1>1 DEF Inspected, Outside
<1>3. Inspected(h) \subseteq h.alive BY DEF Inspected
<1>4. \A o \in Inspected(h) :
        StrongCount(h, o) > Incoming(h, o)
          <=> held[o] > 0 \/ \E p \in h.alive \ Inspected(h) : o \in Range(h.content[p])
  BY <1>1, RootDef
<1>5. \A o \in Inspected(h) :
        o \in Marked(h) <=>
          \/ held[o] > 0 \/ \E p \in h.alive \ Inspected(h) : o \in Range(h.content[p])
          \/ \E p \in Marked(h) : o \in Range(h.content[p])
  BY <1>4, MarkedDef
<1>6. /\ Marked(h) \subseteq Inspected(h)
      /\ \A o : o \in Survivors(h) <=> o \in Marked(h) \/ (o \in h.alive /\ o \notin Inspected(h))
  BY <1>3, MarkedDef DEF Survivors, Garbage
<1>7. ASSUME NEW o \in Survivors(h), ~(held[o] > 0)
      PROVE  \E p \in Survivors(h) : o \in Range(h.content[p])
  BY <1>2, <1>5, <1>6, <1>7
<1>8. ASSUME NEW p \in Survivors(h), NEW o \in Range(h.content[p]) PROVE o \in Survivors(h)
  <2>1. o \in h.alive BY <1>1, <1>3, <1>6
  <2> QED BY <1>5, <1>6, <2>1
<1>9. ASSUME NEW o \in h.alive, held[o] > 0 PROVE o \in Survivors(h) BY <1>5, <1>6, <1>9
<1> QED BY <1>7, <1>8, <1>9

\* After n objects of the ledger the survivors are as they were, and the
\* garbage among those objects refers to nothing.
Swept(h, x, n) ==
  /\ Sound(x) /\ Kept(x, held)
  /\ x.alive \subseteq h.alive
  /\ \A o \in Survivors(h) : o \in x.alive /\ x.content[o] = h.content[o]
  /\ \A o \in x.alive : o \in Garbage(h) /\ o <= n => x.content[o] = <<>>

\* e is x with other references in n.
With(x, n, refs, e) == e = [x EXCEPT !.content[n] = refs]

\* An object may come to hold other references to objects that exist.
LEMMA StoredTyped ==
  ASSUME NEW x, Sound(x), NEW n \in x.alive,
         NEW refs \in Seq(Objects), Range(refs) \subseteq x.alive, Len(refs) <= MaxRefs,
         NEW e, With(x, n, refs, e)
  PROVE  /\ Typed(e) /\ Counted(e) /\ e.alive = x.alive /\ n \in Objects
         /\ \A o \in Objects : e.content[o] = IF o = n THEN refs ELSE x.content[o]
         /\ \A o \in x.alive : Range(e.content[o]) \subseteq x.alive
         /\ \A o \in Objects : o \notin x.alive => e.content[o] = <<>>
<1> DEFINE more == [x.content EXCEPT ![n] = refs]
<1>1. x \in Records /\ n \in Objects /\ x.alive \subseteq Objects BY DEF Sound, Typed, Records
<1>2. more \in [Objects -> Seq(Objects)] BY <1>1 DEF Records
<1>3. \A o \in Objects : more[o] = IF o = n THEN refs ELSE x.content[o] BY <1>1 DEF Records
<1>4. e = [x EXCEPT !.content = more] BY DEF With
<1> HIDE DEF more
<1>5. e \in Records BY <1>1, <1>2, <1>4 DEF Records
<1>6. /\ e.content = more /\ e.alive = x.alive /\ e.allocations = x.allocations
      /\ e.ledger = x.ledger /\ e.live = x.live /\ e.tracking = x.tracking
      /\ e.accounted = x.accounted /\ e.bytes = x.bytes
  BY <1>1, <1>4 DEF Records
<1>7. \A o \in Objects : Len(more[o]) <= MaxRefs BY <1>3 DEF Sound, Typed
<1>8. Typed(e) BY <1>5, <1>6, <1>7 DEF Typed, Sound
<1>9. Counted(e) BY <1>6 DEF Counted, Sound
<1>10. \A o \in x.alive : Range(more[o]) \subseteq x.alive
  BY <1>1, <1>3 DEF Sound, Closed
<1>11. \A o \in Objects : o \notin x.alive => more[o] = <<>> BY <1>3 DEF Sound, Closed
<1> QED BY <1>1, <1>3, <1>6, <1>8, <1>9, <1>10, <1>11

\* Clearing one object keeps the sweep going.
LEMMA ClearOneSweeps ==
  ASSUME NEW h, Sound(h), Kept(h, held), Outside(h),
         NEW x, NEW n \in 1..MaxObjects, Swept(h, x, n - 1)
  PROVE  Swept(h, ClearOne(x, Garbage(h), n), n)
<1>1. /\ Sound(x) /\ Kept(x, held) /\ x.alive \subseteq h.alive
      /\ \A o \in Survivors(h) : o \in x.alive /\ x.content[o] = h.content[o]
      /\ \A o \in x.alive : o \in Garbage(h) /\ o <= n - 1 => x.content[o] = <<>>
  BY DEF Swept
<1>2. \A o \in h.alive : o \in Survivors(h) <=> o \notin Garbage(h) BY DEF Survivors
<1>3. x.alive \subseteq 1..MaxObjects /\ MaxObjects \in Nat
  BY <1>1, BoundsAssumption DEF Sound, Typed, Records, Objects
<1>4. CASE n \in Garbage(h) \cap x.alive /\ borrow[n] = "none"
  <2> DEFINE e == [x EXCEPT !.content[n] = <<>>]
             d == Dropped(e, held)
  <2>1. n \in x.alive BY <1>4
  <2>2. /\ Typed(e) /\ Counted(e) /\ e.alive = x.alive
        /\ \A o \in Objects : e.content[o] = IF o = n THEN <<>> ELSE x.content[o]
        /\ \A o \in x.alive : Range(e.content[o]) \subseteq x.alive
        /\ \A o \in Objects : o \notin x.alive => e.content[o] = <<>>
    <3> DEFINE none == <<>>
    <3>1. none \in Seq(Objects) /\ Range(none) \subseteq x.alive /\ Len(none) <= MaxRefs
      BY BoundsAssumption DEF Range
    <3>2. With(x, n, none, e) BY DEF With
    <3>3. n \in x.alive /\ Sound(x) BY <1>1, <2>1
    <3> HIDE DEF e, d, none
    <3>4. /\ Typed(e) /\ Counted(e) /\ e.alive = x.alive
          /\ \A o \in Objects : e.content[o] = IF o = n THEN none ELSE x.content[o]
          /\ \A o \in x.alive : Range(e.content[o]) \subseteq x.alive
          /\ \A o \in Objects : o \notin x.alive => e.content[o] = <<>>
      BY <3>1, <3>2, <3>3, StoredTyped
    <3> QED BY <3>4 DEF none
  <2>3. ClearOne(x, Garbage(h), n) = d BY <1>4 DEF ClearOne
  <2>4. held \in [Objects -> Nat] BY DEF Outside
  <2> HIDE DEF e, d
  <2>5. /\ Sound(d) /\ Kept(d, held)
        /\ d.alive = e.alive \ Dying(e, held)
        /\ \A o \in d.alive : d.content[o] = e.content[o]
    BY <2>2, <2>4, DroppedSound DEF d
  <2>6. x.alive \subseteq Objects BY <1>1 DEF Sound, Typed, Records
  <2>7. \A o \in Survivors(h) : o \in e.alive /\ e.content[o] = h.content[o]
    BY <1>1, <1>2, <1>4, <2>2, <2>6
  <2>8. Dying(e, held) \cap Survivors(h) = {}
    <3>1. \A o \in Survivors(h) : held[o] > 0 \/ \E p \in Survivors(h) : o \in Range(e.content[p])
      BY <2>7, SurvivorsSupported
    <3>2. Survivors(h) \in SUBSET e.alive BY <2>7
    <3> QED BY <3>1, <3>2, SupportedSurvive
  <2>9. \A o \in Survivors(h) : o \in d.alive /\ d.content[o] = h.content[o]
    BY <2>5, <2>7, <2>8
  <2>10. ASSUME NEW o \in d.alive, o \in Garbage(h), o <= n PROVE d.content[o] = <<>>
    <3>1. o \in x.alive /\ o \in Objects /\ d.content[o] = e.content[o]
      BY <2>2, <2>5, <2>6, <2>10
    <3>2. CASE o = n BY <2>2, <3>1, <3>2
    <3>3. CASE o # n
      <4>1. o <= n - 1 BY <1>3, <2>10, <3>1, <3>3
      <4> QED BY <1>1, <2>2, <2>10, <3>1, <3>3, <4>1
    <3> QED BY <3>2, <3>3
  <2>11. d.alive \subseteq h.alive BY <1>1, <2>2, <2>5
  <2>12. Swept(h, d, n) BY <2>5, <2>9, <2>10, <2>11 DEF Swept
  <2> QED BY <2>3, <2>12
<1>5. CASE ~(n \in Garbage(h) \cap x.alive /\ borrow[n] = "none")
  <2>1. ClearOne(x, Garbage(h), n) = x BY <1>5 DEF ClearOne
  <2>2. ~(n \in Garbage(h) /\ n \in x.alive)
    <3> SUFFICES ASSUME n \in Garbage(h), n \in x.alive PROVE borrow[n] = "none" BY <1>5
    <3>1. n \in h.alive /\ n \in Objects BY <1>1, <1>3 DEF Objects
    <3>2. ~(held[n] > 0) BY <1>2, <3>1, SurvivorsSupported
    <3> QED BY <3>1, <3>2 DEF Outside
  <2>3. ASSUME NEW o \in x.alive, o \in Garbage(h), o <= n PROVE x.content[o] = <<>>
    <3>1. o # n BY <2>2, <2>3
    <3>2. o <= n - 1 BY <1>3, <2>3, <3>1
    <3> QED BY <1>1, <2>3, <3>2
  <2>4. Swept(h, x, n) BY <1>1, <2>3 DEF Swept
  <2> QED BY <2>1, <2>4
<1> QED BY <1>4, <1>5

LEMMA ClearedSweeps ==
  ASSUME NEW h, Sound(h), Kept(h, held), Outside(h)
  PROVE  Swept(h, Cleared(h), MaxObjects)
<1> DEFINE g == Garbage(h)
           One(x, n) == ClearOne(x, g, n)
           Rule(f, m) == [n \in 0..m |-> IF n = 0 THEN h ELSE One(f[n - 1], n)]
           Good == {m \in Nat : \E f : f = Rule(f, m)}
<1>0. MaxObjects \in Nat BY BoundsAssumption
<1>1. 0 \in Good
  <2> HIDE DEF One
  <2>1. [n \in 0..0 |-> h] = Rule([n \in 0..0 |-> h], 0) OBVIOUS
  <2> QED BY <2>1
<1>2. ASSUME NEW m \in Nat, m \in Good PROVE m + 1 \in Good
  <2> HIDE DEF One
  <2>1. PICK f : f = Rule(f, m) BY <1>2
  <2> DEFINE e == [n \in 0..(m + 1) |-> IF n <= m THEN f[n] ELSE One(f[n - 1], n)]
  <2>2. \A n \in 0..m : f[n] = IF n = 0 THEN h ELSE One(f[n - 1], n) BY <2>1
  <2>3. \A n \in 0..m : e[n] = f[n] OBVIOUS
  <2>4. \A n \in 1..(m + 1) : e[n - 1] = f[n - 1] OBVIOUS
  <2>5. \A n \in 0..(m + 1) : e[n] = IF n = 0 THEN h ELSE One(e[n - 1], n)
    <3> TAKE n \in 0..(m + 1)
    <3>1. CASE n <= m BY <3>1, <2>2, <2>3, <2>4
    <3>2. CASE n = m + 1 BY <3>2, <2>4
    <3> QED BY <3>1, <3>2
  <2> HIDE DEF e
  <2>6. e = Rule(e, m + 1) BY <2>5 DEF e
  <2>7. \E x : x = Rule(x, m + 1)
    <3> HIDE DEF Rule
    <3> WITNESS e
    <3> QED BY <2>6
  <2> HIDE DEF Rule
  <2> QED BY <2>7
<1>3. MaxObjects \in Good BY <1>0, <1>1, <1>2, NatSetInduction
<1>4. PICK f : f = Rule(f, MaxObjects) BY <1>3
<1> DEFINE t == CHOOSE t : t = [n \in 0..MaxObjects |->
                                  IF n = 0 THEN h ELSE ClearOne(t[n - 1], g, n)]
<1>5. t = Rule(t, MaxObjects) BY <1>4
<1>6. Cleared(h) = t[MaxObjects] BY DEF Cleared, Garbage
<1> HIDE DEF t, g
<1>7. t[0] = h /\ \A n \in 1..MaxObjects : t[n] = ClearOne(t[n - 1], g, n) BY <1>0, <1>5
<1> DEFINE Done == {n \in Nat : n <= MaxObjects => Swept(h, t[n], n)}
<1>8. 0 \in Done
  <2>1. h.alive \subseteq Objects BY DEF Sound, Typed, Records
  <2>2. Swept(h, h, 0) BY <1>0, <2>1 DEF Swept, Survivors, Objects
  <2> QED BY <1>7, <2>2
<1>9. ASSUME NEW n \in Nat, n \in Done PROVE n + 1 \in Done
  <2> SUFFICES ASSUME n + 1 <= MaxObjects PROVE Swept(h, t[n + 1], n + 1) OBVIOUS
  <2>1. n + 1 \in 1..MaxObjects /\ (n + 1) - 1 = n BY <1>0
  <2>2. Swept(h, t[n], n) BY <1>0, <1>9
  <2>3. t[n + 1] = ClearOne(t[n], Garbage(h), n + 1) BY <1>7, <2>1 DEF g
  <2>4. Swept(h, t[n], (n + 1) - 1) BY <2>1, <2>2
  <2>5. Swept(h, ClearOne(t[n], Garbage(h), n + 1), n + 1)
    BY <2>1, <2>4, ClearOneSweeps
  <2> QED BY <2>3, <2>5
<1>10. MaxObjects \in Done
  <2> HIDE DEF Done
  <2> QED BY <1>0, <1>8, <1>9, NatSetInduction
<1> QED BY <1>0, <1>6, <1>10

\* A collection keeps the survivors; what else is left refers to nothing, and
\* the ledger forgets what is gone.
LEMMA CollectedSound ==
  ASSUME NEW h, Sound(h), Kept(h, held), Outside(h)
  PROVE  LET d == Collected(h) IN
         /\ Sound(d) /\ Kept(d, held) /\ d.ledger = d.alive /\ d.alive \subseteq h.alive
         /\ \A o \in Survivors(h) : o \in d.alive /\ d.content[o] = h.content[o]
         /\ \A o \in d.alive : o \in Garbage(h) => d.content[o] = <<>>
<1> DEFINE x == Cleared(h)
           e == Pruned(x)
<1>1. Swept(h, x, MaxObjects) BY ClearedSweeps
<1> HIDE DEF x
<1>2. Sound(x) /\ x \in Records /\ x.alive \subseteq x.ledger /\ x.alive \subseteq 1..MaxObjects
  BY <1>1 DEF Swept, Sound, Typed, Records, Objects
<1>3. e = [x EXCEPT !.ledger = x.alive]
  <2>1. x.ledger \cap x.alive = x.alive BY <1>2
  <2> QED BY <2>1 DEF Pruned
<1> HIDE DEF e
<1>4. /\ e \in Records /\ e.alive = x.alive /\ e.content = x.content /\ e.ledger = x.alive
      /\ e.allocations = x.allocations /\ e.live = x.live /\ e.tracking = x.tracking
  BY <1>2, <1>3 DEF Records
<1>5. Typed(e)
  <2>1. x.alive \subseteq 1..x.allocations BY <1>2 DEF Sound, Typed
  <2> QED BY <1>2, <1>4, <2>1 DEF Typed, Sound
<1>6. Closed(e) BY <1>2, <1>4 DEF Closed, Sound
<1>7. e.live = Cardinality(e.alive) BY <1>2, <1>4 DEF Counted, Sound
<1>8. /\ Sound(Observed(e)) /\ Observed(e).alive = e.alive /\ Observed(e).content = e.content
      /\ Observed(e).ledger = IF e.tracking THEN e.ledger \cap e.alive ELSE e.ledger
  BY <1>5, <1>6, <1>7, ObservedSound
<1>9. Collected(h) = Observed(e) BY DEF Collected, e, x
<1>10. Observed(e).ledger = x.alive BY <1>4, <1>8
<1>11. Kept(Observed(e), held) BY <1>1, <1>4, <1>8 DEF Kept, Swept
<1>12. \A o \in x.alive : o <= MaxObjects BY <1>2, BoundsAssumption
<1> QED BY <1>1, <1>4, <1>8, <1>9, <1>10, <1>11, <1>12 DEF Swept

-----------------------------------------------------------------------------
(* The inductive invariant.                                                *)

HeapInv ==
  /\ Sound(heap) /\ Kept(heap, held) /\ Outside(heap)
  /\ held \in [Objects -> 0..MaxHeld]
  /\ borrow \in [Objects -> {"none", "shared", "mutable"}]

LEMMA ContentsDef ==
  ASSUME NEW S \in SUBSET Objects, NEW refs \in Contents(S)
  PROVE  refs \in Seq(Objects) /\ Range(refs) \subseteq S /\ Len(refs) <= MaxRefs
<1>1. PICK n \in 0..MaxRefs : refs \in [1..n -> S] BY DEF Contents
<1>2. n \in Nat /\ n <= MaxRefs BY BoundsAssumption
<1>3. refs \in Seq(Objects) /\ Len(refs) = n BY <1>1, <1>2
<1>4. Range(refs) \subseteq S BY <1>1 DEF Range
<1> QED BY <1>2, <1>3, <1>4

LEMMA InitHeap == Init => HeapInv
<1> SUFFICES ASSUME Init PROVE HeapInv OBVIOUS
<1>1. /\ heap.allocations = 0 /\ heap.alive = {} /\ heap.ledger = {} /\ heap.live = 0
      /\ heap.content = [o \in Objects |-> <<>>] /\ heap.tracking = FALSE
      /\ heap \in Records
  BY DEF Init, NewHeap, Records
<1>2. Typed(heap) BY <1>1, BoundsAssumption DEF Typed
<1>3. Closed(heap) BY <1>1 DEF Closed
<1>4. Counted(heap) BY <1>1, FS_EmptySet DEF Counted
<1>5. 0 \in 0..MaxHeld BY BoundsAssumption
<1>6. Kept(heap, held) /\ Outside(heap) BY <1>1 DEF Init, Kept, Outside
<1> QED BY <1>2, <1>3, <1>4, <1>5, <1>6 DEF HeapInv, Sound, Init

LEMMA AllocateKeeps ==
  ASSUME HeapInv, NEW refs \in Contents(Nameable), Allocate(refs) PROVE HeapInv'
<1> DEFINE o == heap.allocations + 1
<1>1. Nameable \in SUBSET Objects /\ Nameable \subseteq heap.alive
  BY DEF Nameable, HeapInv, Sound, Typed, Records
<1>2. refs \in Seq(Objects) /\ Range(refs) \subseteq heap.alive /\ Len(refs) <= MaxRefs
  BY <1>1, ContentsDef
<1>3. o \in Objects /\ heap' = Recorded(heap, o, refs) BY DEF Allocate
<1>4. held' = [held EXCEPT ![o] = 1] /\ borrow' = borrow BY DEF Allocate
<1>5. /\ Sound(heap') /\ o \notin heap.alive /\ heap'.alive = heap.alive \cup {o}
      /\ heap'.content = [heap.content EXCEPT ![o] = refs]
  BY <1>2, <1>3, RecordedSound DEF HeapInv
<1> HIDE DEF o
<1>6. /\ heap.alive \subseteq Objects /\ heap.content \in [Objects -> Seq(Objects)]
      /\ MaxHeld \in Nat /\ 1 \in 0..MaxHeld
  BY BoundsAssumption DEF HeapInv, Sound, Typed, Records
<1>7. held' \in [Objects -> 0..MaxHeld] /\ held' \in [Objects -> Nat]
  <2>1. held' \in [Objects -> 0..MaxHeld] BY <1>4, <1>6 DEF HeapInv
  <2>2. 0..MaxHeld \subseteq Nat BY <1>6
  <2> QED BY <2>1, <2>2
<1>8. \A p \in Objects : held'[p] = IF p = o THEN 1 ELSE held[p] BY <1>4 DEF HeapInv
<1>9. \A p \in heap.alive : heap'.content[p] = heap.content[p] BY <1>5, <1>6
<1>10. Kept(heap', held')
  <2> SUFFICES ASSUME NEW x \in heap'.alive, ~(held'[x] > 0)
               PROVE  \E p \in heap'.alive : x \in Range(heap'.content[p])
    BY DEF Kept
  <2>1. x \in heap.alive /\ ~(held[x] > 0) BY <1>3, <1>5, <1>6, <1>8
  <2>2. PICK p \in heap.alive : x \in Range(heap.content[p]) BY <2>1 DEF HeapInv, Kept
  <2> QED BY <1>5, <1>9, <2>2
<1>11. Outside(heap)' BY <1>3, <1>4, <1>5, <1>7, <1>8 DEF HeapInv, Outside
<1>12. Sound(heap)' /\ Kept(heap, held)' BY <1>5, <1>10
  DEF Sound, Kept, Typed, Closed, Counted
<1> QED BY <1>4, <1>7, <1>11, <1>12 DEF HeapInv

LEMMA DropKeeps ==
  ASSUME HeapInv, NEW o \in heap.alive, Drop(o) PROVE HeapInv'
<1>1. /\ held' = [held EXCEPT ![o] = @ - 1] /\ held[o] > 0 /\ borrow' = borrow
      /\ held[o] = 1 => borrow[o] = "none"
      /\ heap' = Dropped(heap, held')
  BY DEF Drop
<1>2. o \in Objects /\ MaxHeld \in Nat
  BY BoundsAssumption DEF HeapInv, Sound, Typed, Records
<1>3. held' \in [Objects -> 0..MaxHeld] /\ held' \in [Objects -> Nat]
  BY <1>1, <1>2 DEF HeapInv
<1>4. \A p \in Objects : held'[p] = IF p = o THEN held[p] - 1 ELSE held[p]
  BY <1>1 DEF HeapInv
<1> DEFINE out == held'
<1>5. out \in [Objects -> Nat] /\ heap' = Dropped(heap, out) BY <1>1, <1>3
<1> HIDE DEF out
<1>6. /\ Sound(heap') /\ Kept(heap', out)
      /\ \A p \in heap.alive : out[p] > 0 => p \in heap'.alive
  BY <1>5, DroppedSound DEF HeapInv, Sound, Closed
<1>7. \A p \in Objects : held[p] \in Nat BY <1>2 DEF HeapInv
<1>8. \A p \in Objects : held'[p] > 0 => p \in heap'.alive
  BY <1>4, <1>6, <1>7 DEF HeapInv, Outside, out
<1>9. \A p \in Objects : borrow[p] # "none" => held'[p] > 0
  BY <1>1, <1>4, <1>7 DEF HeapInv, Outside
<1>10. Outside(heap)' BY <1>1, <1>3, <1>8, <1>9 DEF Outside
<1>11. Sound(heap)' /\ Kept(heap, held)' BY <1>6 DEF out, Sound, Kept, Typed, Closed, Counted
<1> QED BY <1>1, <1>3, <1>10, <1>11 DEF HeapInv

LEMMA StoreKeeps ==
  ASSUME HeapInv, NEW o \in heap.alive, NEW refs \in Contents(heap.alive), Store(o, refs)
  PROVE  HeapInv'
<1> DEFINE e == [heap EXCEPT !.content[o] = refs]
<1>1. heap' = Dropped(e, held) /\ held' = held /\ borrow' = borrow BY DEF Store
<1>2. heap.alive \in SUBSET Objects BY DEF HeapInv, Sound, Typed, Records
<1>3. refs \in Seq(Objects) /\ Range(refs) \subseteq heap.alive /\ Len(refs) <= MaxRefs
  BY <1>2, ContentsDef
<1>4. /\ Typed(e) /\ Counted(e) /\ e.alive = heap.alive
      /\ \A p \in heap.alive : Range(e.content[p]) \subseteq heap.alive
      /\ \A p \in Objects : p \notin heap.alive => e.content[p] = <<>>
  <2>1. With(heap, o, refs, e) BY DEF With
  <2> HIDE DEF e
  <2>3. Sound(heap) BY DEF HeapInv
  <2> QED BY <1>3, <2>1, <2>3, StoredTyped
<1> HIDE DEF e
<1>5. held \in [Objects -> Nat] BY DEF HeapInv, Outside
<1>6. /\ Sound(heap') /\ Kept(heap', held)
      /\ \A p \in heap.alive : held[p] > 0 => p \in heap'.alive
  BY <1>1, <1>4, <1>5, DroppedSound
<1>7. Outside(heap)' BY <1>1, <1>6 DEF HeapInv, Outside
<1>8. Sound(heap)' /\ Kept(heap, held)' BY <1>1, <1>6 DEF Sound, Kept, Typed, Closed, Counted
<1> QED BY <1>1, <1>7, <1>8 DEF HeapInv

LEMMA MeasureKeeps == ASSUME HeapInv, Measure PROVE HeapInv'
<1> DEFINE e == [heap EXCEPT !.tracking = TRUE]
<1>1. heap' = Observed(e) /\ held' = held /\ borrow' = borrow BY DEF Measure
<1>2. heap \in Records BY DEF HeapInv, Sound, Typed
<1>3. /\ e \in Records /\ e.alive = heap.alive /\ e.content = heap.content
      /\ e.ledger = heap.ledger /\ e.allocations = heap.allocations /\ e.live = heap.live
  BY <1>2 DEF Records
<1> HIDE DEF e
<1>4. Typed(e) /\ Closed(e) /\ e.live = Cardinality(e.alive)
  BY <1>3 DEF HeapInv, Sound, Typed, Closed, Counted
<1>5. Sound(Observed(e)) /\ Observed(e).alive = e.alive /\ Observed(e).content = e.content
  BY <1>4, ObservedSound
<1>6. Kept(heap', held) /\ Outside(heap)' BY <1>1, <1>3, <1>5 DEF HeapInv, Kept, Outside
<1>7. Sound(heap)' /\ Kept(heap, held)' BY <1>1, <1>5, <1>6
  DEF Sound, Kept, Typed, Closed, Counted
<1> QED BY <1>1, <1>6, <1>7 DEF HeapInv

LEMMA CollectKeeps == ASSUME HeapInv, CollectGarbage PROVE HeapInv'
<1> DEFINE d == Collected(heap)
<1>1. heap' = d /\ held' = held /\ borrow' = borrow BY DEF CollectGarbage
<1>2. /\ Sound(d) /\ Kept(d, held)
      /\ \A o \in Survivors(heap) : o \in d.alive
  BY CollectedSound DEF HeapInv
<1> HIDE DEF d
<1>3. \A o \in Objects : held[o] > 0 => o \in d.alive
  BY <1>2, SurvivorsSupported DEF HeapInv, Outside
<1>4. Outside(heap)' BY <1>1, <1>3 DEF HeapInv, Outside
<1>5. Sound(heap)' /\ Kept(heap, held)' BY <1>1, <1>2 DEF Sound, Kept, Typed, Closed, Counted
<1> QED BY <1>1, <1>4, <1>5 DEF HeapInv

\* What only touches the references outside the heap, or nothing.
LEMMA OutsideKeeps ==
  ASSUME HeapInv, heap' = heap, held' \in [Objects -> 0..MaxHeld],
         borrow' \in [Objects -> {"none", "shared", "mutable"}],
         \A o \in Objects : held'[o] >= held[o],
         \A o \in Objects : held'[o] > 0 => o \in heap.alive,
         \A o \in Objects : borrow'[o] # "none" => held'[o] > 0
  PROVE  HeapInv'
<1>1. MaxHeld \in Nat BY BoundsAssumption
<1>2. Outside(heap)' BY <1>1 DEF Outside
<1>3. \A o \in Objects : held[o] > 0 => held'[o] > 0 BY <1>1 DEF HeapInv
<1>4. heap.alive \subseteq Objects BY DEF HeapInv, Sound, Typed, Records
<1>5. Kept(heap, held)' BY <1>3, <1>4 DEF HeapInv, Kept
<1>6. Sound(heap)' BY DEF HeapInv, Sound, Typed, Closed, Counted
<1> QED BY <1>2, <1>5, <1>6 DEF HeapInv

LEMMA NextHeap == ASSUME HeapInv, [Next]_vars PROVE HeapInv'
<1>1. /\ heap.alive \subseteq Objects /\ MaxHeld \in Nat
      /\ held \in [Objects -> 0..MaxHeld]
      /\ borrow \in [Objects -> {"none", "shared", "mutable"}]
      /\ \A o \in Objects : held[o] > 0 => o \in heap.alive
      /\ \A o \in Objects : borrow[o] # "none" => held[o] > 0
  BY BoundsAssumption DEF HeapInv, Sound, Typed, Records, Outside
<1>2. CASE \E refs \in Contents(Nameable) : Allocate(refs) BY <1>2, AllocateKeeps
<1>3. ASSUME NEW o \in heap.alive, Load(o) PROVE HeapInv'
  <2>1. heap' = heap /\ borrow' = borrow /\ held' = [held EXCEPT ![o] = @ + 1] /\ held[o] < MaxHeld
    BY <1>3 DEF Load
  <2>2. o \in Objects BY <1>1
  <2>3. \A p \in Objects : held'[p] = IF p = o THEN held[p] + 1 ELSE held[p]
    BY <1>1, <2>1, <2>2
  <2>4. held' \in [Objects -> 0..MaxHeld] BY <1>1, <2>1, <2>2
  <2>5. /\ \A p \in Objects : held'[p] >= held[p]
        /\ \A p \in Objects : held'[p] > 0 => p \in heap.alive
        /\ \A p \in Objects : borrow'[p] # "none" => held'[p] > 0
    BY <1>1, <2>1, <2>2, <2>3
  <2> QED BY <1>1, <2>1, <2>4, <2>5, OutsideKeeps
<1>4. ASSUME NEW o \in heap.alive, Drop(o) PROVE HeapInv' BY <1>4, DropKeeps
<1>5. ASSUME NEW o \in heap.alive, NEW refs \in Contents(heap.alive), Store(o, refs)
      PROVE  HeapInv'
  BY <1>5, StoreKeeps
<1>6. ASSUME NEW o \in heap.alive, NEW how \in {"shared", "mutable"}, BeginBorrow(o, how)
      PROVE  HeapInv'
  <2>1. heap' = heap /\ held' = held /\ borrow' = [borrow EXCEPT ![o] = how] /\ held[o] > 0
    BY <1>6 DEF BeginBorrow, Nameable
  <2>2. borrow' \in [Objects -> {"none", "shared", "mutable"}] BY <1>1, <2>1
  <2>3. \A p \in Objects : borrow'[p] # "none" => held'[p] > 0 BY <1>1, <2>1
  <2> QED BY <1>1, <2>1, <2>2, <2>3, OutsideKeeps
<1>7. ASSUME NEW o \in heap.alive, EndBorrow(o) PROVE HeapInv'
  <2>1. heap' = heap /\ held' = held /\ borrow' = [borrow EXCEPT ![o] = "none"]
    BY <1>7 DEF EndBorrow
  <2>2. borrow' \in [Objects -> {"none", "shared", "mutable"}] BY <1>1, <2>1
  <2>3. \A p \in Objects : borrow'[p] # "none" => held'[p] > 0 BY <1>1, <2>1
  <2> QED BY <1>1, <2>1, <2>2, <2>3, OutsideKeeps
<1>8. CASE UNCHANGED vars BY <1>1, <1>8, OutsideKeeps DEF vars
<1> QED BY <1>2, <1>3, <1>4, <1>5, <1>6, <1>7, <1>8, MeasureKeeps, CollectKeeps DEF Next

LEMMA HeapSound == Spec => []HeapInv
BY InitHeap, NextHeap, PTL DEF Spec

-----------------------------------------------------------------------------
(* The properties.                                                         *)

\* Nothing dangles and every counter of the ledger is exact, in every
\* reachable state.
THEOREM LedgerIsExact == Spec => []LedgerExact
<1>1. HeapInv => LedgerExact
  <2> SUFFICES ASSUME HeapInv PROVE LedgerExact OBVIOUS
  <2>1. TypeOK
    <3>1. heap.allocations \in 0..MaxObjects
      BY BoundsAssumption DEF HeapInv, Sound, Typed, Records
    <3> QED BY <3>1 DEF TypeOK, HeapInv, Sound, Typed, Closed, Outside
  <2>2. CountersExact BY DEF CountersExact, HeapInv, Sound, Counted
  <2> QED BY <2>1, <2>2 DEF LedgerExact
<1> QED BY <1>1, HeapSound, PTL

\* What is reachable is held, or referred to by something reachable.
LEMMA ReachableDef ==
  /\ Reachable \subseteq heap.alive
  /\ \A o \in heap.alive :
       o \in Reachable <=> held[o] > 0 \/ \E p \in Reachable : o \in Range(heap.content[p])
  /\ \A S \in SUBSET heap.alive :
       (\A o \in heap.alive : held[o] > 0 \/ (\E p \in S : o \in Range(heap.content[p])) => o \in S)
         => Reachable \subseteq S
<1> DEFINE all == heap.alive
           step == [S \in SUBSET all |->
                      {o \in all : held[o] > 0 \/ \E p \in S : o \in Range(heap.content[p])}]
           reach == Least(all, step)
<1>1. Reachable = reach BY DEF Reachable
<1>2. \A S \in SUBSET all :
        step[S] = {o \in all : held[o] > 0 \/ \E p \in S : o \in Range(heap.content[p])}
  OBVIOUS
<1> HIDE DEF step, all
<1>3. reach \in SUBSET all /\ step[reach] = reach
  <2>1. \A S \in SUBSET all : step[S] \in SUBSET all BY <1>2
  <2>2. \A S, T \in SUBSET all : S \subseteq T => step[S] \subseteq step[T] BY <1>2
  <2> QED BY <2>1, <2>2, LeastIsFixed
<1>4. \A S \in SUBSET all : step[S] \subseteq S => reach \subseteq S BY LeastIsLeast
<1> HIDE DEF reach
<1>5. \A o : o \in reach
        <=> o \in all /\ (held[o] > 0 \/ \E p \in reach : o \in Range(heap.content[p]))
  BY <1>2, <1>3
<1>6. \A S \in SUBSET all :
       (\A o \in all : held[o] > 0 \/ (\E p \in S : o \in Range(heap.content[p])) => o \in S)
         => reach \subseteq S
  BY <1>2, <1>4
<1> QED BY <1>1, <1>3, <1>5, <1>6 DEF all

LEMMA ReachableSurvives == ASSUME HeapInv PROVE Reachable \subseteq Survivors(heap)
<1>1. /\ \A p \in Survivors(heap) : Range(heap.content[p]) \subseteq Survivors(heap)
      /\ \A o \in heap.alive : held[o] > 0 => o \in Survivors(heap)
  BY SurvivorsSupported DEF HeapInv
<1>2. Survivors(heap) \in SUBSET heap.alive BY DEF Survivors
<1> QED BY <1>1, <1>2, ReachableDef

\* The reachable objects are among the survivors, and a collection leaves the
\* survivors as they were.
THEOREM CollectionKeepsReachable == Spec => ReachableKept
<1>1. ASSUME HeapInv, CollectGarbage
      PROVE  /\ Reachable \subseteq heap'.alive
             /\ \A o \in Reachable : heap'.content[o] = heap.content[o]
  <2>1. heap' = Collected(heap) BY <1>1 DEF CollectGarbage
  <2>2. \A o \in Survivors(heap) : o \in Collected(heap).alive
                                     /\ Collected(heap).content[o] = heap.content[o]
    BY <1>1, CollectedSound DEF HeapInv
  <2> QED BY <1>1, <2>1, <2>2, ReachableSurvives
<1>2. HeapInv /\ [Next]_vars =>
        [CollectGarbage =>
          /\ Reachable \subseteq heap'.alive
          /\ \A o \in Reachable : heap'.content[o] = heap.content[o] ]_vars
  BY <1>1
<1> QED BY <1>2, HeapSound, PTL DEF Spec, ReachableKept

\* With nothing borrowed everything is inspected, so what is marked is
\* reachable; what is not was emptied, and nothing is left that refers to it.
THEOREM CollectionLeavesReachable == Spec => GarbageGone
<1>1. ASSUME HeapInv, CollectGarbage, \A o \in Objects : borrow[o] = "none"
      PROVE  heap'.alive = Reachable /\ heap'.ledger = Reachable
  <2> DEFINE d == Collected(heap)
  <2>1. heap' = d BY <1>1 DEF CollectGarbage
  <2>2. /\ Kept(d, held) /\ d.ledger = d.alive /\ d.alive \subseteq heap.alive
        /\ \A o \in Survivors(heap) : o \in d.alive /\ d.content[o] = heap.content[o]
        /\ \A o \in d.alive : o \in Garbage(heap) => d.content[o] = <<>>
    BY <1>1, CollectedSound DEF HeapInv
  <2> HIDE DEF d
  <2>3. heap.alive \subseteq Objects /\ heap.alive \subseteq heap.ledger /\ Typed(heap)
    BY <1>1 DEF HeapInv, Sound, Typed, Records
  <2>4. Inspected(heap) = heap.alive BY <1>1, <2>3 DEF Inspected
  <2>5. Survivors(heap) = Marked(heap)
    BY <2>4, MarkedDef DEF Survivors, Garbage
  <2>6. Marked(heap) \subseteq Reachable
    <3> DEFINE all == Inspected(heap)
               roots == {o \in all : StrongCount(heap, o) > Incoming(heap, o)}
               step == [S \in SUBSET all |->
                          roots \cup {o \in all : \E p \in S : o \in Range(heap.content[p])}]
    <3>1. Marked(heap) = Least(all, step) BY DEF Marked
    <3>2. Reachable \in SUBSET all BY <2>4, ReachableDef
    <3>3. roots \subseteq Reachable
      <4>1. ASSUME NEW o \in Inspected(heap), StrongCount(heap, o) > Incoming(heap, o)
            PROVE  o \in Reachable
        <5>1. held[o] > 0 BY <1>1, <2>3, <2>4, <4>1, RootDef DEF HeapInv
        <5> QED BY <2>4, <5>1, ReachableDef
      <4> QED BY <4>1
    <3>4. \A o \in all : (\E p \in Reachable : o \in Range(heap.content[p])) => o \in Reachable
      BY <2>4, ReachableDef
    <3>5. step[Reachable] \subseteq Reachable
      <4> HIDE DEF roots, all
      <4> QED BY <3>2, <3>3, <3>4
    <3> HIDE DEF all, step
    <3> QED BY ZenonT(60), <3>1, <3>2, <3>5, LeastIsLeast
  <2>7. Reachable = Survivors(heap) BY <1>1, <2>5, <2>6, ReachableSurvives
  <2>8. d.alive \subseteq Survivors(heap)
    <3> SUFFICES ASSUME NEW o \in d.alive, o \notin Survivors(heap) PROVE FALSE OBVIOUS
    <3>1. o \in heap.alive /\ ~(held[o] > 0) BY <1>1, <2>2, SurvivorsSupported DEF HeapInv
    <3>2. PICK p \in d.alive : o \in Range(d.content[p]) BY <2>2, <3>1 DEF Kept
    <3>3. CASE p \in Survivors(heap)
      <4>1. o \in Range(heap.content[p]) BY <2>2, <3>2, <3>3
      <4> QED BY <1>1, <3>3, <4>1, SurvivorsSupported DEF HeapInv
    <3>4. CASE p \notin Survivors(heap)
      <4>1. p \in Garbage(heap) BY <2>2, <3>4 DEF Survivors
      <4>2. d.content[p] = <<>> BY <2>2, <4>1
      <4> QED BY <3>2, <4>2 DEF Range
    <3> QED BY <3>3, <3>4
  <2> QED BY <2>1, <2>2, <2>7, <2>8
<1>2. HeapInv /\ [Next]_vars =>
        [CollectGarbage /\ (\A o \in Objects : borrow[o] = "none")
          => heap'.alive = Reachable /\ heap'.ledger = Reachable ]_vars
  BY <1>1
<1> QED BY <1>2, HeapSound, PTL DEF Spec, GarbageGone
=============================================================================
