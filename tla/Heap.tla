-------------------------------- MODULE Heap --------------------------------
(***************************************************************************)
(* The VM heap of vm-rs/src/runtime.rs: reference-counted storage, a       *)
(* ledger of weak entries with its counters, and the collector that        *)
(* reclaims cycles.  An object is its place in the allocation order, and   *)
(* what it contains is the sequence of references in its values, variants  *)
(* and closures included; values without references are left out.  The     *)
(* five kinds of objects have the same code and counters of their own: one *)
(* kind stands for all.  The collector has no root list: an object with    *)
(* more strong references than edges found in the heap is a root.          *)
(***************************************************************************)
EXTENDS Naturals, Sequences, FiniteSets, Functions

CONSTANTS
    MaxObjects,     \* allocations of one execution
    MaxRefs,        \* references one object may contain
    MaxEdges,       \* references all objects together may contain
    MaxHeld,        \* references one object may have outside the heap
    MaxBorrows      \* objects borrowed at a time

\* An allocation gives a reference to the object.
ASSUME BoundsAssumption ==
    {MaxObjects, MaxRefs, MaxEdges, MaxHeld, MaxBorrows} \subseteq Nat /\ MaxHeld > 0

Objects == 1..MaxObjects

VARIABLES
    heap,       \* storage and ledger, see NewHeap
    held,       \* held[o]: strong references to o outside the heap
    borrow      \* borrow[o]: "none", "shared" or "mutable", across a call

vars == <<heap, held, borrow>>

NewHeap ==
    [allocations |-> 0,                         \* objects allocated so far
     alive |-> {},                              \* objects whose storage exists
     content |-> [o \in Objects |-> <<>>],      \* the references in an object
     ledger |-> {},                             \* objects with a weak entry
     live |-> 0,
     tracking |-> FALSE,                        \* track_estimated_bytes
     accounted |-> [o \in Objects |-> 0],       \* bytes last seen in an object
     bytes |-> 0]                               \* live_estimated_bytes

Init ==
    /\ heap = NewHeap
    /\ held = [o \in Objects |-> 0]
    /\ borrow = [o \in Objects |-> "none"]

-----------------------------------------------------------------------------
(* Reference counts.                                                       *)

\* Edges into o from the objects in S.
Edges(h, S, o) ==
    Cardinality({e \in S \X (1..MaxRefs) :
                    e[2] \in DOMAIN h.content[e[1]] /\ h.content[e[1]][e[2]] = o})

StrongCount(h, o) == held[o] + Edges(h, h.alive, o)

\* The least subset of A that step adds nothing to.
Least(A, step) == {o \in A : \A S \in SUBSET A : step[S] \subseteq S => o \in S}

\* The objects whose count falls to zero, one after another, when out are the
\* references outside the heap: no object is left that refers to them.
Dying(h, out) ==
    LET idle == {o \in h.alive : out[o] = 0}
        kept == [p \in h.alive |-> Range(h.content[p])]
    IN  Least(idle, [S \in SUBSET idle |->
                        {o \in idle : \A p \in h.alive \ S : o \notin kept[p]}])

-----------------------------------------------------------------------------
(* The ledger.                                                             *)

Size(refs) == IF refs = <<>> THEN 1 ELSE 2
Total(size, S) == Cardinality({u \in S \X (1..2) : u[2] <= size[u[1]]})

\* Seeded fault: releasing what the object holds now, not what was counted.
ReleasedAtCurrentSize(h, dead) ==
    LET freed == Total([o \in Objects |-> Size(h.content[o])], dead)
    IN  [h EXCEPT
            !.alive = @ \ dead,
            !.content = [o \in Objects |-> IF o \in dead THEN <<>> ELSE @[o]],
            !.accounted = [o \in Objects |-> IF o \in dead THEN 0 ELSE @[o]],
            !.live = @ - Cardinality(dead),
            !.bytes = IF ~h.tracking THEN @ ELSE IF freed > @ THEN 0 ELSE @ - freed]

\* The storage in dead is dropped: release, once per object.
Released(h, dead) ==
    LET freed == Total(h.accounted, dead)
    IN  [h EXCEPT
            !.alive = @ \ dead,
            !.content = [o \in Objects |-> IF o \in dead THEN <<>> ELSE @[o]],
            !.accounted = [o \in Objects |-> IF o \in dead THEN 0 ELSE @[o]],
            !.live = @ - Cardinality(dead),
            !.bytes = IF ~h.tracking THEN @ ELSE IF freed > @ THEN 0 ELSE @ - freed]

Dropped(h, out) == Released(h, Dying(h, out))

\* observe_estimated_bytes: recount, keep the last size of what is mutably
\* borrowed, drop dead entries.
Observed(h) ==
    LET sizes == [o \in Objects |->
                    IF o \in h.alive /\ borrow[o] # "mutable" THEN Size(h.content[o])
                    ELSE h.accounted[o]]
    IN  IF ~h.tracking THEN h
        ELSE [h EXCEPT !.ledger = @ \cap h.alive,
                       !.accounted = sizes, !.bytes = Total(sizes, h.ledger \cap h.alive)]

Recorded(h, o, refs) ==
    Observed([h EXCEPT !.allocations = o, !.alive = @ \cup {o},
                       !.content[o] = refs, !.ledger = @ \cup {o}, !.live = @ + 1])

-----------------------------------------------------------------------------
(* The collector.                                                          *)

\* What inspect can read: a mutably borrowed object is left out, and its
\* edges with it.
Inspected(h) == {o \in h.ledger \cap h.alive : borrow[o] # "mutable"}

\* Seeded fault: one edge per referring object.
IncomingOnce(h, o) == Cardinality({p \in Inspected(h) : o \in Range(h.content[p])})

Incoming(h, o) == Edges(h, Inspected(h), o)

\* Seeded fault: roots are not traced.
MarkedRoots(h) == {o \in Inspected(h) : StrongCount(h, o) > Incoming(h, o)}

\* The roots, and what they refer to, directly or through others.
Marked(h) ==
    LET all   == Inspected(h)
        roots == {o \in all : StrongCount(h, o) > Incoming(h, o)}
    IN  Least(all, [S \in SUBSET all |->
                        roots \cup {o \in all : \E p \in S : o \in Range(h.content[p])}])

\* clear_references on an object: one that died with an earlier one is gone, and
\* one that is borrowed stays as it is.
ClearOne(h, garbage, o) ==
    IF o \in garbage \cap h.alive /\ borrow[o] = "none"
    THEN Dropped([h EXCEPT !.content[o] = <<>>], held) ELSE h

\* The unreachable objects are cleared in ledger order.
Cleared(h) ==
    LET garbage == Inspected(h) \ Marked(h)
        cleared[n \in 0..MaxObjects] ==
            IF n = 0 THEN h ELSE ClearOne(cleared[n - 1], garbage, n)
    IN  cleared[MaxObjects]

Pruned(h) == [h EXCEPT !.ledger = @ \cap h.alive]
Collected(h) == Observed(Pruned(Cleared(h)))

-----------------------------------------------------------------------------
(* The program.                                                            *)

\* The order of the references in an object is of no account: refs ascends.
Contents(S) == {refs \in UNION {[1..n -> S] : n \in 0..MaxRefs} :
                    \A i, j \in DOMAIN refs : i < j => refs[i] <= refs[j]}

Crowded(h) == Cardinality({e \in h.alive \X (1..MaxRefs) : e[2] \in DOMAIN h.content[e[1]]})
              > MaxEdges

\* The program can name what it holds and what the objects it may read contain.
Nameable == {o \in heap.alive : held[o] > 0}
Readable == {o \in Nameable : borrow[o] # "mutable"}

\* new_environment, new_cell, allocate_array, allocate_map, allocate_struct.
Allocate(refs) ==
    LET o == heap.allocations + 1 IN
    /\ o \in Objects
    /\ heap' = Recorded(heap, o, refs)
    /\ ~Crowded(heap')
    /\ held' = [held EXCEPT ![o] = 1]
    /\ UNCHANGED borrow

\* A value is cloned out of a register or out of an object.
Load(o) ==
    /\ o \in Nameable \/ \E p \in Readable : o \in Range(heap.content[p])
    /\ held[o] < MaxHeld
    /\ held' = [held EXCEPT ![o] = @ + 1]
    /\ UNCHANGED <<heap, borrow>>

\* A reference outside the heap goes away; a borrow outlives none of its own.
Drop(o) ==
    /\ held[o] > 0
    /\ held[o] = 1 => borrow[o] = "none"
    /\ held' = [held EXCEPT ![o] = @ - 1]
    /\ heap' = Dropped(heap, held')
    /\ UNCHANGED borrow

\* Assignment, insertion, removal: some references stay, others come from outside.
Store(o, refs) ==
    /\ o \in Nameable /\ borrow[o] # "shared"
    /\ Range(refs) \subseteq Nameable \cup Range(heap.content[o])
    /\ heap' = Dropped([heap EXCEPT !.content[o] = refs], held)
    /\ ~Crowded(heap')
    /\ UNCHANGED <<held, borrow>>

BeginBorrow(o, how) ==
    /\ o \in Nameable /\ borrow[o] = "none"
    /\ Cardinality({x \in Objects : borrow[x] # "none"}) < MaxBorrows
    /\ borrow' = [borrow EXCEPT ![o] = how]
    /\ UNCHANGED <<heap, held>>

EndBorrow(o) ==
    /\ borrow[o] # "none"
    /\ borrow' = [borrow EXCEPT ![o] = "none"]
    /\ UNCHANGED <<heap, held>>

\* Heap::stats, and HeapStats::snapshot after it.
Measure ==
    /\ heap' = Observed([heap EXCEPT !.tracking = TRUE])
    /\ UNCHANGED <<held, borrow>>

CollectGarbage ==
    /\ UNCHANGED <<held, borrow>>
    /\ heap' = Collected(heap)

Next ==
    \/ \E refs \in Contents(Nameable) : Allocate(refs)
    \/ \E o \in heap.alive : Load(o)
    \/ \E o \in heap.alive : Drop(o)
    \/ \E o \in heap.alive : \E refs \in Contents(heap.alive) : Store(o, refs)
    \/ \E o \in heap.alive : \E how \in {"shared", "mutable"} : BeginBorrow(o, how)
    \/ \E o \in heap.alive : EndBorrow(o)
    \/ Measure
    \/ CollectGarbage

Spec == Init /\ [][Next]_vars

-----------------------------------------------------------------------------
(* Properties.                                                             *)

\* The fields have their types; the ledger knows every object that exists and
\* an object that exists refers to such objects only: no dangling reference
\* is left by a drop or a collection.
TypeOK ==
    /\ heap.allocations \in 0..MaxObjects
    /\ heap.alive \subseteq heap.ledger /\ heap.ledger \subseteq 1..heap.allocations
    /\ held \in [Objects -> 0..MaxHeld]
    /\ \A o \in Objects : held[o] > 0 => o \in heap.alive
    /\ \A o \in heap.alive : Range(heap.content[o]) \subseteq heap.alive
    /\ \A o \in Objects : o \notin heap.alive => heap.content[o] = <<>> /\ borrow[o] = "none"

\* release and the recounts agree: the live counter is exact at all times,
\* and the byte counter is the sum of what was last seen in the objects that
\* still exist, so no release ever runs into its saturation.
CountersExact ==
    /\ heap.live = Cardinality(heap.alive)
    /\ heap.tracking => heap.bytes = Total(heap.accounted, heap.alive)

\* The ledger: its objects are whole and its counters right.
LedgerExact == TypeOK /\ CountersExact

\* What the references outside the heap reach, directly or through others.
Reachable ==
    Least(heap.alive, [S \in SUBSET heap.alive |->
        {o \in heap.alive : held[o] > 0 \/ \E p \in S : o \in Range(heap.content[p])}])

\* A collection changes nothing the program can come to see, borrowed objects
\* and what hangs on them included.
ReachableKept ==
    [][ CollectGarbage =>
          /\ Reachable \subseteq heap'.alive
          /\ \A o \in Reachable : heap'.content[o] = heap.content[o] ]_vars

\* A collection at a safepoint, with nothing borrowed, leaves exactly the
\* reachable objects: no cycle, shared or referring to itself, survives it.
GarbageGone ==
    [][ CollectGarbage /\ (\A o \in Objects : borrow[o] = "none")
          => heap'.alive = Reachable /\ heap'.ledger = Reachable ]_vars
=============================================================================
