---------------------------- MODULE NativeCalls -----------------------------
(***************************************************************************)
(* The collection operations of the virtual machine of vm-rs/src/vm.rs:    *)
(* arrays, maps and ranges, the natives that work on them, and the natives *)
(* that call back into the program for every element.  A callback runs     *)
(* frames of its own inside one instruction of its caller: it may change   *)
(* the very array its caller walks, call further natives, or fail.         *)
(*                                                                         *)
(* A container is its place in the allocation order; several variables of  *)
(* the program may hold it.  Elements are names, "true" and "false" among  *)
(* them.  The program around the natives is any program: it performs any   *)
(* operation on the containers it has, whenever it has control.  Every     *)
(* checkpoint charges a step and sees the host's cancellation token.       *)
(***************************************************************************)
EXTENDS Integers, Sequences, FiniteSets, SequencesExt, Functions

CONSTANTS
    Elements,       \* what an array or a map may contain
    Keys,           \* the keys of maps, NaN among them
    Natives,        \* the natives with a callback the program calls
    FirstArrays,    \* contents of the array the program starts with
    FirstMaps,      \* contents of the map the program starts with
    RangeInputs,    \* <<start, stop, step>> of the ranges it makes
    MaxSteps,       \* max_instruction_steps
    MaxElements,    \* max_runtime_elements
    MaxDepth,       \* max_call_depth
    MaxCalls,       \* operations of one execution
    NaN             \* the number that does not equal itself

ASSUME BoundsAssumption ==
    /\ {MaxSteps, MaxElements, MaxDepth, MaxCalls} \subseteq Nat
    /\ NaN \in Keys

ASSUME InputsAssumption ==
    /\ Natives \subseteq {"map", "filter", "flatMap", "any", "all", "count",
                         "find", "findIndex", "reduce"}
    /\ \A s \in FirstArrays : s \in Seq(Elements)
    /\ \A s \in FirstMaps : s \in Seq(Keys \X Elements)
    /\ \A input \in RangeInputs : input \in Int \X Int \X Int

Collectors == {"map", "filter", "flatMap"}
Predicates == {"filter", "any", "all", "count", "find", "findIndex"}

VARIABLES
    arrays,         \* arrays[a]: the elements of the a-th array allocated
    maps,           \* maps[m]: its entries <<key, value>>, in order
    range,          \* the range made last
    stack,          \* the natives whose callbacks run, the innermost last
    depth,          \* call_depth
    steps,          \* instruction_steps
    charged,        \* runtime_elements
    cancelled,      \* the host's token
    calls,          \* operations started
    outcome         \* "running", or how the execution ended

vars == <<arrays, maps, range, stack, depth, steps, charged, cancelled, calls, outcome>>

data == <<arrays, maps, range>>

-----------------------------------------------------------------------------
(* Maps and ranges.                                                        *)

RuntimeEquals(k, l) == k = l /\ k # NaN

\* Positions of key k among entries.
Found(entries, k) == {i \in DOMAIN entries : RuntimeEquals(entries[i][1], k)}

\* Seeded fault: the first value of a key is kept.
WithEntryKept(entries, e) ==
    IF Found(entries, e[1]) = {} THEN Append(entries, e) ELSE entries

\* entries with the value of e for its key, at the place of the old one.
WithEntry(entries, e) ==
    IF Found(entries, e[1]) = {}
    THEN Append(entries, e)
    ELSE [i \in DOMAIN entries |->
            IF i = CHOOSE j \in Found(entries, e[1]) :
                       \A other \in Found(entries, e[1]) : j <= other
            THEN <<entries[i][1], e[2]>> ELSE entries[i]]

\* What the first entries make, for every number of them.
Normalized(entries) ==
    LET normal[n \in 0..Len(entries)] ==
            IF n = 0 THEN <<>> ELSE WithEntry(normal[n - 1], entries[n])
    IN  normal

NormalizeMapEntries(entries) == Normalized(entries)[Len(entries)]

KeysOf(entries) == [i \in DOMAIN entries |-> entries[i][1]]
ValuesOf(entries) == [i \in DOMAIN entries |-> entries[i][2]]

RangeLength(start, stop, step) ==
    IF step > 0 /\ start < stop THEN (stop - start - 1) \div step + 1
    ELSE IF step < 0 /\ start > stop THEN (start - stop - 1) \div (-step) + 1
    ELSE 0

RangeElement(r, position) == r.start + r.step * position

RangeContains(r, n) ==
    /\ IF r.step > 0 THEN n >= r.start /\ n < r.stop ELSE n <= r.start /\ n > r.stop
    /\ (n - r.start) % (IF r.step > 0 THEN r.step ELSE -r.step) = 0

NewRange(start, stop, step) ==
    [start |-> start, stop |-> stop, step |-> step,
     length |-> RangeLength(start, stop, step)]

-----------------------------------------------------------------------------
(* What an operation needs, and how it ends when it is refused.            *)

\* The program has control: no native is between two callbacks.
ProgramRuns ==
    /\ outcome = "running"
    /\ stack # <<>> => Last(stack).calling

\* accepted: the arguments are; ensured: what the budget must hold before the
\* loop; walked: checkpoints of the loop; charge: what the result charges.
Cost(accepted, ensured, walked, charge) ==
    [accepted |-> accepted, ensured |-> ensured, walked |-> walked, charge |-> charge]

\* The first check that refuses, after `taken` steps of the instruction.
Refusal(cost, taken) ==
    IF cancelled THEN "cancelled"
    ELSE IF steps + taken > MaxSteps THEN "steps"
    ELSE IF ~cost.accepted THEN "error"
    ELSE IF charged + cost.ensured > MaxElements THEN "elements"
    ELSE IF steps + taken + cost.walked > MaxSteps THEN "steps"
    ELSE IF charged + cost.charge > MaxElements THEN "elements"
    ELSE "none"

\* A runtime error unwinds every frame and ends the execution.
Fail(reason) ==
    /\ outcome' = reason
    /\ stack' = <<>>
    /\ depth' = 0
    /\ UNCHANGED <<arrays, maps, range, steps, charged, cancelled>>

\* One instruction of the program that leaves newArrays and newMaps.
Perform(cost, newArrays, newMaps) ==
    /\ ProgramRuns
    /\ calls < MaxCalls
    /\ calls' = calls + 1
    /\ IF Refusal(cost, 1) # "none"
       THEN Fail(Refusal(cost, 1))
       ELSE /\ arrays' = newArrays
            /\ maps' = newMaps
            /\ steps' = steps + 1 + cost.walked
            /\ charged' = charged + cost.charge
            /\ UNCHANGED <<range, stack, depth, cancelled, outcome>>

-----------------------------------------------------------------------------
(* Instructions and natives on arrays.                                     *)

NewArray(elements) == Append(arrays, elements)

\* The array literal.
MakeArray(elements) ==
    Perform(Cost(TRUE, 0, 0, 1 + Len(elements)), NewArray(elements), maps)

\* Seeded fault: the element is not charged.
PushUncharged(a, e) ==
    Perform(Cost(TRUE, 0, 0, 0), [arrays EXCEPT ![a] = Append(@, e)], maps)

Push(a, e) ==
    Perform(Cost(TRUE, 0, 0, 1), [arrays EXCEPT ![a] = Append(@, e)], maps)

Pop(a) ==
    Perform(Cost(arrays[a] # <<>>, 0, 0, 0), [arrays EXCEPT ![a] = Front(@)], maps)

Index(a, i) == Perform(Cost(i \in DOMAIN arrays[a], 0, 0, 0), arrays, maps)

AssignIndex(a, i, e) ==
    Perform(Cost(i \in DOMAIN arrays[a], 0, 0, 0),
            [arrays EXCEPT ![a][i] = e], maps)

\* Checkpoints of a search: one for each element up to the first match.
SearchSteps(n, matches) ==
    IF matches = {} THEN n ELSE CHOOSE i \in matches : \A j \in matches : i <= j

ContainsElement(a, e) ==
    Perform(Cost(TRUE, 0, SearchSteps(Len(arrays[a]), {i \in DOMAIN arrays[a] : arrays[a][i] = e}), 0),
            arrays, maps)

\* start counts from 0.
Slice(a, start, length) ==
    Perform(Cost(start + length <= Len(arrays[a]), 1 + length, length, 1 + length),
            NewArray(SubSeq(arrays[a], start + 1, start + length)), maps)

Copy(a) ==
    LET n == Len(arrays[a])
    IN  Perform(Cost(TRUE, 1 + n, n, 1 + n), NewArray(arrays[a]), maps)

Concat(a, b) ==
    LET n == Len(arrays[a]) + Len(arrays[b])
    IN  Perform(Cost(TRUE, 1 + n, n, 1 + n), NewArray(arrays[a] \o arrays[b]), maps)

-----------------------------------------------------------------------------
(* Instructions and natives on maps.  A map is charged for its entries     *)
(* after the duplicates are gone.                                          *)

\* The map literal, and the allocation of merge.
AllocateMap(entries, walked) ==
    LET normal == NormalizeMapEntries(entries)
    IN  Perform(Cost(TRUE, 0, walked, 1 + Len(normal)), arrays, Append(maps, normal))

MakeMap(entries) == AllocateMap(entries, 0)

\* Only the entries of the second map are walked with checkpoints.
Merge(l, r) == AllocateMap(maps[l] \o maps[r], Len(maps[r]))

AssignKey(m, k, e) ==
    Perform(Cost(TRUE, 0, 0, IF Found(maps[m], k) = {} THEN 1 ELSE 0),
            arrays, [maps EXCEPT ![m] = WithEntry(@, <<k, e>>)])

IndexKey(m, k) == Perform(Cost(Found(maps[m], k) # {}, 0, 0, 0), arrays, maps)

RemoveKey(m, k) ==
    Perform(Cost(Found(maps[m], k) # {}, 0, 0, 0), arrays,
            [maps EXCEPT ![m] = RemoveAt(@, CHOOSE i \in Found(@, k) : TRUE)])

Clear(m) == Perform(Cost(TRUE, 0, 0, 0), arrays, [maps EXCEPT ![m] = <<>>])

ContainsKey(m, k) ==
    Perform(Cost(TRUE, 0,
                 SearchSteps(Len(maps[m]), Found(maps[m], k)), 0),
            arrays, maps)

\* keys and values: an array of a column of the entries.
KeysCall(m) ==
    LET n == Len(maps[m])
    IN  Perform(Cost(TRUE, 1 + n, n, 1 + n), NewArray(KeysOf(maps[m])), maps)

ValuesCall(m) ==
    LET n == Len(maps[m])
    IN  Perform(Cost(TRUE, 1 + n, n, 1 + n), NewArray(ValuesOf(maps[m])), maps)

\* for-in over a map walks an array of the keys it has when the loop starts.
AssertArray(m) ==
    Perform(Cost(TRUE, 0, 0, 1 + Len(maps[m])), NewArray(KeysOf(maps[m])), maps)

\* A range charges one element whatever its length: it holds none.
RangeCall(start, stop, step) ==
    /\ ProgramRuns
    /\ calls < MaxCalls
    /\ calls' = calls + 1
    /\ LET cost == Cost(step # 0, 0, 0, 1)
       IN  IF Refusal(cost, 1) # "none"
           THEN Fail(Refusal(cost, 1))
           ELSE /\ range' = NewRange(start, stop, step)
                /\ steps' = steps + 1
                /\ charged' = charged + 1
                /\ UNCHANGED <<arrays, maps, stack, depth, cancelled, outcome>>

-----------------------------------------------------------------------------
(* Natives with a callback.  elements is the copy of the array the native  *)
(* made when it was called; asked and answers are what went to the         *)
(* callback and what came back.                                            *)

\* Seeded fault: the native walks the array itself.
WalkedLive(f) == arrays[f.array]

Walked(f) == f.elements

Activation(native, a, initial) ==
    [native |-> native, array |-> a, elements |-> arrays[a], initial |-> initial,
     asked |-> <<>>, answers |-> <<>>,
     built |-> CASE native \in Collectors -> <<>>
                 [] native \in {"any", "find", "all"} -> "none"
                 [] native = "count" -> 0
                 [] native = "findIndex" -> -1
                 [] native = "reduce" -> initial,
     decided |-> FALSE, calling |-> FALSE]

CallNative(native, a, initial) ==
    /\ ProgramRuns
    /\ calls < MaxCalls
    /\ calls' = calls + 1
    /\ IF Refusal(Cost(TRUE, 0, 0, 0), 1) # "none"
       THEN Fail(Refusal(Cost(TRUE, 0, 0, 0), 1))
       ELSE /\ stack' = Append(stack, Activation(native, a, initial))
            /\ steps' = steps + 1
            /\ UNCHANGED <<data, depth, charged, cancelled, outcome>>

\* A native between two callbacks, and its frame with changes.
NativeRuns == outcome = "running" /\ stack # <<>> /\ ~Last(stack).calling
Innermost == Last(stack)
WithInnermost(f) == Append(Front(stack), f)

\* The checkpoint of one element and the call of the callback with it.
CallFunction ==
    /\ NativeRuns
    /\ ~Innermost.decided
    /\ Len(Innermost.asked) < Len(Walked(Innermost))
    /\ UNCHANGED calls
    /\ IF Refusal(Cost(TRUE, 0, 0, 0), 1) # "none"
       THEN Fail(Refusal(Cost(TRUE, 0, 0, 0), 1))
       ELSE IF depth + 1 > MaxDepth
       THEN Fail("depth")
       ELSE /\ stack' = WithInnermost(
                  [Innermost EXCEPT
                    !.asked = Append(@, Walked(Innermost)[Len(@) + 1]),
                    !.calling = TRUE])
            /\ depth' = depth + 1
            /\ steps' = steps + 1
            /\ UNCHANGED <<data, charged, cancelled, outcome>>

\* Activation f once its callback has returned value, an element or, for
\* flatMap, the contents of an array: natives that build an array ...
Collected(f, value) ==
    CASE f.native = "map" -> [f EXCEPT !.built = Append(@, value)]
      [] f.native = "filter" ->
            IF value = "true" THEN [f EXCEPT !.built = Append(@, Last(f.asked))] ELSE f
      [] f.native = "flatMap" -> [f EXCEPT !.built = @ \o value]

\* ... natives that count or look for the elements a predicate accepts ...
Judged(f, value) ==
    LET Decided(result) == [f EXCEPT !.built = result, !.decided = TRUE]
        true == value = "true"
    IN  CASE f.native = "any" -> IF true THEN Decided(value) ELSE f
          [] f.native = "all" -> IF true THEN f ELSE Decided(value)
          [] f.native = "count" -> IF true THEN [f EXCEPT !.built = @ + 1] ELSE f
          [] f.native = "find" -> IF true THEN Decided(Last(f.asked)) ELSE f
          [] f.native = "findIndex" ->
                IF true THEN Decided(Len(f.asked) - 1) ELSE f

\* ... and reduce, whose callback also gets the result so far.
Reduced(f, value) == [f EXCEPT !.built = value]

Answered(f, value) ==
    LET g == [f EXCEPT !.answers = Append(@, value), !.calling = FALSE]
    IN  CASE f.native \in Collectors -> Collected(g, value)
          [] f.native \in {"any", "all", "count", "find", "findIndex"} -> Judged(g, value)
          [] f.native = "reduce" -> Reduced(g, value)

\* The callback returns.  The answer of a predicate is a boolean, that of
\* flatMap an array, which is walked with checkpoints.
ReturnValue(value, accepted, walked) ==
    /\ outcome = "running"
    /\ stack # <<>>
    /\ Innermost.calling
    /\ UNCHANGED calls
    /\ LET cost == Cost(accepted, 0, walked, 0)
       IN  IF Refusal(cost, 1) # "none"
           THEN Fail(Refusal(cost, 1))
           ELSE /\ stack' = WithInnermost(Answered(Innermost, value))
                /\ depth' = depth - 1
                /\ steps' = steps + 1 + walked
                /\ UNCHANGED <<data, charged, cancelled, outcome>>

Return ==
    /\ ProgramRuns
    /\ stack # <<>>
    /\ \/ /\ Innermost.native \in Predicates \cup {"map", "reduce"}
          /\ \E e \in Elements :
                ReturnValue(e, Innermost.native \in Predicates => e \in {"true", "false"}, 0)
       \/ /\ Innermost.native = "flatMap"
          /\ \/ ReturnValue(<<>>, FALSE, 0)
             \/ \E a \in DOMAIN arrays : ReturnValue(arrays[a], TRUE, Len(arrays[a]))

\* An instruction, a callback's among them, that rejects its operands: a call
\* of a native with arguments of other types, a key that is no key.
Raise ==
    /\ ProgramRuns
    /\ UNCHANGED calls
    /\ Fail(Refusal(Cost(FALSE, 0, 0, 0), 1))

\* The native returns; a result that is an array is allocated.
FinishNative ==
    /\ NativeRuns
    /\ Innermost.decided \/ Len(Innermost.asked) >= Len(Walked(Innermost))
    /\ UNCHANGED calls
    /\ IF Innermost.native \notin Collectors
       THEN stack' = Front(stack) /\ UNCHANGED <<data, depth, steps, charged, cancelled, outcome>>
       ELSE LET charge == 1 + Len(Innermost.built)
            IN  IF Refusal(Cost(TRUE, 0, 0, charge), 0) # "none"
                THEN Fail(Refusal(Cost(TRUE, 0, 0, charge), 0))
                ELSE /\ stack' = Front(stack)
                     /\ arrays' = NewArray(Innermost.built)
                     /\ charged' = charged + charge
                     /\ UNCHANGED <<maps, range, depth, steps, cancelled, outcome>>

\* The host cancels, at any moment, from another thread.
Cancel ==
    /\ outcome = "running"
    /\ ~cancelled
    /\ cancelled' = TRUE
    /\ UNCHANGED <<data, stack, depth, steps, charged, calls, outcome>>

-----------------------------------------------------------------------------
Init ==
    /\ arrays \in {<<s>> : s \in FirstArrays}
    /\ maps \in {<<NormalizeMapEntries(s)>> : s \in FirstMaps}
    /\ range = NewRange(0, 0, 1)
    /\ charged = 2 + Len(arrays[1]) + Len(maps[1])
    /\ charged <= MaxElements
    /\ stack = <<>>
    /\ depth = 0
    /\ steps = 0
    /\ cancelled = FALSE
    /\ calls = 0
    /\ outcome = "running"

ArrayStep ==
    \/ \E e \in Elements : MakeArray(<<e>>)
    \/ \E a \in DOMAIN arrays :
        \/ Pop(a)
        \/ Copy(a)
        \/ \E e \in Elements : Push(a, e) \/ ContainsElement(a, e)
        \/ \E i \in 1..(Len(arrays[a]) + 1), e \in Elements :
            Index(a, i) \/ AssignIndex(a, i, e)
        \/ \E start, length \in 0..Len(arrays[a]) : Slice(a, start, length)
        \/ \E b \in DOMAIN arrays : Concat(a, b)

MapStep ==
    \/ \E entries \in FirstMaps : MakeMap(entries)
    \/ \E m \in DOMAIN maps :
        \/ Clear(m) \/ KeysCall(m) \/ ValuesCall(m) \/ AssertArray(m)
        \/ \E n \in DOMAIN maps : Merge(m, n)
        \/ \E k \in Keys :
            \/ IndexKey(m, k) \/ RemoveKey(m, k) \/ ContainsKey(m, k)
            \/ \E e \in Elements : AssignKey(m, k, e)

CallbackStep ==
    \/ \E native \in Natives, a \in DOMAIN arrays :
        \E initial \in IF native = "reduce" THEN Elements ELSE {"none"} :
            CallNative(native, a, initial)
    \/ CallFunction
    \/ Return
    \/ Raise
    \/ FinishNative

Next ==
    \/ ArrayStep
    \/ MapStep
    \/ \E input \in RangeInputs : RangeCall(input[1], input[2], input[3])
    \/ CallbackStep
    \/ Cancel

Spec == Init /\ [][Next]_vars

-----------------------------------------------------------------------------
(* Properties.                                                             *)

KeysDiffer(entries) ==
    \A i, j \in DOMAIN entries :
        i < j => ~RuntimeEquals(entries[i][1], entries[j][1])

\* Types; the keys of a map differ as the machine compares them (a program
\* cannot find an entry that another one hides), and call_depth is the number
\* of callbacks that run, whatever the natives that call them did.
TypeOK ==
    /\ arrays \in Seq(Seq(Elements \cup Keys))
    /\ maps \in Seq(Seq(Keys \X Elements))
    /\ range.length \in Nat
    /\ {steps, charged, calls} \subseteq Nat
    /\ cancelled \in BOOLEAN
    /\ outcome \in {"running", "error", "cancelled", "steps", "elements", "depth"}
    /\ \A m \in DOMAIN maps : KeysDiffer(maps[m])
    /\ depth = Cardinality({i \in DOMAIN stack : stack[i].calling})
    /\ depth <= MaxDepth

\* What the first containers hold, themselves counted, for every number of them.
SizesUpTo(containers) ==
    LET size[n \in 0..Len(containers)] ==
            IF n = 0 THEN 0 ELSE size[n - 1] + 1 + Len(containers[n])
    IN  size

Sizes(containers) == SizesUpTo(containers)[Len(containers)]

\* The element budget bounds what the containers of an execution hold, also
\* what a refused operation left behind: no path puts an element in an array
\* or a map before the charge for it is accepted, and a merge is not charged
\* less than it keeps.
ContentBounded == Sizes(arrays) + Sizes(maps) <= charged /\ charged <= MaxElements

\* The containers are whole and within the budget.
ContentSound == TypeOK /\ ContentBounded

\* Positions of the calls answered "true".
Accepted(f) == {i \in DOMAIN f.answers : f.answers[i] = "true"}
First(S) == CHOOSE i \in S : \A j \in S : i <= j
InOrderOf(S, s) == [i \in 1..Cardinality(S) |->
                      s[CHOOSE j \in S : Cardinality({k \in S : k <= j}) = i]]

\* What activation f has computed, from its answers alone.
Defined(f) ==
    LET n == Len(f.answers)
    IN  CASE f.native = "map" -> f.answers
          [] f.native = "filter" -> InOrderOf(Accepted(f), f.elements)
          [] f.native = "flatMap" -> FlattenSeq(f.answers)
          [] f.native = "any" -> IF Accepted(f) # {} THEN "true" ELSE "none"
          [] f.native = "all" -> IF Accepted(f) # 1..n THEN "false" ELSE "none"
          [] f.native = "count" -> Cardinality(Accepted(f))
          [] f.native = "find" ->
                IF Accepted(f) # {} THEN f.elements[First(Accepted(f))] ELSE "none"
          [] f.native = "findIndex" -> IF Accepted(f) # {} THEN First(Accepted(f)) - 1 ELSE -1
          [] f.native = "reduce" -> IF n = 0 THEN f.initial ELSE Last(f.answers)

\* A native with a callback asks it for the elements the array had when the
\* native was called, each once and in order, whatever the callback does to
\* that array; its result is the one its definition gives for the answers, and
\* any, all, find and findIndex ask no further than the answer that decides.
CallbacksExact ==
    \A i \in DOMAIN stack :
        LET f == stack[i]
        IN  /\ IsPrefix(f.asked, f.elements)
            /\ Len(f.asked) = Len(f.answers) + (IF f.calling THEN 1 ELSE 0)
            /\ f.built = Defined(f)
            /\ f.native \in {"any", "find", "findIndex"} =>
                  Accepted(f) \subseteq {Len(f.asked)}
            /\ f.native = "all" => 1..(Len(f.asked) - 1) \subseteq Accepted(f)

\* The entry of key k in a map, as a set of values.
Lookup(entries, k) == {entries[i][2] : i \in Found(entries, k)}

\* A merge finds for every key the value of the second map if it has one, and
\* otherwise that of the first, keeps the order of the first map's keys, and
\* keeps every entry whose key does not equal itself.
MergeExact ==
    \A l, r \in DOMAIN maps :
        LET merged == NormalizeMapEntries(maps[l] \o maps[r])
        IN  /\ \A k \in Keys :
                  Lookup(merged, k) = IF Found(maps[r], k) # {} THEN Lookup(maps[r], k)
                                      ELSE Lookup(maps[l], k)
            /\ KeysOf(maps[l]) = SubSeq(KeysOf(merged), 1, Len(maps[l]))
            /\ Cardinality({i \in DOMAIN merged : merged[i][1] = NaN}) =
                  Cardinality({i \in DOMAIN maps[l] : maps[l][i][1] = NaN})
                + Cardinality({i \in DOMAIN maps[r] : maps[r][i][1] = NaN})

\* What a range says it holds are the numbers from start, a step apart, that
\* lie before stop: its length counts them, indexing lists them and contains
\* answers for them and for no other number, as far as a step beyond the ends.
RangeExact ==
    LET Before(n) == IF range.step > 0 THEN n < range.stop ELSE n > range.stop
        low == IF range.start < range.stop THEN range.start ELSE range.stop
        high == IF range.start < range.stop THEN range.stop ELSE range.start
        size == IF range.step > 0 THEN range.step ELSE -range.step
        numbers == {n \in low..high :
                      /\ Before(n)
                      /\ \E i \in 0..(high - low) : n = range.start + i * range.step}
    IN  /\ range.length = Cardinality(numbers)
        /\ {RangeElement(range, i) : i \in 0..(range.length - 1)} = numbers
        /\ {n \in (low - size)..(high + size) : RangeContains(range, n)} = numbers

\* The collections mean what their definitions say.
CollectionsExact == MergeExact /\ RangeExact
=============================================================================
