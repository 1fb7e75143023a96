------------------------- MODULE NativeCallsProofs --------------------------
(***************************************************************************)
(* Proofs about NativeCalls: the containers stay whole and within the      *)
(* element budget, every native with a callback computes what its          *)
(* definition says, and maps and ranges mean what theirs say.              *)
(***************************************************************************)
EXTENDS NativeCalls, WellFoundedInduction, SequenceTheorems, FiniteSetTheorems, TLAPS

\* Induction over the natural numbers, stated with a set.
LEMMA NatSetInduction ==
  ASSUME NEW P, 0 \in P, \A n \in Nat : n \in P => n + 1 \in P
  PROVE  Nat \subseteq P
<1> DEFINE Below == OpToRel(<, Nat)
           Rest == Nat \ P
<1>1. IsWellFoundedOn(Below, Nat) BY NatLessThanWellFounded
<1>2. \A n \in Rest : n - 1 \in Rest /\ <<n - 1, n>> \in Below BY DEF OpToRel
<1> HIDE DEF Below
<1> QED BY <1>1, <1>2, WFMin

\* f is given on 0..n by its value at 0 and a step from one value to the next.
StepsOn(step, X) == step \in [X \X Nat -> X]
GivenByStep(f, X, base, step, n) ==
    /\ f \in [0..n -> X]
    /\ f[0] = base
    /\ \A i \in 1..n : f[i] = step[<<f[i-1], i>>]

\* Such a function exists.
LEMMA FunctionByStep ==
  ASSUME NEW X, NEW base \in X, NEW step, StepsOn(step, X), NEW n \in Nat
  PROVE  \E f : GivenByStep(f, X, base, step, n)
<1>0. step \in [X \X Nat -> X] BY DEF StepsOn
<1> DEFINE Follows(f, k) == f[0] = base /\ \A i \in 1..k : f[i] = step[<<f[i-1], i>>]
           Good == {k \in Nat : \E f \in [0..k -> X] : Follows(f, k)}
<1>1. 0 \in Good
  <2>1. [i \in 0..0 |-> base] \in [0..0 -> X] /\ Follows([i \in 0..0 |-> base], 0)
    OBVIOUS
  <2> QED BY <2>1
<1>2. ASSUME NEW k \in Nat, k \in Good PROVE k + 1 \in Good
  <2>1. PICK f \in [0..k -> X] : Follows(f, k) BY <1>2
  <2> DEFINE last == step[<<f[k], k + 1>>]
             g == [i \in 0..(k+1) |-> IF i = k + 1 THEN last ELSE f[i]]
  <2>2. last \in X BY <1>0, <2>1
  <2> HIDE DEF last
  <2>3. g \in [0..(k+1) -> X] BY <2>1, <2>2
  <2>4. g[0] = base BY <2>1
  <2>5. ASSUME NEW i \in 1..(k+1) PROVE g[i] = step[<<g[i-1], i>>]
    <3>1. CASE i = k + 1
      <4>1. g[i] = last /\ g[i-1] = f[k] BY <3>1
      <4> QED BY <3>1, <4>1 DEF last
    <3>2. CASE i \in 1..k
      <4>1. g[i] = f[i] /\ g[i-1] = f[i-1] BY <3>2
      <4> QED BY <2>1, <3>2, <4>1
    <3> QED BY <3>1, <3>2
  <2> HIDE DEF g
  <2>6. Follows(g, k + 1) BY <2>4, <2>5
  <2> QED BY <2>3, <2>6
<1>3. Nat \subseteq Good
  <2> HIDE DEF Good
  <2> QED BY <1>1, <1>2, NatSetInduction
<1> QED BY <1>3 DEF GivenByStep

\* A set of natural numbers has a least element.
LEMMA NatMinimum ==
  ASSUME NEW S, S \subseteq Nat, S # {}
  PROVE  \E i \in S : \A j \in S : i <= j
<1> DEFINE Below == OpToRel(<, Nat)
<1>1. \E x \in S : \A y \in S : ~(<<y, x>> \in Below)
  <2> HIDE DEF Below
  <2>1. IsWellFoundedOn(Below, Nat) BY NatLessThanWellFounded DEF Below
  <2> QED BY <2>1, WFMin
<1>2. PICK x \in S : \A y \in S : ~(<<y, x>> \in Below) BY <1>1
<1>3. \A y \in S : x <= y
  <2> TAKE y \in S
  <2>1. x \in Nat /\ y \in Nat OBVIOUS
  <2>2. y < x => <<y, x>> \in Below BY <2>1 DEF OpToRel
  <2>3. ~(y < x)
    <3> HIDE DEF Below
    <3> QED BY <1>2, <2>2
  <2> QED BY <2>1, <2>3
<1> QED BY <1>3

Value == Elements \cup Keys
Entry == Keys \X Elements

-----------------------------------------------------------------------------
(* Maps.                                                                   *)

\* result is entries with e put in its place.
Placed(entries, e, result) ==
    /\ result \in Seq(Entry)
    /\ KeysDiffer(result)
    /\ Len(result) = Len(entries) + (IF Found(entries, e[1]) = {} THEN 1 ELSE 0)
    /\ \A i \in DOMAIN entries :
          result[i] = IF i \in Found(entries, e[1]) THEN <<entries[i][1], e[2]>>
                      ELSE entries[i]
    /\ Found(entries, e[1]) = {} => result[Len(entries) + 1] = e

\* A key is found at one place at most.
LEMMA FoundOnce ==
  ASSUME NEW entries \in Seq(Entry), KeysDiffer(entries), NEW k,
         NEW i \in Found(entries, k), NEW j \in Found(entries, k)
  PROVE  i = j
<1>1. /\ i \in DOMAIN entries /\ j \in DOMAIN entries
      /\ entries[i][1] = k /\ entries[j][1] = k /\ k # NaN
  BY DEF Found, RuntimeEquals
<1>2. i \in Nat /\ j \in Nat BY <1>1
<1>3. RuntimeEquals(entries[i][1], entries[j][1])
      /\ RuntimeEquals(entries[j][1], entries[i][1])
  BY <1>1 DEF RuntimeEquals
<1>4. ~(i < j) /\ ~(j < i) BY <1>1, <1>3 DEF KeysDiffer
<1> QED BY <1>2, <1>4

LEMMA WithEntryPlaces ==
  ASSUME NEW entries \in Seq(Entry), KeysDiffer(entries), NEW e \in Entry
  PROVE  Placed(entries, e, WithEntry(entries, e))
<1> DEFINE result == WithEntry(entries, e)
<1>1. CASE Found(entries, e[1]) = {}
  <2>1. result = Append(entries, e) BY <1>1 DEF WithEntry
  <2>2. /\ result \in Seq(Entry) /\ Len(result) = Len(entries) + 1
        /\ \A i \in 1..Len(entries) : result[i] = entries[i]
        /\ result[Len(entries) + 1] = e
    BY <2>1, AppendProperties
  <2> HIDE DEF result
  <2>3. ASSUME NEW i \in DOMAIN result, NEW j \in DOMAIN result, i < j
        PROVE  ~RuntimeEquals(result[i][1], result[j][1])
    <3>1. i \in 1..Len(entries) /\ i \in DOMAIN entries /\ result[i] = entries[i]
      BY <2>2, <2>3
    <3>2. CASE j \in 1..Len(entries)
      BY <2>2, <2>3, <3>1, <3>2 DEF KeysDiffer
    <3>3. CASE j = Len(entries) + 1
      <4>1. result[j] = e BY <2>2, <3>3
      <4>2. ~RuntimeEquals(entries[i][1], e[1]) BY <1>1, <3>1 DEF Found
      <4> QED BY <3>1, <4>1, <4>2
    <3> QED BY <2>2, <3>2, <3>3
  <2>4. KeysDiffer(result) BY <2>3 DEF KeysDiffer
  <2> QED BY <1>1, <2>2, <2>4 DEF Placed, result
<1>2. CASE Found(entries, e[1]) # {}
  <2>1. PICK p \in Found(entries, e[1]) : TRUE BY <1>2
  <2>2. \A i \in Found(entries, e[1]) : i = p BY <2>1, FoundOnce
  <2>3. p \in Nat /\ p \in DOMAIN entries BY <2>1 DEF Found
  <2>4. (CHOOSE j \in Found(entries, e[1]) :
           \A other \in Found(entries, e[1]) : j <= other) = p
    <3> DEFINE F == Found(entries, e[1])
               c == CHOOSE j \in F : \A other \in F : j <= other
    <3>1. p \in F /\ \A other \in F : p <= other BY <2>1, <2>2, <2>3
    <3>2. c \in F
      <4> HIDE DEF F
      <4> QED BY <3>1
    <3> QED BY <2>2, <3>2
  <2>5. result = [i \in DOMAIN entries |->
                    IF i = p THEN <<entries[i][1], e[2]>> ELSE entries[i]]
    BY <1>2, <2>4 DEF WithEntry
  <2>6. \A i \in 1..Len(entries) : entries[i] \in Entry OBVIOUS
  <2>7. e[2] \in Elements /\ \A x \in Entry : x[1] \in Keys BY DEF Entry
  <2>8. \A i \in 1..Len(entries) :
          (IF i = p THEN <<entries[i][1], e[2]>> ELSE entries[i]) \in Entry
    BY <2>6, <2>7 DEF Entry
  <2>9. result \in Seq(Entry) /\ Len(result) = Len(entries)
    <3>1. DOMAIN entries = 1..Len(entries) OBVIOUS
    <3> QED BY <2>5, <2>8, <3>1
  <2> HIDE DEF result
  <2>10. \A i \in DOMAIN entries : result[i][1] = entries[i][1]
    BY <2>5
  <2>11. KeysDiffer(result)
    <3>1. DOMAIN result = DOMAIN entries BY <2>5
    <3> QED BY <2>10, <3>1 DEF KeysDiffer
  <2>12. \A i \in DOMAIN entries : i \in Found(entries, e[1]) <=> i = p
    BY <2>1, <2>2
  <2>13. \A i \in DOMAIN entries :
           result[i] = IF i \in Found(entries, e[1]) THEN <<entries[i][1], e[2]>>
                       ELSE entries[i]
    BY <2>5, <2>12
  <2>14. Len(result) = Len(entries) + 0 BY <2>9
  <2> QED BY <1>2, <2>9, <2>11, <2>13, <2>14 DEF Placed, result
<1> QED BY <1>1, <1>2

\* The recursive function normal exists, so its equations hold.
LEMMA NormalizedDef ==
  ASSUME NEW entries \in Seq(Entry)
  PROVE  /\ Normalized(entries)[0] = <<>>
         /\ \A n \in 1..Len(entries) :
              Normalized(entries)[n] = WithEntry(Normalized(entries)[n-1], entries[n])
         /\ \A n \in 0..Len(entries) :
              Normalized(entries)[n] \in Seq(Entry) /\ KeysDiffer(Normalized(entries)[n])
<1> DEFINE Maps == {m \in Seq(Entry) : KeysDiffer(m)}
           step == [p \in Maps \X Nat |->
                      IF p[2] \in 1..Len(entries) THEN WithEntry(p[1], entries[p[2]])
                      ELSE p[1]]
           Rule(f) == [n \in 0..Len(entries) |->
                         IF n = 0 THEN <<>> ELSE WithEntry(f[n-1], entries[n])]
<1>1. \A m \in Maps, e \in Entry : WithEntry(m, e) \in Maps
  BY WithEntryPlaces DEF Placed
<1>2. <<>> \in Maps
  <2>1. <<>> \in Seq(Entry) /\ DOMAIN <<>> = {} OBVIOUS
  <2> QED BY <2>1 DEF KeysDiffer
<1> HIDE DEF Maps
<1>3. \A n \in 1..Len(entries) : entries[n] \in Entry OBVIOUS
<1>4. step \in [Maps \X Nat -> Maps] BY <1>1, <1>3
<1>5. \A m \in Maps, n \in 1..Len(entries) :
        step[<<m, n>>] = WithEntry(m, entries[n])
  OBVIOUS
<1> HIDE DEF step
<1>6. Len(entries) \in Nat OBVIOUS
<1>7. PICK f \in [0..Len(entries) -> Maps] :
        /\ f[0] = <<>>
        /\ \A i \in 1..Len(entries) : f[i] = step[<<f[i-1], i>>]
  <2>1. StepsOn(step, Maps) BY <1>4 DEF StepsOn
  <2>2. \E f : GivenByStep(f, Maps, <<>>, step, Len(entries))
    BY <1>2, <1>6, <2>1, FunctionByStep
  <2> QED BY <2>2 DEF GivenByStep
<1>8. \A i \in 1..Len(entries) : f[i] = WithEntry(f[i-1], entries[i])
  <2> TAKE i \in 1..Len(entries)
  <2>1. f[i-1] \in Maps BY <1>6
  <2> QED BY <1>5, <1>7, <2>1
<1>9. f = Rule(f)
  <2>1. \A n \in 0..Len(entries) :
          f[n] = IF n = 0 THEN <<>> ELSE WithEntry(f[n-1], entries[n])
    BY <1>6, <1>7, <1>8
  <2> QED BY <2>1
<1> DEFINE g == Normalized(entries)
<1>10. g = Rule(g) BY <1>9 DEF Normalized
<1> HIDE DEF g
<1>11. \A n \in 0..Len(entries) :
         g[n] = IF n = 0 THEN <<>> ELSE WithEntry(g[n-1], entries[n])
  BY <1>10
<1>12. g[0] = <<>> /\ \A n \in 1..Len(entries) : g[n] = WithEntry(g[n-1], entries[n])
  <2>1. 0 \in 0..Len(entries) /\ \A n \in 1..Len(entries) : n \in 0..Len(entries) /\ n # 0
    BY <1>6
  <2> QED BY <1>11, <2>1
<1> DEFINE Good == {n \in Nat : n <= Len(entries) => g[n] \in Maps}
<1>13. 0 \in Good BY <1>2, <1>12
<1>14. ASSUME NEW n \in Nat, n \in Good PROVE n + 1 \in Good
  <2> SUFFICES ASSUME n + 1 <= Len(entries) PROVE g[n+1] \in Maps OBVIOUS
  <2>1. n + 1 \in 1..Len(entries) /\ (n + 1) - 1 = n /\ n <= Len(entries) BY <1>6
  <2>2. g[n] \in Maps BY <1>14, <2>1
  <2>3. g[n+1] = WithEntry(g[n], entries[n+1]) BY <1>12, <2>1
  <2> QED BY <1>1, <1>3, <2>1, <2>2, <2>3
<1>15. Nat \subseteq Good
  <2> HIDE DEF Good
  <2> QED BY <1>13, <1>14, NatSetInduction
<1>16. \A n \in 0..Len(entries) : g[n] \in Maps BY <1>15
<1> QED BY <1>12, <1>16 DEF g, Maps

LEMMA PrefixGrows ==
  ASSUME NEW S, NEW s \in Seq(S), NEW n \in 0..Len(s)
  PROVE  /\ SubSeq(s, 1, n) \in Seq(S) /\ Len(SubSeq(s, 1, n)) = n
         /\ \A i \in 1..n : SubSeq(s, 1, n)[i] = s[i]
         /\ n < Len(s) => SubSeq(s, 1, n + 1) = Append(SubSeq(s, 1, n), s[n + 1])
<1>1. n \in Nat /\ Len(s) \in Nat /\ \A i \in 1..Len(s) : s[i] \in S OBVIOUS
<1>2. ASSUME NEW m \in Nat, m <= Len(s)
      PROVE  /\ SubSeq(s, 1, m) \in Seq(S) /\ Len(SubSeq(s, 1, m)) = m
             /\ \A i \in 1..m : SubSeq(s, 1, m)[i] = s[i]
  <2>1. \A i \in 1..m : s[i] \in S BY <1>1, <1>2
  <2>2. /\ SubSeq(s, 1, m) \in Seq(S)
        /\ Len(SubSeq(s, 1, m)) = IF 1 <= m THEN m - 1 + 1 ELSE 0
        /\ \A i \in 1..(m - 1 + 1) : SubSeq(s, 1, m)[i] = s[1 + i - 1]
    BY <2>1, SubSeqProperties
  <2> QED BY <2>2
<1>3. ASSUME n < Len(s)
      PROVE  SubSeq(s, 1, n + 1) = Append(SubSeq(s, 1, n), s[n + 1])
  <2> DEFINE p == SubSeq(s, 1, n)
             q == SubSeq(s, 1, n + 1)
  <2>1. /\ p \in Seq(S) /\ Len(p) = n /\ \A i \in 1..n : p[i] = s[i]
        /\ q \in Seq(S) /\ Len(q) = n + 1 /\ \A i \in 1..(n + 1) : q[i] = s[i]
    BY <1>1, <1>2, <1>3
  <2>2. s[n + 1] \in S BY <1>1, <1>3
  <2> HIDE DEF p, q
  <2> DEFINE a == Append(p, s[n + 1])
  <2>3. /\ a \in Seq(S) /\ Len(a) = n + 1 /\ \A i \in 1..n : a[i] = p[i]
        /\ a[n + 1] = s[n + 1]
    BY <2>1, <2>2, AppendProperties
  <2> HIDE DEF a
  <2>4. \A i \in 1..Len(q) : q[i] = a[i] BY <1>1, <2>1, <2>3
  <2>5. q = a BY <2>1, <2>3, <2>4, SeqEqual
  <2> QED BY <2>5 DEF p, q, a
<1> QED BY <1>1, <1>2, <1>3

\* A place that holds NaN as its key.
NaNs(entries) == {i \in DOMAIN entries : entries[i][1] = NaN}

\* The keys stay where they are, and at most one is added.
KeysKept(entries, e, result) ==
    /\ result \in Seq(Entry) /\ Len(entries) \in Nat
    /\ DOMAIN entries = 1..Len(entries) /\ DOMAIN result = 1..Len(result)
    /\ \A i \in DOMAIN entries : i \in DOMAIN result /\ result[i][1] = entries[i][1]
    /\ Found(entries, e[1]) = {} =>
          /\ Len(result) = Len(entries) + 1
          /\ DOMAIN result = DOMAIN entries \cup {Len(entries) + 1}
          /\ result[Len(entries) + 1] = e
    /\ Found(entries, e[1]) # {} =>
          Len(result) = Len(entries) /\ DOMAIN result = DOMAIN entries

LEMMA PlacedKeys ==
  ASSUME NEW entries \in Seq(Entry), NEW e \in Entry,
         NEW result, Placed(entries, e, result)
  PROVE  KeysKept(entries, e, result)
<1>1. /\ result \in Seq(Entry) /\ DOMAIN entries = 1..Len(entries)
      /\ Len(entries) \in Nat
      /\ Found(entries, e[1]) = {} => result[Len(entries) + 1] = e
      /\ Len(result) = Len(entries) + (IF Found(entries, e[1]) = {} THEN 1 ELSE 0)
  BY DEF Placed
<1>2. DOMAIN result = 1..Len(result) BY <1>1
<1>3. Found(entries, e[1]) = {} =>
        /\ Len(result) = Len(entries) + 1
        /\ DOMAIN result = DOMAIN entries \cup {Len(entries) + 1}
  <2>1. ASSUME Found(entries, e[1]) = {} PROVE Len(result) = Len(entries) + 1
    BY <1>1, <2>1
  <2> QED BY <1>1, <1>2, <2>1
<1>4. Found(entries, e[1]) # {} =>
        Len(result) = Len(entries) /\ DOMAIN result = DOMAIN entries
  <2> SUFFICES ASSUME Found(entries, e[1]) # {}
               PROVE  Len(result) = Len(entries) /\ DOMAIN result = DOMAIN entries
    OBVIOUS
  <2>1. Len(result) = Len(entries) + 0 BY <1>1
  <2>2. Len(entries) \in Nat OBVIOUS
  <2>3. Len(result) = Len(entries) BY <2>1, <2>2
  <2> QED BY <1>1, <1>2, <2>3
<1>5. ASSUME NEW i \in DOMAIN entries
      PROVE  i \in DOMAIN result /\ result[i][1] = entries[i][1]
  <2>1. result[i] = IF i \in Found(entries, e[1]) THEN <<entries[i][1], e[2]>>
                    ELSE entries[i]
    BY <1>5 DEF Placed
  <2>2. result[i][1] = entries[i][1] BY <2>1
  <2> QED BY <1>3, <1>4, <2>2
<1> QED BY <1>1, <1>2, <1>3, <1>4, <1>5 DEF KeysKept

LEMMA PlacedLooksUp ==
  ASSUME NEW entries \in Seq(Entry), KeysDiffer(entries), NEW e \in Entry,
         NEW result, Placed(entries, e, result), NEW k
  PROVE  Lookup(result, k) = IF RuntimeEquals(e[1], k) THEN {e[2]} ELSE Lookup(entries, k)
<1>k. KeysKept(entries, e, result) BY PlacedKeys
<1>1. /\ DOMAIN entries = 1..Len(entries) /\ Len(entries) \in Nat
      /\ \A i \in DOMAIN entries : i \in DOMAIN result /\ result[i][1] = entries[i][1]
  BY <1>k DEF KeysKept
<1>0. \A i \in DOMAIN entries : i \notin Found(entries, e[1]) => result[i] = entries[i]
  BY DEF Placed
<1>2. \A i \in DOMAIN entries : i \in Found(result, k) <=> i \in Found(entries, k)
  BY <1>1 DEF Found
<1>3. CASE RuntimeEquals(e[1], k)
  <2>0. e[1] = k /\ k # NaN BY <1>3 DEF RuntimeEquals
  <2>1. CASE Found(entries, k) = {}
    <3>1. /\ DOMAIN result = DOMAIN entries \cup {Len(entries) + 1}
          /\ result[Len(entries) + 1] = e
      BY <2>0, <2>1, <1>k DEF KeysKept
    <3>2. Found(result, k) \subseteq {Len(entries) + 1}
      BY <1>2, <2>1, <3>1 DEF Found
    <3>3. Len(entries) + 1 \in Found(result, k) BY <1>3, <3>1 DEF Found
    <3> QED BY <1>3, <3>1, <3>2, <3>3 DEF Lookup
  <2>2. CASE Found(entries, k) # {}
    <3>1. PICK i \in Found(entries, k) : TRUE BY <2>2
    <3>2. Found(entries, k) = {i} BY <3>1, FoundOnce
    <3>3. i \in DOMAIN entries BY <3>1 DEF Found
    <3>4. DOMAIN result = DOMAIN entries BY <2>0, <2>2, <1>k DEF KeysKept
    <3>5. Found(result, k) = {i}
      <4>1. \A j \in Found(result, k) : j \in DOMAIN entries
        BY <3>4 DEF Found
      <4> QED BY <1>2, <3>2, <3>3, <4>1
    <3>6. result[i] = <<entries[i][1], e[2]>> BY <2>0, <3>1, <3>3 DEF Placed
    <3> QED BY <1>3, <3>5, <3>6 DEF Lookup
  <2> QED BY <2>1, <2>2
<1>4. CASE ~RuntimeEquals(e[1], k)
  <2>1. Found(result, k) = Found(entries, k)
    <3>1. ASSUME NEW j \in Found(result, k) PROVE j \in DOMAIN entries
      <4>1. j \in DOMAIN result /\ RuntimeEquals(result[j][1], k) BY DEF Found
      <4>2. ASSUME j \notin DOMAIN entries PROVE FALSE
        <5>1. result[j] = e BY <4>1, <4>2, <1>k DEF KeysKept
        <5> QED BY <1>4, <4>1, <5>1
      <4> QED BY <4>2
    <3>2. \A j \in Found(entries, k) : j \in DOMAIN entries BY DEF Found
    <3> QED BY <1>2, <3>1, <3>2
  <2>2. \A i \in Found(entries, k) : result[i] = entries[i]
    <3> TAKE i \in Found(entries, k)
    <3>1. i \in DOMAIN entries /\ i \notin Found(entries, e[1])
      BY <1>4 DEF Found, RuntimeEquals
    <3> QED BY <1>0, <3>1
  <2> QED BY <1>4, <2>1, <2>2 DEF Lookup
<1> QED BY <1>3, <1>4

LEMMA PlacedNaNs ==
  ASSUME NEW entries \in Seq(Entry), NEW e \in Entry,
         NEW result, Placed(entries, e, result)
  PROVE  NaNs(result) = NaNs(entries)
                          \cup (IF e[1] = NaN THEN {Len(entries) + 1} ELSE {})
<1>k. KeysKept(entries, e, result) BY PlacedKeys
<1>1. /\ DOMAIN entries = 1..Len(entries)
      /\ \A i \in DOMAIN entries : i \in DOMAIN result /\ result[i][1] = entries[i][1]
  BY <1>k DEF KeysKept
<1>2. e[1] = NaN => Found(entries, e[1]) = {} BY DEF Found, RuntimeEquals
<1>3. \A i \in DOMAIN entries : i \in NaNs(result) <=> i \in NaNs(entries)
  BY <1>1 DEF NaNs
<1>4. CASE Found(entries, e[1]) = {}
  <2>1. /\ DOMAIN result = DOMAIN entries \cup {Len(entries) + 1}
        /\ result[Len(entries) + 1] = e
    BY <1>4, <1>k DEF KeysKept
  <2>2. Len(entries) + 1 \in NaNs(result) <=> e[1] = NaN BY <2>1 DEF NaNs
  <2> QED BY <1>3, <2>1, <2>2 DEF NaNs
<1>5. CASE Found(entries, e[1]) # {}
  <2>1. DOMAIN result = DOMAIN entries BY <1>5, <1>k DEF KeysKept
  <2> QED BY <1>2, <1>3, <1>5, <2>1 DEF NaNs
<1> QED BY <1>4, <1>5

\* m is what merging s into l makes.
Merged(l, s, m) ==
    /\ m \in Seq(Entry) /\ KeysDiffer(m) /\ Len(l) <= Len(m)
    /\ \A k \in Keys :
          Lookup(m, k) = IF Found(s, k) # {} THEN Lookup(s, k) ELSE Lookup(l, k)
    /\ \A i \in 1..Len(l) : m[i][1] = l[i][1]
    /\ IsFiniteSet(NaNs(m)) /\ IsFiniteSet(NaNs(s)) /\ IsFiniteSet(NaNs(l))
    /\ Cardinality(NaNs(m)) = Cardinality(NaNs(l)) + Cardinality(NaNs(s))

LEMMA NaNsFinite ==
  ASSUME NEW s \in Seq(Entry)
  PROVE  IsFiniteSet(NaNs(s)) /\ Cardinality(NaNs(s)) \in Nat
<1>1. Len(s) \in Nat /\ DOMAIN s = 1..Len(s) OBVIOUS
<1>2. IsFiniteSet(1..Len(s)) BY <1>1, FS_Interval
<1>3. NaNs(s) \subseteq 1..Len(s) BY <1>1 DEF NaNs
<1>4. IsFiniteSet(NaNs(s)) BY <1>2, <1>3, FS_Subset
<1> QED BY <1>4, FS_CardinalityType

\* What appending an entry to s does to lookups in s.
LEMMA AppendLooksUp ==
  ASSUME NEW s \in Seq(Entry), NEW e \in Entry, KeysDiffer(Append(s, e)), NEW k
  PROVE  /\ RuntimeEquals(e[1], k) =>
              Found(Append(s, e), k) = {Len(s) + 1} /\ Lookup(Append(s, e), k) = {e[2]}
         /\ ~RuntimeEquals(e[1], k) =>
              Found(Append(s, e), k) = Found(s, k) /\ Lookup(Append(s, e), k) = Lookup(s, k)
         /\ NaNs(Append(s, e)) = NaNs(s) \cup (IF e[1] = NaN THEN {Len(s) + 1} ELSE {})
<1> DEFINE a == Append(s, e)
<1>1. /\ a \in Seq(Entry) /\ Len(a) = Len(s) + 1 /\ Len(s) \in Nat
      /\ DOMAIN s = 1..Len(s) /\ a[Len(s) + 1] = e
      /\ \A i \in 1..Len(s) : a[i] = s[i]
  BY AppendProperties
<1>2. KeysDiffer(a) OBVIOUS
<1> HIDE DEF a
<1>3. DOMAIN a = DOMAIN s \cup {Len(s) + 1} BY <1>1
<1>4. \A i \in DOMAIN s : i \in Found(a, k) <=> i \in Found(s, k)
  BY <1>1, <1>3 DEF Found
<1>5. ASSUME RuntimeEquals(e[1], k)
      PROVE  Found(a, k) = {Len(s) + 1} /\ Lookup(a, k) = {e[2]}
  <2>1. ASSUME NEW i \in DOMAIN s PROVE i \notin Found(a, k)
    <3>1. i \in DOMAIN a /\ Len(s) + 1 \in DOMAIN a /\ i < Len(s) + 1
      BY <1>1, <1>3
    <3>2. ~RuntimeEquals(a[i][1], a[Len(s) + 1][1]) BY <1>2, <3>1 DEF KeysDiffer
    <3> QED BY <1>1, <1>5, <3>2 DEF Found, RuntimeEquals
  <2>2. Len(s) + 1 \in Found(a, k) BY <1>1, <1>3, <1>5 DEF Found
  <2>3. Found(a, k) \subseteq DOMAIN a BY DEF Found
  <2>4. Found(a, k) = {Len(s) + 1} BY <1>3, <2>1, <2>2, <2>3
  <2> QED BY <1>1, <2>4 DEF Lookup
<1>6. ASSUME ~RuntimeEquals(e[1], k)
      PROVE  Found(a, k) = Found(s, k) /\ Lookup(a, k) = Lookup(s, k)
  <2>1. Found(s, k) \subseteq DOMAIN s /\ Found(a, k) \subseteq DOMAIN a BY DEF Found
  <2>2. Len(s) + 1 \notin Found(a, k) BY <1>1, <1>6 DEF Found
  <2>3. Found(a, k) = Found(s, k) BY <1>3, <1>4, <2>1, <2>2
  <2>4. \A i \in Found(s, k) : a[i] = s[i] BY <1>1, <2>1
  <2> QED BY <2>3, <2>4 DEF Lookup
<1>7. NaNs(a) = NaNs(s) \cup (IF e[1] = NaN THEN {Len(s) + 1} ELSE {})
  <2>1. Len(s) + 1 \in NaNs(a) <=> e[1] = NaN BY <1>1, <1>3 DEF NaNs
  <2>2. \A i \in DOMAIN s : i \in NaNs(a) <=> i \in NaNs(s) BY <1>1, <1>3 DEF NaNs
  <2> QED BY <1>3, <2>1, <2>2 DEF NaNs
<1> QED BY <1>5, <1>6, <1>7 DEF a

LEMMA MergedStep ==
  ASSUME NEW l \in Seq(Entry), NEW s \in Seq(Entry), NEW e \in Entry,
         KeysDiffer(Append(s, e)), NEW m, Merged(l, s, m)
  PROVE  Merged(l, Append(s, e), WithEntry(m, e))
<1> DEFINE a == Append(s, e)
           r == WithEntry(m, e)
<1>1. /\ m \in Seq(Entry) /\ KeysDiffer(m) /\ Len(l) <= Len(m)
      /\ Len(l) \in Nat /\ Len(m) \in Nat
      /\ \A i \in 1..Len(l) : m[i][1] = l[i][1]
      /\ Cardinality(NaNs(m)) = Cardinality(NaNs(l)) + Cardinality(NaNs(s))
  BY DEF Merged
<1>2. Placed(m, e, r) BY <1>1, WithEntryPlaces
<1>3. a \in Seq(Entry) BY AppendProperties
<1> HIDE DEF a, r
<1>4. KeysKept(m, e, r) BY <1>1, <1>2, PlacedKeys
<1>5. r \in Seq(Entry) /\ KeysDiffer(r) BY <1>2 DEF Placed
<1>6. Len(m) <= Len(r)
  <2>1. Len(r) = Len(m) + 1 \/ Len(r) = Len(m) BY <1>4 DEF KeysKept
  <2>2. Len(m) \in Nat BY <1>1
  <2> QED BY <2>1, <2>2
<1>7. Len(l) <= Len(r)
  <2>1. Len(r) \in Nat BY <1>5
  <2> QED BY <1>1, <1>6, <2>1
<1>8. ASSUME NEW k \in Keys
      PROVE  Lookup(r, k) = IF Found(a, k) # {} THEN Lookup(a, k) ELSE Lookup(l, k)
  <2>1. Lookup(r, k) = IF RuntimeEquals(e[1], k) THEN {e[2]} ELSE Lookup(m, k)
    BY <1>1, <1>2, PlacedLooksUp
  <2>2. Lookup(m, k) = IF Found(s, k) # {} THEN Lookup(s, k) ELSE Lookup(l, k)
    BY <1>8 DEF Merged
  <2>3. CASE RuntimeEquals(e[1], k)
    <3>1. Found(a, k) = {Len(s) + 1} /\ Lookup(a, k) = {e[2]}
      BY <2>3, AppendLooksUp DEF a
    <3> QED BY <2>1, <2>3, <3>1
  <2>4. CASE ~RuntimeEquals(e[1], k)
    <3>1. Found(a, k) = Found(s, k) /\ Lookup(a, k) = Lookup(s, k)
      BY <2>4, AppendLooksUp DEF a
    <3> QED BY <2>1, <2>2, <2>4, <3>1
  <2> QED BY <2>3, <2>4
<1>9. \A i \in 1..Len(l) : r[i][1] = l[i][1]
  <2> TAKE i \in 1..Len(l)
  <2>1. i \in DOMAIN m /\ m[i][1] = l[i][1] BY <1>1
  <2>2. r[i][1] = m[i][1] BY <1>4, <2>1 DEF KeysKept
  <2> QED BY <2>1, <2>2
<1>10. /\ IsFiniteSet(NaNs(r)) /\ IsFiniteSet(NaNs(a)) /\ IsFiniteSet(NaNs(l))
       /\ IsFiniteSet(NaNs(m)) /\ IsFiniteSet(NaNs(s))
       /\ Cardinality(NaNs(l)) \in Nat /\ Cardinality(NaNs(s)) \in Nat
  BY <1>1, <1>3, <1>5, NaNsFinite
<1>11. Cardinality(NaNs(r)) = Cardinality(NaNs(l)) + Cardinality(NaNs(a))
  <2>1. NaNs(r) = NaNs(m) \cup (IF e[1] = NaN THEN {Len(m) + 1} ELSE {})
    BY <1>1, <1>2, PlacedNaNs
  <2>2. NaNs(a) = NaNs(s) \cup (IF e[1] = NaN THEN {Len(s) + 1} ELSE {})
    BY AppendLooksUp DEF a
  <2>3. CASE e[1] = NaN
    <3>1. Len(m) + 1 \notin NaNs(m) /\ Len(s) + 1 \notin NaNs(s) BY <1>1 DEF NaNs
    <3>2. Cardinality(NaNs(r)) = Cardinality(NaNs(m)) + 1
      <4>1. NaNs(r) = NaNs(m) \cup {Len(m) + 1} BY <2>1, <2>3
      <4> QED BY <1>10, <3>1, <4>1, FS_AddElement
    <3>3. Cardinality(NaNs(a)) = Cardinality(NaNs(s)) + 1
      <4>1. NaNs(a) = NaNs(s) \cup {Len(s) + 1} BY <2>2, <2>3
      <4> QED BY <1>10, <3>1, <4>1, FS_AddElement
    <3> QED BY <1>1, <1>10, <3>2, <3>3
  <2>4. CASE e[1] # NaN
    <3>1. NaNs(r) = NaNs(m) /\ NaNs(a) = NaNs(s) BY <2>1, <2>2, <2>4
    <3> QED BY <1>1, <3>1
  <2> QED BY <2>3, <2>4
<1>12. Merged(l, a, r)
  BY <1>5, <1>7, <1>8, <1>9, <1>10, <1>11 DEF Merged
<1> QED BY <1>12 DEF a, r

\* What a merge of two maps gives.
LEMMA MergeGives ==
  ASSUME NEW l \in Seq(Entry), KeysDiffer(l), NEW r \in Seq(Entry), KeysDiffer(r)
  PROVE  Merged(l, r, NormalizeMapEntries(l \o r))
<1> DEFINE both == l \o r
           n == Normalized(both)
<1>1. /\ both \in Seq(Entry) /\ Len(both) = Len(l) + Len(r)
      /\ Len(l) \in Nat /\ Len(r) \in Nat
      /\ \A i \in 1..Len(l) : both[i] = l[i]
      /\ \A i \in 1..Len(r) : both[Len(l) + i] = r[i]
  OBVIOUS
<1> HIDE DEF both
<1>2. /\ n[0] = <<>>
      /\ \A i \in 1..Len(both) : n[i] = WithEntry(n[i-1], both[i])
  BY <1>1, NormalizedDef
<1> HIDE DEF n
<1> DEFINE GoodL == {i \in Nat : i <= Len(l) => n[i] = SubSeq(l, 1, i)}
           GoodR == {i \in Nat : i <= Len(r) => Merged(l, SubSeq(r, 1, i), n[Len(l) + i])}
<1>3. 0 \in GoodL
  <2>1. SubSeq(l, 1, 0) = <<>> BY SubSeqEmpty
  <2> QED BY <1>2, <2>1
<1>4. ASSUME NEW i \in Nat, i \in GoodL PROVE i + 1 \in GoodL
  <2> SUFFICES ASSUME i + 1 <= Len(l) PROVE n[i+1] = SubSeq(l, 1, i + 1) OBVIOUS
  <2>1. i + 1 \in 1..Len(both) /\ (i + 1) - 1 = i /\ i < Len(l) /\ i \in 0..Len(l)
        /\ i + 1 \in 1..Len(l)
    BY <1>1
  <2>2. n[i] = SubSeq(l, 1, i) BY <1>4, <2>1
  <2>3. n[i+1] = WithEntry(SubSeq(l, 1, i), l[i+1]) BY <1>1, <1>2, <2>1, <2>2
  <2> DEFINE p == SubSeq(l, 1, i)
  <2>4. /\ p \in Seq(Entry) /\ Len(p) = i
        /\ \A j \in 1..i : p[j] = l[j]
        /\ SubSeq(l, 1, i + 1) = Append(p, l[i+1])
    BY <2>1, PrefixGrows
  <2> HIDE DEF p
  <2>5. Found(p, l[i+1][1]) = {}
    <3>1. ASSUME NEW j \in Found(p, l[i+1][1]) PROVE FALSE
      <4>1. j \in 1..i /\ RuntimeEquals(l[j][1], l[i+1][1]) BY <2>4 DEF Found
      <4>2. j \in DOMAIN l /\ i + 1 \in DOMAIN l /\ j < i + 1 BY <1>1, <2>1, <4>1
      <4> QED BY <4>1, <4>2 DEF KeysDiffer
    <3> QED BY <3>1
  <2>6. WithEntry(p, l[i+1]) = Append(p, l[i+1]) BY <2>5 DEF WithEntry
  <2> QED BY <2>3, <2>4, <2>6 DEF p
<1>5. Nat \subseteq GoodL
  <2> HIDE DEF GoodL
  <2> QED BY <1>3, <1>4, NatSetInduction
<1>6. n[Len(l)] = l
  <2>1. n[Len(l)] = SubSeq(l, 1, Len(l)) BY <1>1, <1>5
  <2> QED BY <2>1
<1>7. 0 \in GoodR
  <2>1. SubSeq(r, 1, 0) = <<>> BY SubSeqEmpty
  <2>2. Len(l) + 0 = Len(l) BY <1>1
  <2>3. NaNs(<<>>) = {} /\ \A k : Found(<<>>, k) = {} BY DEF NaNs, Found
  <2>4. IsFiniteSet(NaNs(l)) /\ Cardinality(NaNs(l)) \in Nat BY NaNsFinite
  <2>5. IsFiniteSet(NaNs(<<>>)) /\ Cardinality(NaNs(<<>>)) = 0 BY <2>3, FS_EmptySet
  <2>6. Merged(l, <<>>, l) BY <2>3, <2>4, <2>5 DEF Merged
  <2> QED BY <1>6, <2>1, <2>2, <2>6
<1>8. ASSUME NEW i \in Nat, i \in GoodR PROVE i + 1 \in GoodR
  <2> SUFFICES ASSUME i + 1 <= Len(r)
               PROVE  Merged(l, SubSeq(r, 1, i + 1), n[Len(l) + (i + 1)])
    OBVIOUS
  <2>1. i \in 0..Len(r) /\ i < Len(r) /\ i + 1 \in 1..Len(r) /\ i <= Len(r)
        /\ Len(l) + (i + 1) \in 1..Len(both)
        /\ (Len(l) + (i + 1)) - 1 = Len(l) + i
    BY <1>1
  <2> DEFINE s == SubSeq(r, 1, i)
             m == n[Len(l) + i]
  <2>2. Merged(l, s, m) BY <1>8, <2>1
  <2>3. n[Len(l) + (i + 1)] = WithEntry(m, r[i+1]) BY <1>1, <1>2, <2>1
  <2>4. /\ s \in Seq(Entry) /\ Len(s) = i
        /\ \A j \in 1..i : s[j] = r[j]
        /\ SubSeq(r, 1, i + 1) = Append(s, r[i+1])
    BY <2>1, PrefixGrows
  <2>5. /\ SubSeq(r, 1, i + 1) \in Seq(Entry) /\ Len(SubSeq(r, 1, i + 1)) = i + 1
        /\ \A j \in 1..(i + 1) : SubSeq(r, 1, i + 1)[j] = r[j]
    <3>1. i + 1 \in 0..Len(r) BY <2>1
    <3> QED BY <3>1, PrefixGrows
  <2>6. KeysDiffer(SubSeq(r, 1, i + 1))
    <3> DEFINE q == SubSeq(r, 1, i + 1)
    <3>1. \A j \in DOMAIN q : j \in DOMAIN r /\ q[j] = r[j] BY <1>1, <2>1, <2>5
    <3> HIDE DEF q
    <3>2. KeysDiffer(q) BY <3>1 DEF KeysDiffer
    <3> QED BY <3>2 DEF q
  <2>7. r[i+1] \in Entry BY <2>1
  <2> HIDE DEF s, m
  <2>8. Merged(l, Append(s, r[i+1]), WithEntry(m, r[i+1]))
    BY <2>2, <2>4, <2>6, <2>7, MergedStep
  <2> QED BY <2>3, <2>4, <2>8
<1>9. Nat \subseteq GoodR
  <2> HIDE DEF GoodR
  <2> QED BY <1>7, <1>8, NatSetInduction
<1>10. Merged(l, r, n[Len(l) + Len(r)])
  <2>1. Merged(l, SubSeq(r, 1, Len(r)), n[Len(l) + Len(r)]) BY <1>1, <1>9
  <2>2. SubSeq(r, 1, Len(r)) = r OBVIOUS
  <2> QED BY <2>1, <2>2
<1> QED BY <1>1, <1>10 DEF n, both, NormalizeMapEntries

\* Every map made of entries is one of different keys.
LEMMA NormalizeGives ==
  ASSUME NEW entries \in Seq(Entry)
  PROVE  /\ NormalizeMapEntries(entries) \in Seq(Entry)
         /\ KeysDiffer(NormalizeMapEntries(entries))
<1>1. Len(entries) \in 0..Len(entries) OBVIOUS
<1>2. \A n \in 0..Len(entries) :
        Normalized(entries)[n] \in Seq(Entry) /\ KeysDiffer(Normalized(entries)[n])
  BY NormalizedDef
<1> QED BY <1>1, <1>2 DEF NormalizeMapEntries

LEMMA MergesExact ==
  ASSUME maps \in Seq(Seq(Entry)), \A m \in DOMAIN maps : KeysDiffer(maps[m])
  PROVE  MergeExact
<1> SUFFICES ASSUME NEW l \in DOMAIN maps, NEW r \in DOMAIN maps
             PROVE  LET merged == NormalizeMapEntries(maps[l] \o maps[r])
                    IN  /\ \A k \in Keys :
                              Lookup(merged, k) = IF Found(maps[r], k) # {}
                                                  THEN Lookup(maps[r], k)
                                                  ELSE Lookup(maps[l], k)
                        /\ KeysOf(maps[l]) = SubSeq(KeysOf(merged), 1, Len(maps[l]))
                        /\ Cardinality({i \in DOMAIN merged : merged[i][1] = NaN}) =
                              Cardinality({i \in DOMAIN maps[l] : maps[l][i][1] = NaN})
                            + Cardinality({i \in DOMAIN maps[r] : maps[r][i][1] = NaN})
  BY DEF MergeExact
<1> DEFINE merged == NormalizeMapEntries(maps[l] \o maps[r])
<1>1. maps[l] \in Seq(Entry) /\ maps[r] \in Seq(Entry) OBVIOUS
<1>2. Merged(maps[l], maps[r], merged) BY <1>1, MergeGives
<1> HIDE DEF merged
<1>3. KeysOf(maps[l]) = SubSeq(KeysOf(merged), 1, Len(maps[l]))
  <2> DEFINE a == KeysOf(maps[l])
             b == KeysOf(merged)
             n == Len(maps[l])
  <2>1. /\ n \in Nat /\ n <= Len(merged) /\ merged \in Seq(Entry)
        /\ \A i \in 1..n : merged[i][1] = maps[l][i][1]
    BY <1>1, <1>2 DEF Merged
  <2>2. \A s \in Seq(Entry) :
          KeysOf(s) \in Seq(Keys) /\ Len(KeysOf(s)) = Len(s)
          /\ \A i \in 1..Len(s) : KeysOf(s)[i] = s[i][1]
    <3> TAKE s \in Seq(Entry)
    <3>1. \A i \in 1..Len(s) : s[i][1] \in Keys BY DEF Entry
    <3>2. DOMAIN s = 1..Len(s) /\ Len(s) \in Nat OBVIOUS
    <3> QED BY <3>1, <3>2 DEF KeysOf
  <2>3. /\ a \in Seq(Keys) /\ Len(a) = n /\ b \in Seq(Keys) /\ Len(b) = Len(merged)
        /\ \A i \in 1..n : a[i] = maps[l][i][1]
        /\ \A i \in 1..Len(merged) : b[i] = merged[i][1]
    BY <1>1, <2>1, <2>2
  <2> HIDE DEF a, b, n
  <2>4. n \in 0..Len(b) BY <2>1, <2>3
  <2>5. /\ SubSeq(b, 1, n) \in Seq(Keys) /\ Len(SubSeq(b, 1, n)) = n
        /\ \A i \in 1..n : SubSeq(b, 1, n)[i] = b[i]
    BY <2>3, <2>4, PrefixGrows
  <2>6. ASSUME NEW i \in 1..n PROVE a[i] = SubSeq(b, 1, n)[i]
    <3>1. i \in 1..Len(merged) /\ merged[i][1] = maps[l][i][1] BY <2>1
    <3>2. a[i] = maps[l][i][1] /\ b[i] = merged[i][1] BY <2>3, <3>1
    <3> QED BY <2>5, <3>1, <3>2
  <2>7. a = SubSeq(b, 1, n) BY <2>3, <2>5, <2>6, SeqEqual
  <2> QED BY <2>7 DEF a, b, n
<1> QED BY <1>2, <1>3 DEF Merged, NaNs, merged

-----------------------------------------------------------------------------
(* Ranges.                                                                 *)

\* How far n is from the start of a range, in its direction; how far its end
\* is; and its step without the direction.
Ahead(n, start, step) == IF step > 0 THEN n - start ELSE start - n
Size(step) == IF step > 0 THEN step ELSE -step

LEMMA MultipleModulo ==
  ASSUME NEW i \in Int, NEW d \in Nat \ {0}
  PROVE  (i * d) % d = 0
OBVIOUS

LEMMA StepsBefore ==
  ASSUME NEW start \in Int, NEW stop \in Int, NEW step \in Int, step # 0, NEW i \in Nat
  PROVE  i < RangeLength(start, stop, step)
           <=> i * Size(step) < Ahead(stop, start, step)
<1> DEFINE d == Size(step)
           gap == Ahead(stop, start, step)
<1>1. d \in Nat \ {0} /\ gap \in Int BY DEF Size, Ahead
<1>2. RangeLength(start, stop, step) = IF gap > 0 THEN (gap - 1) \div d + 1 ELSE 0
  BY DEF RangeLength, Size, Ahead
<1> HIDE DEF d, gap
<1>3. CASE gap > 0
  <2>1. gap - 1 \in Nat BY <1>1, <1>3
  <2> DEFINE q == (gap - 1) \div d
             r == (gap - 1) % d
  <2>2. q \in Nat /\ r \in 0..(d-1) /\ gap - 1 = d * q + r BY <1>1, <2>1
  <2> HIDE DEF q, r
  <2>3. RangeLength(start, stop, step) = q + 1 BY <1>2, <1>3 DEF q
  <2>4. ASSUME i <= q PROVE i * d < gap
    <3>1. i * d <= q * d BY <1>1, <2>2, <2>4
    <3> QED BY <1>1, <2>2, <3>1
  <2>5. ASSUME ~(i <= q) PROVE ~(i * d < gap)
    <3>1. i >= q + 1 BY <2>2, <2>5
    <3>2. i * d >= (q + 1) * d BY <1>1, <2>2, <3>1
    <3>3. (q + 1) * d = d * q + d BY <1>1, <2>2
    <3>4. i * d \in Int /\ d * q \in Int BY <1>1, <2>2
    <3> QED BY <1>1, <2>2, <3>2, <3>3, <3>4
  <2> QED BY <2>2, <2>3, <2>4, <2>5 DEF d, gap
<1>4. CASE ~(gap > 0)
  <2>1. i * d >= 0 BY <1>1
  <2>2. ~(i * d < gap)
    <3>1. i * d \in Int BY <1>1
    <3> QED BY <1>1, <1>4, <2>1, <3>1
  <2>3. RangeLength(start, stop, step) = 0 BY <1>2, <1>4
  <2> QED BY <2>2, <2>3 DEF d, gap
<1> QED BY <1>3, <1>4

LEMMA RangeLengthType ==
  ASSUME NEW start \in Int, NEW stop \in Int, NEW step \in Int, step # 0
  PROVE  RangeLength(start, stop, step) \in Nat
<1>1. CASE step > 0 /\ start < stop
  <2>1. stop - start - 1 \in Nat /\ step \in Nat \ {0} BY <1>1
  <2>2. (stop - start - 1) \div step \in Nat BY <2>1
  <2> QED BY <1>1, <2>2 DEF RangeLength
<1>2. CASE step < 0 /\ start > stop
  <2>1. start - stop - 1 \in Nat /\ -step \in Nat \ {0} BY <1>2
  <2>2. (start - stop - 1) \div (-step) \in Nat BY <2>1
  <2> QED BY <1>2, <2>2 DEF RangeLength
<1>3. CASE ~(step > 0 /\ start < stop) /\ ~(step < 0 /\ start > stop)
  BY <1>3 DEF RangeLength
<1> QED BY <1>1, <1>2, <1>3

\* What range is contained in it, what it holds and what it says it holds.
LEMMA RangesExact ==
  ASSUME range.start \in Int, range.stop \in Int, range.step \in Int \ {0},
         range.length = RangeLength(range.start, range.stop, range.step)
  PROVE  RangeExact
<1> DEFINE start == range.start
           stop == range.stop
           step == range.step
           len == range.length
           d == Size(step)
           gap == Ahead(stop, start, step)
           low == IF start < stop THEN start ELSE stop
           high == IF start < stop THEN stop ELSE start
           Before(n) == IF step > 0 THEN n < stop ELSE n > stop
           numbers == {n \in low..high :
                         /\ Before(n)
                         /\ \E i \in 0..(high - low) : n = start + i * step}
           held == {start + step * i : i \in 0..(len - 1)}
<1>0. /\ start \in Int /\ stop \in Int /\ step \in Int /\ step # 0
      /\ len = RangeLength(start, stop, step) /\ len \in Nat
  BY RangeLengthType
<1> HIDE DEF start, stop, step, len
<1>1. /\ d \in Nat \ {0} /\ gap \in Int /\ len \in Nat /\ low \in Int /\ high \in Int
      /\ low <= high /\ gap <= high - low
      /\ \A n \in Int : Before(n) <=> Ahead(n, start, step) < gap
      /\ \A n \in Int : Ahead(n, start, step) \in Int
      /\ \A n \in Int : Ahead(n, start, step) \in 0..gap => n \in low..high
  <2>1. CASE step > 0 BY <1>0, <2>1 DEF Size, Ahead
  <2>2. CASE ~(step > 0) BY <1>0, <2>2 DEF Size, Ahead
  <2> QED BY <2>1, <2>2
<1>2. ASSUME NEW i \in Int
      PROVE  /\ start + i * step \in Int /\ i * step = step * i
             /\ Ahead(start + i * step, start, step) = i * d /\ i * d \in Int
  <2>1. CASE step > 0 BY <1>0, <2>1 DEF Ahead, Size
  <2>2. CASE ~(step > 0)
    <3>1. i * (-step) = -(i * step) BY <1>0
    <3> QED BY <1>0, <2>2, <3>1 DEF Ahead, Size
  <2> QED BY <2>1, <2>2
<1>3. \A i \in Nat : i < len <=> i * d < gap BY <1>0, StepsBefore
<1>4. \A i \in Nat : i <= i * d /\ i * d >= 0 BY <1>1
<1> HIDE DEF d, gap, len, Before, low, high
<1>5. ASSUME NEW i \in Nat, i < len PROVE start + i * step \in numbers
  <2>1. i * d < gap /\ i <= i * d /\ i * d \in Nat BY <1>3, <1>4, <1>5, <1>2
  <2>2. i \in 0..(high - low) BY <1>1, <2>1
  <2> DEFINE n == start + i * step
  <2>3. n \in Int /\ Ahead(n, start, step) = i * d BY <1>2
  <2> HIDE DEF n
  <2>4. Ahead(n, start, step) \in 0..gap BY <1>1, <2>1, <2>3
  <2>5. n \in low..high /\ Before(n) BY <1>1, <2>1, <2>3, <2>4
  <2>6. \E j \in 0..(high - low) : n = start + j * step BY <2>2 DEF n
  <2>7. n \in numbers BY <2>5, <2>6
  <2> QED BY <2>7 DEF n
<1>6. ASSUME NEW n \in numbers PROVE \E i \in Nat : i < len /\ n = start + i * step
  <2>1. PICK i \in 0..(high - low) : n = start + i * step OBVIOUS
  <2>2. i \in Nat /\ n \in Int /\ Before(n) BY <1>1, <2>1
  <2>3. i * d < gap BY <1>1, <1>2, <2>1, <2>2
  <2> QED BY <1>3, <2>1, <2>2, <2>3
<1>7. held = numbers
  <2>1. ASSUME NEW n \in held PROVE n \in numbers
    <3>1. PICK i \in 0..(len - 1) : n = start + step * i OBVIOUS
    <3>2. i \in Nat /\ i < len BY <1>1, <3>1
    <3>3. n = start + i * step BY <1>2, <3>1, <3>2
    <3> QED BY <1>5, <3>2, <3>3
  <2>2. ASSUME NEW n \in numbers PROVE n \in held
    <3>1. PICK i \in Nat : i < len /\ n = start + i * step BY <1>6
    <3>2. i \in 0..(len - 1) BY <1>1, <3>1
    <3>3. n = start + step * i BY <1>2, <3>1
    <3> QED BY <3>2, <3>3
  <2> HIDE DEF held, numbers
  <2> QED BY <2>1, <2>2
<1>8. len = Cardinality(numbers)
  <2> DEFINE f == [i \in 1..len |-> start + (i - 1) * step]
  <2>1. f \in [1..len -> numbers]
    <3>1. ASSUME NEW i \in 1..len PROVE start + (i - 1) * step \in numbers
      <4>1. i - 1 \in Nat /\ i - 1 < len BY <1>1
      <4> QED BY <1>5, <4>1
    <3> HIDE DEF numbers
    <3> QED BY <3>1
  <2>2. \A i, j \in 1..len : f[i] = f[j] => i = j
    <3> TAKE i, j \in 1..len
    <3> HAVE f[i] = f[j]
    <3>1. i - 1 \in Int /\ j - 1 \in Int BY <1>1
    <3>2. start + (i - 1) * step = start + (j - 1) * step OBVIOUS
    <3>3. (i - 1) * d = (j - 1) * d BY <1>2, <3>1, <3>2
    <3>4. i - 1 = j - 1 BY <1>1, <3>1, <3>3
    <3> QED BY <1>1, <3>4
  <2>3. \A n \in numbers : \E i \in 1..len : f[i] = n
    <3> TAKE n \in numbers
    <3>1. PICK i \in Nat : i < len /\ n = start + i * step BY <1>6
    <3>2. i + 1 \in 1..len /\ (i + 1) - 1 = i BY <1>1, <3>1
    <3>3. f[i + 1] = n BY <3>1, <3>2
    <3> QED BY <3>2, <3>3
  <2> HIDE DEF f, numbers
  <2>4. f \in Bijection(1..len, numbers)
    BY <2>1, <2>2, <2>3 DEF Bijection, Injection, Surjection, IsInjective
  <2>5. ExistsBijection(1..len, numbers) BY <2>4 DEF ExistsBijection
  <2> QED BY <1>1, <2>5, FS_CountingElements
<1>9. {n \in (low - d)..(high + d) : RangeContains(range, n)} = numbers
  <2> DEFINE answers == {n \in (low - d)..(high + d) : RangeContains(range, n)}
  <2>0. \A n \in Int : RangeContains(range, n) <=>
          Ahead(n, start, step) >= 0 /\ Ahead(n, start, step) < gap /\ (n - start) % d = 0
    <3> TAKE n \in Int
    <3>1. CASE step > 0
      BY <1>0, <3>1 DEF RangeContains, Ahead, Size, d, gap, start, stop, step
    <3>2. CASE ~(step > 0)
      BY <1>0, <3>2 DEF RangeContains, Ahead, Size, d, gap, start, stop, step
    <3> QED BY <3>1, <3>2
  <2>1. ASSUME NEW n \in answers PROVE n \in numbers
    <3>1. n \in Int BY <1>1
    <3>2. Ahead(n, start, step) >= 0 /\ Ahead(n, start, step) < gap /\ (n - start) % d = 0
      BY <2>0, <3>1
    <3>3. n - start = d * ((n - start) \div d) /\ (n - start) \div d \in Int
      <4>1. n - start \in Int BY <1>0, <3>1
      <4> QED BY <1>1, <3>2, <4>1
    <3>4. \E i \in Int : n = start + i * step
      <4>1. CASE step > 0
        <5>1. d = step BY <1>0, <4>1 DEF d, Size
        <5>2. n = start + ((n - start) \div d) * step BY <1>0, <3>1, <3>3, <5>1
        <5> QED BY <3>3, <5>2
      <4>2. CASE ~(step > 0)
        <5>1. d = -step BY <1>0, <4>2 DEF d, Size
        <5>2. n = start + (-((n - start) \div d)) * step BY <1>0, <3>1, <3>3, <5>1
        <5>3. -((n - start) \div d) \in Int BY <3>3
        <5> QED BY <5>2, <5>3
      <4> QED BY <4>1, <4>2
    <3>5. PICK i \in Int : n = start + i * step BY <3>4
    <3>6. i * d >= 0 /\ i * d < gap BY <1>2, <3>2, <3>5
    <3>7. i \in Nat BY <1>1, <3>6
    <3>8. i < len BY <1>3, <3>6, <3>7
    <3> QED BY <1>5, <3>5, <3>7, <3>8
  <2>2. ASSUME NEW n \in numbers PROVE n \in answers
    <3>1. PICK i \in Nat : i < len /\ n = start + i * step BY <1>6
    <3>2. n \in Int /\ n \in low..high BY <1>1
    <3>3. Ahead(n, start, step) = i * d BY <1>2, <3>1
    <3>4. i * d >= 0 /\ i * d < gap BY <1>3, <1>4, <3>1
    <3>5. (n - start) % d = 0
      <4>0. d \in Nat \ {0} /\ i \in Int /\ -i \in Int BY <1>1
      <4>1. CASE step > 0
        <5>1. n - start = i * d BY <1>0, <3>1, <3>2, <4>1 DEF d, Size
        <5> QED BY <4>0, <5>1, MultipleModulo
      <4>2. CASE ~(step > 0)
        <5>1. n - start = (-i) * d BY <1>0, <3>1, <3>2, <4>2 DEF d, Size
        <5> QED BY <4>0, <5>1, MultipleModulo
      <4> QED BY <4>1, <4>2
    <3>6. RangeContains(range, n) BY <2>0, <3>2, <3>3, <3>4, <3>5
    <3>7. n \in (low - d)..(high + d) BY <1>1, <3>2
    <3> QED BY <3>6, <3>7
  <2> HIDE DEF answers, numbers
  <2>3. answers = numbers BY <2>1, <2>2
  <2> QED BY <2>3 DEF answers
<1>10. {RangeElement(range, i) : i \in 0..(len - 1)} = held
  BY DEF RangeElement, start, step
<1> HIDE DEF held
<1> QED BY <1>7, <1>8, <1>9, <1>10
        DEF RangeExact, d, Size, low, high, Before, len, start, stop, step

-----------------------------------------------------------------------------
(* What the containers of an execution hold.                               *)

LEMMA SizesDef ==
  ASSUME NEW V, NEW s \in Seq(Seq(V))
  PROVE  /\ SizesUpTo(s)[0] = 0
         /\ \A n \in 1..Len(s) : SizesUpTo(s)[n] = SizesUpTo(s)[n-1] + 1 + Len(s[n])
         /\ \A n \in 0..Len(s) : SizesUpTo(s)[n] \in Nat
<1> DEFINE step == [p \in Nat \X Nat |->
                      IF p[2] \in 1..Len(s) THEN p[1] + 1 + Len(s[p[2]]) ELSE p[1]]
           Rule(f) == [n \in 0..Len(s) |-> IF n = 0 THEN 0 ELSE f[n-1] + 1 + Len(s[n])]
<1>1. Len(s) \in Nat /\ \A n \in 1..Len(s) : Len(s[n]) \in Nat
  <2>1. \A n \in 1..Len(s) : s[n] \in Seq(V) OBVIOUS
  <2> QED BY <2>1
<1>2. StepsOn(step, Nat) BY <1>1 DEF StepsOn
<1>3. \A x \in Nat, n \in 1..Len(s) : step[<<x, n>>] = x + 1 + Len(s[n])
  <2> TAKE x \in Nat, n \in 1..Len(s)
  <2>1. n \in Nat /\ <<x, n>> \in Nat \X Nat BY <1>1
  <2> QED BY <2>1
<1> HIDE DEF step
<1>4. PICK f : GivenByStep(f, Nat, 0, step, Len(s)) BY <1>1, <1>2, FunctionByStep
<1>5. /\ f \in [0..Len(s) -> Nat] /\ f[0] = 0
      /\ \A n \in 1..Len(s) : f[n] = f[n-1] + 1 + Len(s[n])
  <2>1. /\ f \in [0..Len(s) -> Nat] /\ f[0] = 0
        /\ \A n \in 1..Len(s) : f[n] = step[<<f[n-1], n>>]
    BY <1>4 DEF GivenByStep
  <2>2. \A n \in 1..Len(s) : n - 1 \in 0..Len(s) BY <1>1
  <2>3. \A n \in 1..Len(s) : f[n-1] \in Nat BY <2>1, <2>2
  <2> QED BY <1>3, <2>1, <2>3
<1>6. f = Rule(f) BY <1>1, <1>5
<1> DEFINE g == SizesUpTo(s)
<1>7. g = Rule(g) BY <1>6 DEF SizesUpTo
<1> HIDE DEF g
<1>8. g[0] = 0 /\ \A n \in 1..Len(s) : g[n] = g[n-1] + 1 + Len(s[n])
  <2>1. \A n \in 0..Len(s) : g[n] = IF n = 0 THEN 0 ELSE g[n-1] + 1 + Len(s[n])
    BY <1>7
  <2>2. 0 \in 0..Len(s) /\ \A n \in 1..Len(s) : n \in 0..Len(s) /\ n # 0 BY <1>1
  <2> QED BY <2>1, <2>2
<1> DEFINE Good == {n \in Nat : n <= Len(s) => g[n] \in Nat}
<1>9. 0 \in Good BY <1>8
<1>10. ASSUME NEW n \in Nat, n \in Good PROVE n + 1 \in Good
  <2> SUFFICES ASSUME n + 1 <= Len(s) PROVE g[n+1] \in Nat OBVIOUS
  <2>1. n + 1 \in 1..Len(s) /\ (n + 1) - 1 = n /\ n <= Len(s) BY <1>1
  <2>2. g[n] \in Nat /\ g[n+1] = g[n] + 1 + Len(s[n+1]) BY <1>8, <1>10, <2>1
  <2> QED BY <1>1, <2>1, <2>2
<1>11. Nat \subseteq Good
  <2> HIDE DEF Good
  <2> QED BY <1>9, <1>10, NatSetInduction
<1>12. \A n \in 0..Len(s) : g[n] \in Nat BY <1>1, <1>11
<1> QED BY <1>8, <1>12 DEF g

LEMMA SizesType ==
  ASSUME NEW V, NEW s \in Seq(Seq(V))
  PROVE  Sizes(s) \in Nat
<1>1. Len(s) \in 0..Len(s) OBVIOUS
<1>2. \A n \in 0..Len(s) : SizesUpTo(s)[n] \in Nat BY SizesDef
<1> QED BY <1>1, <1>2 DEF Sizes

\* Two lists of containers that differ in the size of the a-th only.
Gap(s, t, a, n) == IF a \in 1..n THEN Len(t[a]) - Len(s[a]) ELSE 0
SizesDiffer(s, t, a, n) == SizesUpTo(t)[n] = SizesUpTo(s)[n] + Gap(s, t, a, n)

LEMMA SizesChange ==
  ASSUME NEW V, NEW s \in Seq(Seq(V)), NEW t \in Seq(Seq(V)), Len(s) <= Len(t),
         NEW a \in Nat, \A i \in 1..Len(s) : i # a => Len(t[i]) = Len(s[i]),
         NEW n \in 0..Len(s)
  PROVE  SizesDiffer(s, t, a, n)
<1> DEFINE f == SizesUpTo(s)
           g == SizesUpTo(t)
           Good == {m \in Nat : m <= Len(s) => g[m] = f[m] + Gap(s, t, a, m)}
<1>1. /\ Len(s) \in Nat /\ Len(t) \in Nat
      /\ \A i \in 1..Len(s) : Len(s[i]) \in Nat /\ Len(t[i]) \in Nat
  <2>1. Len(s) \in Nat /\ Len(t) \in Nat OBVIOUS
  <2>2. \A i \in 1..Len(s) : s[i] \in Seq(V) /\ t[i] \in Seq(V) BY <2>1
  <2> QED BY <2>1, <2>2
<1>2. /\ f[0] = 0 /\ \A m \in 1..Len(s) : f[m] = f[m-1] + 1 + Len(s[m])
      /\ \A m \in 0..Len(s) : f[m] \in Nat
  BY SizesDef
<1>3. /\ g[0] = 0 /\ \A m \in 1..Len(t) : g[m] = g[m-1] + 1 + Len(t[m])
      /\ \A m \in 0..Len(t) : g[m] \in Nat
  BY SizesDef
<1> HIDE DEF f, g
<1>4. 0 \in Good
  <2>1. Gap(s, t, a, 0) = 0 BY DEF Gap
  <2>2. g[0] = f[0] + Gap(s, t, a, 0) BY <1>2, <1>3, <2>1
  <2> QED BY <2>2
<1>5. ASSUME NEW m \in Nat, m \in Good PROVE m + 1 \in Good
  <2> SUFFICES ASSUME m + 1 <= Len(s)
               PROVE  g[m+1] = f[m+1] + Gap(s, t, a, m + 1)
    OBVIOUS
  <2>1. /\ m + 1 \in 1..Len(s) /\ m + 1 \in 1..Len(t) /\ (m + 1) - 1 = m
        /\ m \in 0..Len(s) /\ m \in 0..Len(t) /\ m <= Len(s)
    BY <1>1
  <2>2. g[m] = f[m] + Gap(s, t, a, m) BY <1>5, <2>1
  <2>3. /\ g[m] \in Nat /\ f[m] \in Nat
        /\ g[m+1] = g[m] + 1 + Len(t[m+1]) /\ f[m+1] = f[m] + 1 + Len(s[m+1])
    BY <1>2, <1>3, <2>1
  <2>4. Len(s[m+1]) \in Nat /\ Len(t[m+1]) \in Nat BY <1>1, <2>1
  <2>5. CASE a = m + 1
    <3>1. a \notin 1..m /\ a \in 1..(m+1) BY <2>5
    <3>2. Gap(s, t, a, m) = 0 BY <3>1 DEF Gap
    <3>3. Gap(s, t, a, m + 1) = Len(t[a]) - Len(s[a]) BY <3>1 DEF Gap
    <3>4. Gap(s, t, a, m + 1) = Len(t[m+1]) - Len(s[m+1])
      <4>1. t[a] = t[m+1] /\ s[a] = s[m+1] BY <2>5
      <4> QED BY <3>3, <4>1
    <3>5. g[m] = f[m] BY <2>2, <2>3, <3>2
    <3>6. g[m+1] = f[m] + 1 + Len(t[m+1]) BY <2>3, <3>5
    <3>7. \A x, i, j \in Nat : x + 1 + j = (x + 1 + i) + (j - i) OBVIOUS
    <3>8. f[m] + 1 + Len(t[m+1])
            = (f[m] + 1 + Len(s[m+1])) + (Len(t[m+1]) - Len(s[m+1]))
      BY <2>3, <2>4, <3>7
    <3> QED BY <2>3, <3>4, <3>6, <3>8
  <2>6. CASE a # m + 1
    <3>1. a \in 1..(m+1) <=> a \in 1..m BY <2>6
    <3>2. Gap(s, t, a, m + 1) = Gap(s, t, a, m) BY <3>1 DEF Gap
    <3>3. Len(t[m+1]) = Len(s[m+1]) BY <2>1, <2>6
    <3>4. Gap(s, t, a, m) \in Int
      <4>1. CASE a \in 1..m
        <5>1. a \in 1..Len(s) BY <1>1, <2>1, <4>1
        <5> QED BY <1>1, <4>1, <5>1 DEF Gap
      <4>2. CASE a \notin 1..m BY <4>2 DEF Gap
      <4> QED BY <4>1, <4>2
    <3>5. \A x, j \in Nat, d \in Int : (x + d) + 1 + j = (x + 1 + j) + d OBVIOUS
    <3>6. g[m+1] = (f[m] + Gap(s, t, a, m)) + 1 + Len(s[m+1])
      BY <2>2, <2>3, <3>3, Zenon
    <3>7. g[m+1] = (f[m] + 1 + Len(s[m+1])) + Gap(s, t, a, m)
      BY <2>3, <2>4, <3>4, <3>5, <3>6
    <3> QED BY <2>3, <3>2, <3>7, Zenon
  <2> QED BY <2>5, <2>6
<1>6. Nat \subseteq Good
  <2> HIDE DEF Good
  <2> QED BY <1>4, <1>5, NatSetInduction
<1>7. g[n] = f[n] + Gap(s, t, a, n)
  <2>1. n \in Nat /\ n <= Len(s) BY <1>1
  <2>2. n \in Good BY <1>6, <2>1
  <2> QED BY <2>1, <2>2
<1> QED BY <1>7 DEF SizesDiffer, f, g

LEMMA SizesAppend ==
  ASSUME NEW V, NEW s \in Seq(Seq(V)), NEW c \in Seq(V)
  PROVE  Append(s, c) \in Seq(Seq(V)) /\ Sizes(Append(s, c)) = Sizes(s) + 1 + Len(c)
<1> DEFINE t == Append(s, c)
<1>1. /\ t \in Seq(Seq(V)) /\ Len(t) = Len(s) + 1 /\ Len(s) \in Nat
      /\ \A i \in 1..Len(s) : t[i] = s[i]
      /\ t[Len(s) + 1] = c
  BY AppendProperties
<1> HIDE DEF t
<1>2. Len(s) \in 0..Len(s) /\ Len(s) <= Len(t) /\ 0 \in Nat BY <1>1
<1>3. \A i \in 1..Len(s) : i # 0 => Len(t[i]) = Len(s[i]) BY <1>1
<1>4. SizesDiffer(s, t, 0, Len(s)) BY <1>1, <1>2, <1>3, SizesChange
<1>5. SizesUpTo(t)[Len(s)] = SizesUpTo(s)[Len(s)]
  <2>1. SizesUpTo(t)[Len(s)] = SizesUpTo(s)[Len(s)] + 0
    BY <1>4 DEF SizesDiffer, Gap
  <2>2. SizesUpTo(s)[Len(s)] \in Nat BY SizesType DEF Sizes
  <2> QED BY <2>1, <2>2
<1>6. SizesUpTo(t)[Len(t)] = SizesUpTo(t)[Len(s)] + 1 + Len(c)
  <2>1. \A n \in 1..Len(t) : SizesUpTo(t)[n] = SizesUpTo(t)[n-1] + 1 + Len(t[n])
    BY <1>1, SizesDef
  <2>2. Len(t) \in 1..Len(t) /\ Len(t) - 1 = Len(s) /\ t[Len(t)] = c BY <1>1
  <2> QED BY <2>1, <2>2
<1> QED BY <1>1, <1>5, <1>6 DEF Sizes, t

LEMMA SizesExcept ==
  ASSUME NEW V, NEW s \in Seq(Seq(V)), NEW a \in DOMAIN s, NEW c \in Seq(V)
  PROVE  /\ [s EXCEPT ![a] = c] \in Seq(Seq(V))
         /\ Sizes([s EXCEPT ![a] = c]) = Sizes(s) - Len(s[a]) + Len(c)
<1> DEFINE t == [s EXCEPT ![a] = c]
<1>1. /\ a \in 1..Len(s) /\ a \in Nat /\ Len(s) \in Nat
      /\ s[a] \in Seq(V) /\ Len(s[a]) \in Nat /\ Len(c) \in Nat
  <2>1. a \in 1..Len(s) /\ Len(s) \in Nat OBVIOUS
  <2>2. s[a] \in Seq(V) BY <2>1
  <2> QED BY <2>1, <2>2
<1>2. /\ t \in Seq(Seq(V)) /\ Len(t) = Len(s) /\ t[a] = c
      /\ \A i \in 1..Len(s) : i # a => t[i] = s[i]
  BY <1>1, ExceptSeq
<1> HIDE DEF t
<1>3. SizesDiffer(s, t, a, Len(s))
  <2>1. Len(s) \in 0..Len(s) /\ Len(s) <= Len(t) BY <1>1, <1>2
  <2>2. \A i \in 1..Len(s) : i # a => Len(t[i]) = Len(s[i]) BY <1>2
  <2> QED BY <1>1, <1>2, <2>1, <2>2, SizesChange
<1>4. Sizes(t) = Sizes(s) + (Len(c) - Len(s[a]))
  BY <1>1, <1>2, <1>3 DEF SizesDiffer, Sizes, Gap
<1>5. Sizes(s) \in Nat BY SizesType
<1>6. Sizes(t) = Sizes(s) - Len(s[a]) + Len(c) BY <1>1, <1>4, <1>5
<1> QED BY <1>2, <1>6 DEF t

-----------------------------------------------------------------------------
(* Sequences of answers.                                                   *)

\* What the first i sequences make when they are put together.
Flattened(seqs) ==
    LET flatten[i \in 1..Len(seqs)] ==
            IF i = 1 THEN seqs[i] ELSE flatten[i-1] \o seqs[i]
    IN  flatten

LEMMA FlattenedDef ==
  ASSUME NEW V, NEW s \in Seq(Seq(V)), s # <<>>
  PROVE  /\ Flattened(s)[1] = s[1]
         /\ \A i \in 2..Len(s) : Flattened(s)[i] = Flattened(s)[i-1] \o s[i]
         /\ \A i \in 1..Len(s) : Flattened(s)[i] \in Seq(V)
<1> DEFINE n == Len(s) - 1
           S == Seq(V)
           step == [p \in S \X Nat |-> IF p[2] \in 1..n THEN p[1] \o s[p[2] + 1] ELSE p[1]]
           Rule(f) == [i \in 1..Len(s) |-> IF i = 1 THEN s[i] ELSE f[i-1] \o s[i]]
<1>1. Len(s) \in Nat /\ n \in Nat /\ Len(s) = n + 1 /\ \A i \in 1..(n + 1) : s[i] \in S
  <2>1. Len(s) \in Nat /\ Len(s) # 0 OBVIOUS
  <2> QED BY <2>1
<1> HIDE DEF n
<1>2. \A x, y \in S : x \o y \in S OBVIOUS
<1> HIDE DEF S
<1>3. StepsOn(step, S)
  <2>1. \A i \in 1..n : s[i + 1] \in S BY <1>1
  <2>2. \A p \in S \X Nat :
          (IF p[2] \in 1..n THEN p[1] \o s[p[2] + 1] ELSE p[1]) \in S
    BY <1>2, <2>1
  <2> QED BY <2>2 DEF StepsOn
<1>4. \A x \in S, i \in 1..n : step[<<x, i>>] = x \o s[i + 1]
  <2> TAKE x \in S, i \in 1..n
  <2>1. i \in Nat /\ <<x, i>> \in S \X Nat BY <1>1
  <2> QED BY <2>1
<1> HIDE DEF step
<1>5. PICK h : GivenByStep(h, S, s[1], step, n)
  <2>1. s[1] \in S BY <1>1
  <2> QED BY <1>1, <1>3, <2>1, FunctionByStep
<1>6. /\ h \in [0..n -> S] /\ h[0] = s[1]
      /\ \A i \in 1..n : h[i] = h[i-1] \o s[i + 1]
  <2>1. /\ h \in [0..n -> S] /\ h[0] = s[1]
        /\ \A i \in 1..n : h[i] = step[<<h[i-1], i>>]
    BY <1>5 DEF GivenByStep
  <2>2. \A i \in 1..n : i - 1 \in 0..n BY <1>1
  <2>3. \A i \in 1..n : h[i-1] \in S BY <2>1, <2>2
  <2> QED BY <1>4, <2>1, <2>3
<1> DEFINE f == [i \in 1..Len(s) |-> h[i-1]]
<1>7. f = Rule(f)
  <2>1. ASSUME NEW i \in 1..Len(s)
        PROVE  f[i] = IF i = 1 THEN s[i] ELSE f[i-1] \o s[i]
    <3>1. CASE i = 1 BY <1>6, <3>1
    <3>2. CASE i # 1
      <4>1. i - 1 \in 1..n /\ i - 1 \in 1..Len(s) /\ (i - 1) + 1 = i BY <1>1, <3>2
      <4>2. h[i-1] = h[(i-1)-1] \o s[i] BY <1>6, <4>1
      <4>3. f[i-1] = h[(i-1)-1] /\ f[i] = h[i-1] BY <4>1
      <4> QED BY <3>2, <4>2, <4>3
    <3> QED BY <3>1, <3>2
  <2> QED BY <2>1
<1> DEFINE g == Flattened(s)
<1>8. g = Rule(g)
  <2>1. \E x : x = Rule(x) BY <1>7
  <2> QED BY <2>1 DEF Flattened
<1> HIDE DEF g, f
<1>9. \A i \in 1..Len(s) : g[i] = IF i = 1 THEN s[i] ELSE g[i-1] \o s[i]
  BY <1>8
<1>10. g[1] = s[1] /\ \A i \in 2..Len(s) : g[i] = g[i-1] \o s[i]
  <2>1. 1 \in 1..Len(s) /\ \A i \in 2..Len(s) : i \in 1..Len(s) /\ i # 1 BY <1>1
  <2> QED BY <1>9, <2>1
<1> DEFINE Good == {i \in Nat : i <= n => g[i + 1] \in S}
<1>11. 0 \in Good BY <1>1, <1>10
<1>12. ASSUME NEW i \in Nat, i \in Good PROVE i + 1 \in Good
  <2> SUFFICES ASSUME i + 1 <= n PROVE g[(i + 1) + 1] \in S OBVIOUS
  <2>1. /\ (i + 1) + 1 \in 2..Len(s) /\ ((i + 1) + 1) - 1 = i + 1 /\ i <= n
        /\ (i + 1) + 1 \in 1..(n + 1)
    BY <1>1
  <2>2. g[i + 1] \in S /\ s[(i + 1) + 1] \in S BY <1>1, <1>12, <2>1
  <2>3. g[(i + 1) + 1] = g[i + 1] \o s[(i + 1) + 1] BY <1>10, <2>1
  <2> QED BY <1>2, <2>2, <2>3
<1>13. Nat \subseteq Good
  <2> HIDE DEF Good
  <2> QED BY <1>11, <1>12, NatSetInduction
<1>14. ASSUME NEW i \in 1..Len(s) PROVE g[i] \in S
  <2>1. i - 1 \in Nat /\ i - 1 <= n /\ (i - 1) + 1 = i BY <1>1
  <2>2. g[(i - 1) + 1] \in S BY <1>13, <2>1
  <2> QED BY <2>1, <2>2
<1> QED BY <1>10, <1>14 DEF g, S

\* One more answer is put behind those before.
LEMMA FlattenAppend ==
  ASSUME NEW V, NEW s \in Seq(Seq(V)), NEW c \in Seq(V)
  PROVE  /\ FlattenSeq(Append(s, c)) = FlattenSeq(s) \o c
         /\ FlattenSeq(s) \in Seq(V)
<1> DEFINE t == Append(s, c)
<1>1. /\ t \in Seq(Seq(V)) /\ t # <<>> /\ Len(t) = Len(s) + 1 /\ Len(s) \in Nat
      /\ \A i \in 1..Len(s) : t[i] = s[i]
      /\ t[Len(s) + 1] = c
  BY AppendProperties
<1> HIDE DEF t
<1> DEFINE f == Flattened(s)
           g == Flattened(t)
<1>2. FlattenSeq(t) = g[Len(t)]
  <2>1. Len(t) # 0 BY <1>1
  <2> QED BY <2>1 DEF FlattenSeq, Flattened
<1>3. /\ g[1] = t[1] /\ \A i \in 2..Len(t) : g[i] = g[i-1] \o t[i]
  BY <1>1, FlattenedDef
<1>4. CASE s = <<>>
  <2>1. FlattenSeq(s) = <<>> BY <1>4 DEF FlattenSeq
  <2>2. Len(s) = 0 BY <1>4
  <2>3. FlattenSeq(t) = c BY <1>1, <1>2, <1>3, <2>2
  <2> QED BY <2>1, <2>3 DEF t
<1>5. CASE s # <<>>
  <2>1. FlattenSeq(s) = f[Len(s)]
    <3>1. Len(s) # 0 BY <1>5
    <3> QED BY <3>1 DEF FlattenSeq, Flattened
  <2>2. /\ f[1] = s[1] /\ \A i \in 2..Len(s) : f[i] = f[i-1] \o s[i]
        /\ \A i \in 1..Len(s) : f[i] \in Seq(V)
    BY <1>5, FlattenedDef
  <2>3. Len(s) \in 1..Len(s) BY <1>1, <1>5
  <2> HIDE DEF f, g
  <2> DEFINE Good == {i \in Nat : i + 1 <= Len(s) => g[i + 1] = f[i + 1]}
  <2>4. 0 \in Good BY <1>1, <1>3, <2>2
  <2>5. ASSUME NEW i \in Nat, i \in Good PROVE i + 1 \in Good
    <3> SUFFICES ASSUME (i + 1) + 1 <= Len(s) PROVE g[(i + 1) + 1] = f[(i + 1) + 1]
      OBVIOUS
    <3>1. /\ (i + 1) + 1 \in 2..Len(s) /\ (i + 1) + 1 \in 2..Len(t)
          /\ (i + 1) + 1 \in 1..Len(s)
          /\ ((i + 1) + 1) - 1 = i + 1 /\ i + 1 <= Len(s)
      BY <1>1
    <3>2. g[i + 1] = f[i + 1] BY <2>5, <3>1
    <3>3. /\ g[(i + 1) + 1] = g[i + 1] \o t[(i + 1) + 1]
          /\ f[(i + 1) + 1] = f[i + 1] \o s[(i + 1) + 1]
      BY <1>3, <2>2, <3>1
    <3> QED BY <1>1, <3>1, <3>2, <3>3
  <2>6. Nat \subseteq Good
    <3> HIDE DEF Good
    <3> QED BY <2>4, <2>5, NatSetInduction
  <2>7. g[Len(s)] = f[Len(s)]
    <3>1. Len(s) - 1 \in Nat /\ (Len(s) - 1) + 1 = Len(s) /\ Len(s) <= Len(s)
      BY <1>1, <2>3
    <3>2. g[(Len(s) - 1) + 1] = f[(Len(s) - 1) + 1] BY <2>6, <3>1
    <3> QED BY <3>1, <3>2
  <2>8. g[Len(t)] = g[Len(s)] \o c
    <3>1. Len(t) \in 2..Len(t) /\ Len(t) - 1 = Len(s) /\ t[Len(t)] = c BY <1>1, <2>3
    <3> QED BY <1>3, <3>1
  <2>9. FlattenSeq(t) = FlattenSeq(s) \o c
    <3>1. FlattenSeq(t) = g[Len(t)] BY <1>2
    <3> QED BY <2>1, <2>7, <2>8, <3>1
  <2> QED BY <2>1, <2>2, <2>3, <2>9 DEF t
<1> QED BY <1>4, <1>5

-----------------------------------------------------------------------------
(* The elements at the places S of a sequence, in order.                   *)

Upto(S, j) == {k \in S : k <= j}

\* The i-th of the places S.
IthOf(S, i) == CHOOSE j \in S : Cardinality(Upto(S, j)) = i

LEMMA UptoGrows ==
  ASSUME NEW n \in Nat, NEW S \in SUBSET (1..n), NEW i \in S, NEW j \in S, i < j
  PROVE  Cardinality(Upto(S, i)) < Cardinality(Upto(S, j))
<1>1. IsFiniteSet(1..n) BY FS_Interval
<1>2. IsFiniteSet(Upto(S, j)) /\ IsFiniteSet(Upto(S, i))
  <2>1. Upto(S, i) \subseteq 1..n /\ Upto(S, j) \subseteq 1..n BY DEF Upto
  <2> QED BY <1>1, <2>1, FS_Subset
<1>3. /\ i \in Int /\ j \in Int /\ j \notin Upto(S, i)
      /\ Upto(S, i) \cup {j} \subseteq Upto(S, j)
  <2>1. i \in Int /\ j \in Int /\ \A k \in S : k \in Int OBVIOUS
  <2>2. j \notin Upto(S, i) BY <2>1 DEF Upto
  <2>3. \A k \in Upto(S, i) : k \in S /\ k <= j BY <2>1 DEF Upto
  <2>4. j <= j /\ j \in Upto(S, j) BY <2>1 DEF Upto
  <2>5. \A k \in Upto(S, i) : k \in Upto(S, j) BY <2>3 DEF Upto
  <2> QED BY <2>1, <2>2, <2>4, <2>5
<1>4. /\ IsFiniteSet(Upto(S, i) \cup {j})
      /\ Cardinality(Upto(S, i) \cup {j}) = Cardinality(Upto(S, i)) + 1
  BY <1>2, <1>3, FS_AddElement
<1>5. Cardinality(Upto(S, i) \cup {j}) <= Cardinality(Upto(S, j))
  BY <1>2, <1>3, FS_Subset
<1>6. Cardinality(Upto(S, i)) \in Nat /\ Cardinality(Upto(S, j)) \in Nat
  BY <1>2, FS_CardinalityType
<1> QED BY <1>4, <1>5, <1>6

\* n + 1 behind the places S.
LEMMA UptoAdded ==
  ASSUME NEW n \in Nat, NEW S \in SUBSET (1..n)
  PROVE  /\ IsFiniteSet(S) /\ Cardinality(S) \in Nat /\ n + 1 \notin S
         /\ Cardinality(S \cup {n + 1}) = Cardinality(S) + 1
         /\ Upto(S \cup {n + 1}, n + 1) = S \cup {n + 1}
         /\ \A j \in S : Upto(S \cup {n + 1}, j) = Upto(S, j)
<1>1. IsFiniteSet(1..n) BY FS_Interval
<1>2. IsFiniteSet(S) BY <1>1, FS_Subset
<1>3. Cardinality(S) \in Nat BY <1>2, FS_CardinalityType
<1>4. n + 1 \notin S OBVIOUS
<1>5. Cardinality(S \cup {n + 1}) = Cardinality(S) + 1 BY <1>2, <1>4, FS_AddElement
<1>6. Upto(S \cup {n + 1}, n + 1) = S \cup {n + 1}
  <2>1. \A k \in S \cup {n + 1} : k <= n + 1 OBVIOUS
  <2> QED BY <2>1 DEF Upto
<1>7. \A j \in S : Upto(S \cup {n + 1}, j) = Upto(S, j) BY DEF Upto
<1> QED BY <1>2, <1>3, <1>4, <1>5, <1>6, <1>7

LEMMA IthExists ==
  ASSUME NEW n \in Nat, NEW S \in SUBSET (1..n), NEW i \in 1..Cardinality(S)
  PROVE  \E j \in S : Cardinality(Upto(S, j)) = i
<1> DEFINE Has(T) == \A k \in 1..Cardinality(T) : \E j \in T : Cardinality(Upto(T, j)) = k
           Good == {m \in Nat : \A T \in SUBSET (1..m) : Has(T)}
<1>1. 0 \in Good
  <2>1. \A T \in SUBSET (1..0) : T = {} OBVIOUS
  <2>2. Has({}) BY FS_EmptySet
  <2> HIDE DEF Has
  <2> QED BY <2>1, <2>2
<1>2. ASSUME NEW m \in Nat, m \in Good PROVE m + 1 \in Good
  <2>1. ASSUME NEW T \in SUBSET (1..(m+1)) PROVE Has(T)
    <3> DEFINE P == T \ {m + 1}
    <3>1. P \in SUBSET (1..m) OBVIOUS
    <3>2. Has(P)
      <4> HIDE DEF P, Has
      <4> QED BY <1>2, <3>1
    <3>3. CASE m + 1 \notin T
      <4>1. T = P BY <3>3
      <4> HIDE DEF P, Has
      <4> QED BY <3>2, <4>1
    <3>4. CASE m + 1 \in T
      <4>1. T = P \cup {m + 1} BY <3>4
      <4> HIDE DEF P
      <4>2. /\ Cardinality(P) \in Nat /\ Cardinality(T) = Cardinality(P) + 1
            /\ Upto(T, m + 1) = T
            /\ \A j \in P : Upto(T, j) = Upto(P, j)
        BY <3>1, <4>1, UptoAdded
      <4>3. ASSUME NEW k \in 1..Cardinality(T)
            PROVE  \E j \in T : Cardinality(Upto(T, j)) = k
        <5>1. CASE k \in 1..Cardinality(P)
          <6>1. PICK j \in P : Cardinality(Upto(P, j)) = k BY <3>2, <5>1
          <6>2. j \in T /\ Upto(T, j) = Upto(P, j) BY <4>1, <4>2
          <6> QED BY <6>1, <6>2
        <5>2. CASE k = Cardinality(T) BY <3>4, <4>2, <5>2
        <5> QED BY <4>2, <5>1, <5>2
      <4> QED BY <4>3
    <3> QED BY <3>3, <3>4
  <2> HIDE DEF Has
  <2> QED BY <2>1
<1>3. Nat \subseteq Good
  <2> HIDE DEF Good
  <2> QED BY <1>1, <1>2, NatSetInduction
<1> HIDE DEF Has
<1>4. Has(S) BY <1>3
<1> QED BY <1>4 DEF Has

LEMMA IthIs ==
  ASSUME NEW n \in Nat, NEW S \in SUBSET (1..n), NEW j \in S,
         NEW i, Cardinality(Upto(S, j)) = i
  PROVE  IthOf(S, i) = j
<1> DEFINE P(x) == Cardinality(Upto(S, x)) = i
           c == CHOOSE x \in S : P(x)
<1>1. c \in S /\ P(c)
  <2>1. \E x \in S : P(x) OBVIOUS
  <2> HIDE DEF P
  <2> QED BY <2>1
<1> HIDE DEF c
<1>2. c \in Int /\ j \in Int BY <1>1
<1>3. ~(c < j)
  <2> SUFFICES ASSUME c < j PROVE FALSE OBVIOUS
  <2>1. Cardinality(Upto(S, c)) < Cardinality(Upto(S, j)) BY <1>1, UptoGrows
  <2>2. Cardinality(Upto(S, j)) \in Nat
    <3>1. IsFiniteSet(1..n) BY FS_Interval
    <3>2. Upto(S, j) \subseteq 1..n BY DEF Upto
    <3>3. IsFiniteSet(Upto(S, j)) BY <3>1, <3>2, FS_Subset
    <3> QED BY <3>3, FS_CardinalityType
  <2> QED BY <1>1, <2>1, <2>2
<1>4. ~(j < c)
  <2> SUFFICES ASSUME j < c PROVE FALSE OBVIOUS
  <2>1. Cardinality(Upto(S, j)) < Cardinality(Upto(S, c)) BY <1>1, UptoGrows
  <2>2. Cardinality(Upto(S, j)) \in Nat
    <3>1. IsFiniteSet(1..n) BY FS_Interval
    <3>2. Upto(S, j) \subseteq 1..n BY DEF Upto
    <3>3. IsFiniteSet(Upto(S, j)) BY <3>1, <3>2, FS_Subset
    <3> QED BY <3>3, FS_CardinalityType
  <2> QED BY <1>1, <2>1, <2>2
<1>5. c = j BY <1>2, <1>3, <1>4
<1> QED BY <1>5 DEF IthOf, c

LEMMA InOrderIs ==
  ASSUME NEW S, NEW s
  PROVE  InOrderOf(S, s) = [i \in 1..Cardinality(S) |-> s[IthOf(S, i)]]
BY DEF InOrderOf, IthOf, Upto

\* Accepted elements are elements.
LEMMA InOrderType ==
  ASSUME NEW n \in Nat, NEW S \in SUBSET (1..n), NEW V, NEW s, \A i \in 1..n : s[i] \in V
  PROVE  InOrderOf(S, s) \in Seq(V)
<1> DEFINE m == Cardinality(S)
<1>1. m \in Nat
  <2>1. IsFiniteSet(1..n) /\ S \subseteq 1..n BY FS_Interval
  <2>2. IsFiniteSet(S) BY <2>1, FS_Subset
  <2> QED BY <2>2, FS_CardinalityType
<1>2. ASSUME NEW i \in 1..m PROVE s[IthOf(S, i)] \in V
  <2>1. PICK j \in S : Cardinality(Upto(S, j)) = i BY IthExists
  <2>2. IthOf(S, i) = j BY <2>1, IthIs
  <2> QED BY <2>2
<1>3. InOrderOf(S, s) = [i \in 1..m |-> s[IthOf(S, i)]] BY InOrderIs
<1> HIDE DEF m
<1> QED BY <1>1, <1>2, <1>3

\* One more accepted element goes behind those before.
LEMMA InOrderAppend ==
  ASSUME NEW n \in Nat, NEW S \in SUBSET (1..n), NEW V, NEW s, \A i \in 1..(n + 1) : s[i] \in V
  PROVE  /\ InOrderOf(S, s) \in Seq(V)
         /\ InOrderOf(S \cup {n + 1}, s) = Append(InOrderOf(S, s), s[n + 1])
<1> DEFINE T == S \cup {n + 1}
           a == InOrderOf(S, s)
           b == InOrderOf(T, s)
           m == Cardinality(S)
<1>1. /\ m \in Nat /\ Cardinality(T) = m + 1 /\ Upto(T, n + 1) = T
      /\ \A j \in S : Upto(T, j) = Upto(S, j)
      /\ T \in SUBSET (1..(n + 1)) /\ n + 1 \in Nat
      /\ \A j \in S : j \in 1..(n + 1)
  <2>1. /\ Cardinality(S) \in Nat
        /\ Cardinality(S \cup {n + 1}) = Cardinality(S) + 1
        /\ Upto(S \cup {n + 1}, n + 1) = S \cup {n + 1}
        /\ \A j \in S : Upto(S \cup {n + 1}, j) = Upto(S, j)
    BY UptoAdded
  <2>2. \A j \in S : j \in 1..(n + 1) OBVIOUS
  <2> QED BY <2>1, <2>2
<1>2. a = [i \in 1..m |-> s[IthOf(S, i)]] /\ b = [i \in 1..(m + 1) |-> s[IthOf(T, i)]]
  BY <1>1, InOrderIs
<1>3. ASSUME NEW i \in 1..m PROVE IthOf(S, i) \in S /\ IthOf(T, i) = IthOf(S, i)
  <2>1. PICK j \in S : Cardinality(Upto(S, j)) = i BY IthExists
  <2>2. IthOf(S, i) = j BY <2>1, IthIs
  <2>3. j \in T /\ Cardinality(Upto(T, j)) = i BY <1>1, <2>1
  <2> HIDE DEF T
  <2>4. IthOf(T, i) = j BY <1>1, <2>3, IthIs
  <2> QED BY <2>2, <2>4
<1>4. IthOf(T, m + 1) = n + 1
  <2>1. n + 1 \in T /\ Cardinality(Upto(T, n + 1)) = m + 1 BY <1>1
  <2> HIDE DEF T
  <2> QED BY ZenonT(60), <1>1, <2>1, IthIs
<1> HIDE DEF a, b, m, T
<1>5. a \in Seq(V) /\ Len(a) = m /\ \A i \in 1..m : a[i] = s[IthOf(S, i)]
  <2>1. \A i \in 1..m : s[IthOf(S, i)] \in V BY <1>1, <1>3
  <2> QED BY <1>1, <1>2, <2>1
<1>6. b \in Seq(V) /\ Len(b) = m + 1 /\ \A i \in 1..(m + 1) : b[i] = s[IthOf(T, i)]
  <2>1. ASSUME NEW i \in 1..(m + 1) PROVE s[IthOf(T, i)] \in V
    <3>1. CASE i \in 1..m BY <1>1, <1>3, <3>1
    <3>2. CASE i = m + 1 BY <1>1, <1>4, <3>2
    <3> QED BY <1>1, <3>1, <3>2
  <2> QED BY <1>1, <1>2, <2>1
<1>7. s[n + 1] \in V OBVIOUS
<1> DEFINE c == Append(a, s[n + 1])
<1>8. /\ c \in Seq(V) /\ Len(c) = m + 1 /\ \A i \in 1..m : c[i] = a[i]
      /\ c[m + 1] = s[n + 1]
  BY <1>5, <1>7, AppendProperties
<1> HIDE DEF c
<1>9. ASSUME NEW i \in 1..Len(b) PROVE b[i] = c[i]
  <2>1. CASE i \in 1..m BY <1>3, <1>5, <1>6, <1>8, <2>1
  <2>2. CASE i = m + 1 BY <1>4, <1>6, <1>8, <2>2
  <2> QED BY <1>1, <1>6, <2>1, <2>2
<1>10. b = c BY <1>6, <1>8, <1>9, SeqEqual
<1> QED BY <1>5, <1>10 DEF a, b, c, T

-----------------------------------------------------------------------------
(* The natives with a callback.                                            *)

Callbacks == {"map", "filter", "flatMap", "any", "all", "count", "find", "findIndex", "reduce"}

Answer == Elements \cup Seq(Value)
Built == Value \cup {"none", "true", "false"} \cup Int \cup Seq(Value)

Frame == [native : Callbacks, array : Nat, elements : Seq(Value),
          initial : Elements \cup {"none"}, asked : Seq(Value), answers : Seq(Answer),
          built : Built, decided : BOOLEAN, calling : BOOLEAN]

\* A native asks no further exactly when an answer has decided its result.
DecidedExact(f) ==
    /\ f.native \in {"any", "find", "findIndex"} =>
          Accepted(f) \subseteq {Len(f.answers)} /\ (f.decided <=> Accepted(f) # {})
    /\ f.native = "all" =>
          /\ 1..(Len(f.answers) - 1) \subseteq Accepted(f)
          /\ f.decided <=> Accepted(f) # 1..Len(f.answers)
    /\ f.native \notin {"any", "find", "findIndex", "all"} => ~f.decided

\* The answers are of the kind the native takes.
AnswersFit(f) ==
    /\ f.native = "flatMap" => f.answers \in Seq(Seq(Value))
    /\ f.native # "flatMap" => f.answers \in Seq(Elements)
    /\ f.native \in Predicates => \A i \in DOMAIN f.answers : f.answers[i] \in {"true", "false"}

\* The inductive invariant of one activation.
FrameOK(f) ==
    /\ f \in Frame
    /\ AnswersFit(f)
    /\ Len(f.asked) <= Len(f.elements)
    /\ \A i \in 1..Len(f.asked) : f.asked[i] = f.elements[i]
    /\ Len(f.asked) = Len(f.answers) + (IF f.calling THEN 1 ELSE 0)
    /\ f.built = Defined(f)
    /\ f.calling => ~f.decided
    /\ DecidedExact(f)

\* value is an answer the native takes.
AnswerFits(f, value) ==
    /\ f.native = "flatMap" => value \in Seq(Value)
    /\ f.native # "flatMap" => value \in Elements
    /\ f.native \in Predicates => value \in {"true", "false"}

\* h is f with one more answer.
OneMore(f, h, value) ==
    /\ h.native = f.native /\ h.array = f.array /\ h.elements = f.elements
    /\ h.initial = f.initial /\ h.asked = f.asked
    /\ h.answers = Append(f.answers, value)
    /\ h.calling = FALSE

LEMMA AppendedAnswers ==
  ASSUME NEW f, FrameOK(f), NEW value, AnswerFits(f, value),
         NEW h, OneMore(f, h, value)
  PROVE  /\ AnswersFit(h) /\ h.answers \in Seq(Answer)
         /\ Len(f.answers) \in Nat /\ Len(h.answers) = Len(f.answers) + 1
         /\ \A i \in 1..Len(f.answers) : h.answers[i] = f.answers[i]
         /\ h.answers[Len(f.answers) + 1] = value
         /\ Accepted(f) \subseteq 1..Len(f.answers)
         /\ Accepted(h) = Accepted(f)
              \cup (IF value = "true" THEN {Len(f.answers) + 1} ELSE {})
<1>1. f \in Frame /\ f.answers \in Seq(Answer) /\ AnswersFit(f) BY DEF FrameOK, Frame
<1>2. value \in Answer BY DEF AnswerFits, Answer
<1> DEFINE a == f.answers
           b == Append(a, value)
<1>3. h.answers = b /\ h.native = f.native BY DEF OneMore
<1>4. /\ b \in Seq(Answer) /\ Len(b) = Len(a) + 1 /\ Len(a) \in Nat
      /\ \A i \in 1..Len(a) : b[i] = a[i]
      /\ b[Len(a) + 1] = value
      /\ DOMAIN a = 1..Len(a) /\ DOMAIN b = 1..Len(b)
  BY <1>1, <1>2, AppendProperties
<1>5. f.native = "flatMap" => b \in Seq(Seq(Value))
  <2> SUFFICES ASSUME f.native = "flatMap" PROVE b \in Seq(Seq(Value)) OBVIOUS
  <2>1. a \in Seq(Seq(Value)) /\ value \in Seq(Value) BY <1>1 DEF AnswersFit, AnswerFits
  <2> QED BY <2>1, AppendProperties
<1>6. f.native # "flatMap" => b \in Seq(Elements)
  <2> SUFFICES ASSUME f.native # "flatMap" PROVE b \in Seq(Elements) OBVIOUS
  <2>1. a \in Seq(Elements) /\ value \in Elements BY <1>1 DEF AnswersFit, AnswerFits
  <2> QED BY <2>1, AppendProperties
<1>7. f.native \in Predicates => \A i \in DOMAIN b : b[i] \in {"true", "false"}
  <2> SUFFICES ASSUME f.native \in Predicates, NEW i \in DOMAIN b
               PROVE  b[i] \in {"true", "false"}
    OBVIOUS
  <2>1. \A j \in DOMAIN a : a[j] \in {"true", "false"} BY <1>1 DEF AnswersFit
  <2>2. value \in {"true", "false"} BY DEF AnswerFits
  <2> HIDE DEF a, b
  <2>3. CASE i \in DOMAIN a BY <1>4, <2>1, <2>3
  <2>4. CASE i \notin DOMAIN a
    <3>1. i = Len(a) + 1 BY <1>4, <2>4
    <3> QED BY <1>4, <2>2, <3>1
  <2> QED BY <2>3, <2>4
<1> HIDE DEF a, b
<1>8. AnswersFit(h) BY <1>3, <1>5, <1>6, <1>7 DEF AnswersFit
<1>9. Accepted(f) = {i \in DOMAIN a : a[i] = "true"}
      /\ Accepted(h) = {i \in DOMAIN b : b[i] = "true"}
  BY <1>3 DEF Accepted, a
<1>10. Accepted(f) \subseteq 1..Len(a) BY <1>4, <1>9
<1>11. Accepted(h) = Accepted(f) \cup (IF value = "true" THEN {Len(a) + 1} ELSE {})
  <2>1. DOMAIN b = DOMAIN a \cup {Len(a) + 1} BY <1>4
  <2>2. \A i \in DOMAIN a : b[i] = a[i] BY <1>4
  <2>3. b[Len(a) + 1] = value BY <1>4
  <2> QED BY <1>9, <2>1, <2>2, <2>3
<1> QED BY <1>3, <1>4, <1>8, <1>10, <1>11 DEF a

\* Which elements have been asked for when the callback runs.
LEMMA CallingAsked ==
  ASSUME NEW f, FrameOK(f), f.calling
  PROVE  /\ Len(f.answers) \in Nat /\ Len(f.asked) = Len(f.answers) + 1
         /\ Len(f.asked) <= Len(f.elements) /\ f.elements \in Seq(Value)
         /\ f.asked[Len(f.asked)] = f.elements[Len(f.answers) + 1]
         /\ Last(f.asked) = f.elements[Len(f.answers) + 1]
         /\ \A i \in 1..(Len(f.answers) + 1) : f.elements[i] \in Value
         /\ ~f.decided
<1>1. /\ f.answers \in Seq(Answer) /\ f.asked \in Seq(Value) /\ f.elements \in Seq(Value)
      /\ Len(f.asked) <= Len(f.elements)
      /\ \A i \in 1..Len(f.asked) : f.asked[i] = f.elements[i]
      /\ Len(f.asked) = Len(f.answers) + 1 /\ ~f.decided
  BY DEF FrameOK, Frame
<1>2. Len(f.answers) \in Nat /\ Len(f.elements) \in Nat BY <1>1
<1>3. Len(f.asked) \in 1..Len(f.asked) BY <1>1, <1>2
<1>4. f.asked[Len(f.asked)] = f.elements[Len(f.answers) + 1] BY <1>1, <1>3
<1>5. \A i \in 1..(Len(f.answers) + 1) : f.elements[i] \in Value BY <1>1, <1>2
<1> QED BY <1>1, <1>2, <1>4, <1>5 DEF Last

\* h is f with one more answer, the result b and the decision d.
Result(f, h, value, b, d) ==
    h \in Frame /\ OneMore(f, h, value) /\ h.built = b /\ h.decided = d

LEMMA ResultKeeps ==
  ASSUME NEW f, FrameOK(f), f.calling, NEW value, AnswerFits(f, value),
         NEW h, NEW b, NEW d, Result(f, h, value, b, d), b = Defined(h), DecidedExact(h)
  PROVE  FrameOK(h) /\ ~h.calling
<1>1. h \in Frame /\ OneMore(f, h, value) /\ h.built = b BY DEF Result
<1>2. AnswersFit(h) /\ Len(f.answers) \in Nat /\ Len(h.answers) = Len(f.answers) + 1
  BY <1>1, AppendedAnswers
<1>3. h.asked = f.asked /\ h.elements = f.elements /\ h.calling = FALSE
  BY <1>1 DEF OneMore
<1>4. /\ Len(f.asked) <= Len(f.elements) /\ Len(f.asked) = Len(f.answers) + 1
      /\ \A i \in 1..Len(f.asked) : f.asked[i] = f.elements[i]
  BY CallingAsked DEF FrameOK
<1>5. Len(h.asked) = Len(h.answers) + (IF h.calling THEN 1 ELSE 0)
  <2>1. (IF h.calling THEN 1 ELSE 0) = 0 BY <1>3
  <2>2. Len(h.asked) = Len(h.answers) + 0 BY <1>2, <1>3, <1>4
  <2> QED BY <2>1, <2>2
<1> QED BY <1>1, <1>2, <1>3, <1>4, <1>5 DEF FrameOK

LEMMA AnswerResults ==
  ASSUME NEW f, FrameOK(f), f.calling, NEW value, AnswerFits(f, value)
  PROVE  LET g == [f EXCEPT !.answers = Append(@, value), !.calling = FALSE]
         IN  /\ Result(f, g, value, f.built, FALSE)
             /\ \A b \in Built : Result(f, [g EXCEPT !.built = b], value, b, FALSE)
             /\ \A b \in Built :
                  Result(f, [g EXCEPT !.built = b, !.decided = TRUE], value, b, TRUE)
<1> DEFINE g == [f EXCEPT !.answers = Append(@, value), !.calling = FALSE]
<1>1. f \in Frame /\ f.decided = FALSE /\ f.decided \in BOOLEAN
  BY CallingAsked DEF FrameOK, Frame
<1>2. Append(f.answers, value) \in Seq(Answer)
  <2>1. value \in Answer BY DEF AnswerFits, Answer
  <2>2. f.answers \in Seq(Answer) BY <1>1 DEF Frame
  <2> QED BY <2>1, <2>2, AppendProperties
<1>3. /\ g \in Frame /\ OneMore(f, g, value) /\ g.built = f.built /\ g.decided = FALSE
  BY <1>1, <1>2 DEF Frame, OneMore
<1> HIDE DEF g
<1>4. ASSUME NEW b \in Built
      PROVE  Result(f, [g EXCEPT !.built = b], value, b, FALSE)
  BY <1>3 DEF Frame, OneMore, Result
<1>5. ASSUME NEW b \in Built
      PROVE  Result(f, [g EXCEPT !.built = b, !.decided = TRUE], value, b, TRUE)
  BY <1>3 DEF Frame, OneMore, Result
<1> QED BY <1>3, <1>4, <1>5 DEF Result, g

\* Natives that build an array.
LEMMA CollectedKeeps ==
  ASSUME NEW f, FrameOK(f), f.calling, NEW value, AnswerFits(f, value),
         f.native \in Collectors
  PROVE  FrameOK(Answered(f, value)) /\ ~Answered(f, value).calling
<1> DEFINE g == [f EXCEPT !.answers = Append(@, value), !.calling = FALSE]
           h == Answered(f, value)
           n == Len(f.answers)
<1>1. /\ Result(f, g, value, f.built, FALSE)
      /\ \A b \in Built : Result(f, [g EXCEPT !.built = b], value, b, FALSE)
  BY AnswerResults
<1>2. h = Collected(g, value)
  <2>1. f.native \in {"map", "filter", "flatMap"} BY DEF Collectors
  <2> QED BY <2>1 DEF Answered, Collectors
<1>3. g.native = f.native /\ g.built = f.built /\ g.asked = f.asked
  BY <1>1 DEF Result, OneMore
<1> HIDE DEF g, h
<1>4. f.built = Defined(f) /\ f \in Frame /\ AnswersFit(f) /\ f.answers \in Seq(Answer)
  BY DEF FrameOK, Frame
<1>5. ASSUME NEW b, Result(f, h, value, b, FALSE)
      PROVE  DecidedExact(h) /\ OneMore(f, h, value) /\ h.native = f.native
  BY <1>5 DEF Result, OneMore, DecidedExact, Collectors
<1>6. CASE f.native = "map"
  <2> DEFINE b == Append(f.built, value)
  <2>1. f.built = f.answers /\ f.answers \in Seq(Elements) /\ value \in Elements
    BY <1>4, <1>6 DEF Defined, AnswersFit, AnswerFits
  <2>2. b \in Seq(Elements) BY <2>1
  <2>3. b \in Built
    <3>1. \A s \in Seq(Elements) : s \in Seq(Value)
      <4>1. Elements \subseteq Value BY DEF Value
      <4> QED BY <4>1, SeqMonotonic
    <3> QED BY <2>2, <3>1 DEF Built
  <2> HIDE DEF b
  <2>4. h = [g EXCEPT !.built = b] BY <1>2, <1>3, <1>6 DEF Collected, b
  <2>5. Result(f, h, value, b, FALSE) BY <1>1, <2>3, <2>4
  <2>6. DecidedExact(h) /\ OneMore(f, h, value) /\ h.native = "map" BY <1>5, <1>6, <2>5
  <2>7. b = Defined(h) BY <2>1, <2>6 DEF Defined, OneMore, b
  <2> QED BY <2>5, <2>6, <2>7, ResultKeeps DEF h
<1>7. CASE f.native = "filter"
  <2>1. /\ n \in Nat /\ Last(f.asked) = f.elements[n + 1]
        /\ \A i \in 1..(n + 1) : f.elements[i] \in Value
    BY CallingAsked
  <2>2. f.built = InOrderOf(Accepted(f), f.elements) BY <1>4, <1>7 DEF Defined
  <2>3. Accepted(f) \in SUBSET (1..n)
    <3>1. OneMore(f, g, value) BY <1>1 DEF Result
    <3> QED BY <3>1, AppendedAnswers
  <2>4. /\ InOrderOf(Accepted(f), f.elements) \in Seq(Value)
        /\ InOrderOf(Accepted(f) \cup {n + 1}, f.elements)
             = Append(InOrderOf(Accepted(f), f.elements), f.elements[n + 1])
    BY <2>1, <2>3, InOrderAppend
  <2>5. ASSUME NEW b, Result(f, h, value, b, FALSE)
        PROVE  /\ Defined(h) = InOrderOf(Accepted(h), f.elements)
               /\ Accepted(h) = Accepted(f) \cup (IF value = "true" THEN {n + 1} ELSE {})
    <3>1. h.native = "filter" /\ OneMore(f, h, value) BY <1>5, <1>7, <2>5
    <3>2. Accepted(h) = Accepted(f) \cup (IF value = "true" THEN {n + 1} ELSE {})
      BY <3>1, AppendedAnswers
    <3>3. h.elements = f.elements BY <3>1 DEF OneMore
    <3> QED BY <3>1, <3>2, <3>3 DEF Defined
  <2>6. CASE value = "true"
    <3> DEFINE b == Append(f.built, Last(f.asked))
    <3>1. b \in Seq(Value)
      <4>1. f.elements[n + 1] \in Value BY <2>1
      <4> QED BY <2>1, <2>2, <2>4, <4>1, AppendProperties
    <3>2. b \in Built BY <3>1 DEF Built
    <3> HIDE DEF b
    <3>3. h = [g EXCEPT !.built = b] BY <1>2, <1>3, <1>7, <2>6 DEF Collected, b
    <3>4. Result(f, h, value, b, FALSE) BY <1>1, <3>2, <3>3
    <3>5. Defined(h) = InOrderOf(Accepted(f) \cup {n + 1}, f.elements)
      BY <2>5, <2>6, <3>4
    <3>6. b = Defined(h) BY <2>1, <2>2, <2>4, <3>5 DEF b
    <3> QED BY <1>5, <3>4, <3>6, ResultKeeps DEF h
  <2>7. CASE value # "true"
    <3>1. h = g BY <1>2, <1>3, <1>7, <2>7 DEF Collected
    <3>2. Result(f, h, value, f.built, FALSE) BY <1>1, <3>1
    <3>3. Accepted(h) = Accepted(f) /\ Defined(h) = InOrderOf(Accepted(h), f.elements)
      BY <2>5, <2>7, <3>2
    <3>4. f.built = Defined(h) BY <2>2, <3>3
    <3> QED BY <1>5, <3>2, <3>4, ResultKeeps DEF h
  <2> QED BY <2>6, <2>7
<1>8. CASE f.native = "flatMap"
  <2> DEFINE b == f.built \o value
  <2>1. f.built = FlattenSeq(f.answers) /\ f.answers \in Seq(Seq(Value)) /\ value \in Seq(Value)
    BY <1>4, <1>8 DEF Defined, AnswersFit, AnswerFits
  <2>2. /\ FlattenSeq(Append(f.answers, value)) = FlattenSeq(f.answers) \o value
        /\ FlattenSeq(f.answers) \in Seq(Value)
    BY <2>1, FlattenAppend
  <2>3. b \in Seq(Value) BY <2>1, <2>2, ConcatProperties
  <2>4. b \in Built BY <2>3 DEF Built
  <2> HIDE DEF b
  <2>5. h = [g EXCEPT !.built = b] BY <1>2, <1>3, <1>8 DEF Collected, b
  <2>6. Result(f, h, value, b, FALSE) BY <1>1, <2>4, <2>5
  <2>7. DecidedExact(h) /\ OneMore(f, h, value) /\ h.native = "flatMap" BY <1>5, <1>8, <2>6
  <2>8. b = Defined(h) BY <2>1, <2>2, <2>7 DEF Defined, OneMore, b
  <2> QED BY <2>6, <2>7, <2>8, ResultKeeps DEF h
<1> QED BY <1>6, <1>7, <1>8 DEF Collectors

\* Natives that count or look for the elements a predicate accepts.
LEMMA JudgedKeeps ==
  ASSUME NEW f, FrameOK(f), f.calling, NEW value, AnswerFits(f, value),
         f.native \in {"any", "all", "count", "find", "findIndex"}
  PROVE  FrameOK(Answered(f, value)) /\ ~Answered(f, value).calling
<1> DEFINE g == [f EXCEPT !.answers = Append(@, value), !.calling = FALSE]
           h == Answered(f, value)
           n == Len(f.answers)
           new == IF value = "true" THEN {n + 1} ELSE {}
<1>1. /\ Result(f, g, value, f.built, FALSE)
      /\ \A b \in Built : Result(f, [g EXCEPT !.built = b], value, b, FALSE)
      /\ \A b \in Built :
           Result(f, [g EXCEPT !.built = b, !.decided = TRUE], value, b, TRUE)
  BY AnswerResults
<1>2. h = Judged(g, value) BY DEF Answered, Collectors
<1>3. g.native = f.native /\ g.built = f.built /\ g.asked = f.asked /\ g \in Frame
  BY <1>1 DEF Result, OneMore
<1> HIDE DEF g, h
<1>4. /\ f.built = Defined(f) /\ f \in Frame /\ DecidedExact(f) /\ ~f.decided
      /\ f.built \in Built /\ f.asked \in Seq(Value)
  BY DEF FrameOK, Frame
<1>5. value \in {"true", "false"} BY DEF AnswerFits, Predicates
<1>6. /\ n \in Nat /\ Len(f.asked) = n + 1 /\ Last(f.asked) = f.elements[n + 1]
      /\ f.elements[n + 1] \in Value
  <2>1. n + 1 \in 1..(n + 1) BY CallingAsked
  <2> QED BY <2>1, CallingAsked
<1>7. ASSUME NEW b, NEW d, Result(f, h, value, b, d)
      PROVE  /\ h.native = f.native /\ h.elements = f.elements /\ h.decided = d
             /\ Accepted(f) \subseteq 1..n /\ Accepted(h) = Accepted(f) \cup new
             /\ Len(h.answers) = n + 1
  <2>1. OneMore(f, h, value) /\ h.decided = d BY <1>7 DEF Result
  <2>2. h.native = f.native /\ h.elements = f.elements BY <2>1 DEF OneMore
  <2>3. /\ Accepted(f) \subseteq 1..n /\ Accepted(h) = Accepted(f) \cup new
        /\ Len(h.answers) = n + 1
    <3> HIDE DEF new
    <3>1. /\ Len(h.answers) = Len(f.answers) + 1
          /\ Accepted(f) \subseteq 1..Len(f.answers)
          /\ Accepted(h) = Accepted(f)
               \cup (IF value = "true" THEN {Len(f.answers) + 1} ELSE {})
      BY <2>1, AppendedAnswers
    <3> QED BY <3>1 DEF new
  <2> QED BY <2>1, <2>2, <2>3
<1>8. Accepted(f) \subseteq 1..n
  <2>1. OneMore(f, g, value) BY <1>1 DEF Result
  <2> QED BY <2>1, AppendedAnswers
<1>9. {"true", "false", "none"} \subseteq Built /\ Int \subseteq Built /\ Value \subseteq Built
  BY DEF Built
<1>10. CASE f.native = "any"
  <2>1. Accepted(f) = {} /\ f.built = "none" BY <1>4, <1>10 DEF DecidedExact, Defined
  <2>2. CASE value = "true"
    <3>1. h = [g EXCEPT !.built = "true", !.decided = TRUE]
      BY <1>2, <1>3, <1>10, <2>2 DEF Judged
    <3>2. Result(f, h, value, "true", TRUE) BY <1>1, <1>9, <3>1
    <3>3. /\ h.native = "any" /\ h.decided = TRUE /\ Accepted(h) = {n + 1}
          /\ Len(h.answers) = n + 1
      BY <1>7, <1>10, <2>1, <2>2, <3>2
    <3>4. Defined(h) = "true" /\ DecidedExact(h) BY <3>3 DEF Defined, DecidedExact
    <3> QED BY <3>2, <3>4, ResultKeeps DEF h
  <2>3. CASE value # "true"
    <3>1. h = g BY <1>2, <1>3, <1>10, <2>3 DEF Judged
    <3>2. Result(f, h, value, "none", FALSE) BY <1>1, <2>1, <3>1
    <3>3. h.native = "any" /\ h.decided = FALSE /\ Accepted(h) = {}
      BY <1>7, <1>10, <2>1, <2>3, <3>2
    <3>4. Defined(h) = "none" /\ DecidedExact(h) BY <3>3 DEF Defined, DecidedExact
    <3> QED BY <3>2, <3>4, ResultKeeps DEF h
  <2> QED BY <2>2, <2>3
<1>11. CASE f.native = "all"
  <2>1. Accepted(f) = 1..n /\ f.built = "none" BY <1>4, <1>11 DEF DecidedExact, Defined
  <2>2. CASE value = "true"
    <3>1. h = g BY <1>2, <1>3, <1>11, <2>2 DEF Judged
    <3>2. Result(f, h, value, "none", FALSE) BY <1>1, <2>1, <3>1
    <3>3. /\ h.native = "all" /\ h.decided = FALSE /\ Accepted(h) = 1..n \cup {n + 1}
          /\ Len(h.answers) = n + 1
      BY <1>7, <1>11, <2>1, <2>2, <3>2
    <3>4. Accepted(h) = 1..Len(h.answers) BY <1>6, <3>3
    <3>5. Defined(h) = "none" BY <3>3, <3>4 DEF Defined
    <3>6. DecidedExact(h)
      <4>1. 1..(Len(h.answers) - 1) \subseteq 1..Len(h.answers) BY <1>6, <3>3
      <4> QED BY <3>3, <3>4, <4>1 DEF DecidedExact
    <3> QED BY <3>2, <3>5, <3>6, ResultKeeps DEF h
  <2>3. CASE value # "true"
    <3>1. value = "false" BY <1>5, <2>3
    <3>2. h = [g EXCEPT !.built = "false", !.decided = TRUE]
      BY <1>2, <1>3, <1>11, <2>3, <3>1 DEF Judged
    <3>3. Result(f, h, value, "false", TRUE) BY <1>1, <1>9, <3>2
    <3>4. /\ h.native = "all" /\ h.decided = TRUE /\ Accepted(h) = 1..n
          /\ Len(h.answers) = n + 1
      BY <1>7, <1>11, <2>1, <2>3, <3>3
    <3>5. Accepted(h) # 1..Len(h.answers) /\ 1..(Len(h.answers) - 1) \subseteq Accepted(h)
      <4>1. n + 1 \in 1..(n + 1) /\ n + 1 \notin 1..n /\ (n + 1) - 1 = n BY <1>6
      <4> QED BY <3>4, <4>1
    <3>6. Defined(h) = "false" /\ DecidedExact(h) BY <3>4, <3>5 DEF Defined, DecidedExact
    <3> QED BY <3>3, <3>6, ResultKeeps DEF h
  <2> QED BY <2>2, <2>3
<1>12. CASE f.native = "count"
  <2>1. f.built = Cardinality(Accepted(f)) BY <1>4, <1>12 DEF Defined
  <2>2. IsFiniteSet(Accepted(f)) /\ Cardinality(Accepted(f)) \in Nat
        /\ n + 1 \notin Accepted(f)
    <3>1. IsFiniteSet(1..n) BY <1>6, FS_Interval
    <3>2. IsFiniteSet(Accepted(f)) BY <1>8, <3>1, FS_Subset
    <3>3. n + 1 \notin Accepted(f) BY <1>6, <1>8
    <3> QED BY <3>2, <3>3, FS_CardinalityType
  <2>3. CASE value = "true"
    <3> DEFINE b == f.built + 1
    <3>1. b \in Int BY <2>1, <2>2
    <3> HIDE DEF b
    <3>2. h = [g EXCEPT !.built = b] BY <1>2, <1>3, <1>12, <2>3 DEF Judged, b
    <3>3. Result(f, h, value, b, FALSE) BY <1>1, <1>9, <3>1, <3>2
    <3>4. h.native = "count" /\ h.decided = FALSE /\ Accepted(h) = Accepted(f) \cup {n + 1}
      BY <1>7, <1>12, <2>3, <3>3
    <3>5. Cardinality(Accepted(h)) = Cardinality(Accepted(f)) + 1
      <4>1. Cardinality(Accepted(f) \cup {n + 1}) = Cardinality(Accepted(f)) + 1
        BY <2>2, FS_AddElement
      <4> QED BY <3>4, <4>1
    <3>6. Defined(h) = b /\ DecidedExact(h)
      BY <2>1, <3>4, <3>5 DEF Defined, DecidedExact, b
    <3> QED BY <3>3, <3>6, ResultKeeps DEF h
  <2>4. CASE value # "true"
    <3>1. h = g BY <1>2, <1>3, <1>12, <2>4 DEF Judged
    <3>2. Result(f, h, value, f.built, FALSE) BY <1>1, <3>1
    <3>3. h.native = "count" /\ h.decided = FALSE /\ Accepted(h) = Accepted(f)
      BY <1>7, <1>12, <2>4, <3>2
    <3>4. Defined(h) = f.built /\ DecidedExact(h) BY <2>1, <3>3 DEF Defined, DecidedExact
    <3> QED BY <3>2, <3>4, ResultKeeps DEF h
  <2> QED BY <2>3, <2>4
<1>13. First({n + 1}) = n + 1
  <2> DEFINE c == CHOOSE i \in {n + 1} : \A j \in {n + 1} : i <= j
  <2>1. \E i \in {n + 1} : \A j \in {n + 1} : i <= j BY <1>6
  <2>2. c \in {n + 1} BY <2>1
  <2> QED BY <2>2 DEF First
<1>14. CASE f.native = "find"
  <2>1. Accepted(f) = {} /\ f.built = "none" BY <1>4, <1>14 DEF DecidedExact, Defined
  <2>2. CASE value = "true"
    <3> DEFINE b == f.elements[n + 1]
    <3>1. b \in Built BY <1>6, <1>9
    <3>2. b = Last(g.asked) BY <1>3, <1>6
    <3> HIDE DEF b
    <3>3. h = [g EXCEPT !.built = b, !.decided = TRUE]
      BY <1>2, <1>3, <1>14, <2>2, <3>2 DEF Judged
    <3>4. Result(f, h, value, b, TRUE) BY <1>1, <3>1, <3>3
    <3>5. /\ h.native = "find" /\ h.decided = TRUE /\ Accepted(h) = {n + 1}
          /\ Len(h.answers) = n + 1 /\ h.elements = f.elements
      BY <1>7, <1>14, <2>1, <2>2, <3>4
    <3>6. Defined(h) = b /\ DecidedExact(h)
      BY <1>13, <3>5 DEF Defined, DecidedExact, b
    <3> QED BY <3>4, <3>6, ResultKeeps DEF h
  <2>3. CASE value # "true"
    <3>1. h = g BY <1>2, <1>3, <1>14, <2>3 DEF Judged
    <3>2. Result(f, h, value, "none", FALSE) BY <1>1, <2>1, <3>1
    <3>3. h.native = "find" /\ h.decided = FALSE /\ Accepted(h) = {}
      BY <1>7, <1>14, <2>1, <2>3, <3>2
    <3>4. Defined(h) = "none" /\ DecidedExact(h) BY <3>3 DEF Defined, DecidedExact
    <3> QED BY <3>2, <3>4, ResultKeeps DEF h
  <2> QED BY <2>2, <2>3
<1>15. CASE f.native = "findIndex"
  <2>1. Accepted(f) = {} /\ f.built = -1 BY <1>4, <1>15 DEF DecidedExact, Defined
  <2>2. CASE value = "true"
    <3> DEFINE b == Len(g.asked) - 1
    <3>1. b = n /\ b \in Int /\ (n + 1) - 1 = n BY <1>3, <1>6
    <3> HIDE DEF b
    <3>2. h = [g EXCEPT !.built = b, !.decided = TRUE]
      BY <1>2, <1>3, <1>15, <2>2 DEF Judged, b
    <3>3. Result(f, h, value, b, TRUE) BY <1>1, <1>9, <3>1, <3>2
    <3>4. /\ h.native = "findIndex" /\ h.decided = TRUE /\ Accepted(h) = {n + 1}
          /\ Len(h.answers) = n + 1
      BY <1>7, <1>15, <2>1, <2>2, <3>3
    <3>5. Defined(h) = b /\ DecidedExact(h)
      BY <1>13, <3>1, <3>4 DEF Defined, DecidedExact
    <3> QED BY <3>3, <3>5, ResultKeeps DEF h
  <2>3. CASE value # "true"
    <3>1. h = g BY <1>2, <1>3, <1>15, <2>3 DEF Judged
    <3>2. Result(f, h, value, -1, FALSE) BY <1>1, <2>1, <3>1
    <3>3. h.native = "findIndex" /\ h.decided = FALSE /\ Accepted(h) = {}
      BY <1>7, <1>15, <2>1, <2>3, <3>2
    <3>4. Defined(h) = -1 /\ DecidedExact(h) BY <3>3 DEF Defined, DecidedExact
    <3> QED BY <3>2, <3>4, ResultKeeps DEF h
  <2> QED BY <2>2, <2>3
<1> QED BY <1>10, <1>11, <1>12, <1>14, <1>15

\* Every native computes what its definition says, answer by answer.
LEMMA AnswerKeeps ==
  ASSUME NEW f, FrameOK(f), f.calling, NEW value, AnswerFits(f, value)
  PROVE  FrameOK(Answered(f, value)) /\ ~Answered(f, value).calling
<1>1. CASE f.native \in Collectors BY <1>1, CollectedKeeps
<1>2. CASE f.native \in {"any", "all", "count", "find", "findIndex"} BY <1>2, JudgedKeeps
<1>3. CASE f.native = "reduce"
  <2> DEFINE g == [f EXCEPT !.answers = Append(@, value), !.calling = FALSE]
             h == Answered(f, value)
  <2>1. \A b \in Built : Result(f, [g EXCEPT !.built = b], value, b, FALSE)
    BY AnswerResults
  <2>2. value \in Elements /\ value \in Built BY <1>3 DEF AnswerFits, Built, Value
  <2>3. h = Reduced(g, value) BY <1>3 DEF Answered, Collectors
  <2> HIDE DEF g, h
  <2>4. h = [g EXCEPT !.built = value] BY <2>3 DEF Reduced
  <2>5. Result(f, h, value, value, FALSE) BY <2>1, <2>2, <2>4
  <2>6. OneMore(f, h, value) /\ h.native = "reduce" /\ h.decided = FALSE
    BY <1>3, <2>5 DEF Result, OneMore
  <2>7. /\ Len(f.answers) \in Nat /\ Len(h.answers) = Len(f.answers) + 1
        /\ h.answers[Len(f.answers) + 1] = value
    BY <2>6, AppendedAnswers
  <2>8. Last(h.answers) = value /\ Len(h.answers) # 0 BY <2>7 DEF Last
  <2>9. Defined(h) = value /\ DecidedExact(h) BY <2>6, <2>8 DEF Defined, DecidedExact
  <2> QED BY <2>5, <2>9, ResultKeeps DEF h
<1> QED BY <1>1, <1>2, <1>3 DEF FrameOK, Frame, Callbacks, Collectors

-----------------------------------------------------------------------------
(* The stack of natives.                                                   *)

\* The natives of the stack whose callbacks run.
Calling(s) == {i \in DOMAIN s : s[i].calling}

\* d callbacks run, and every native of the stack is sound.
StackOK(s, d) ==
    /\ s \in Seq(Frame)
    /\ \A i \in DOMAIN s : FrameOK(s[i])
    /\ IsFiniteSet(Calling(s))
    /\ d = Cardinality(Calling(s))

Level(f) == IF f.calling THEN 1 ELSE 0

LEMMA EmptyStack == StackOK(<<>>, 0)
<1>1. <<>> \in Seq(Frame) BY EmptySeq
<1>2. Calling(<<>>) = {} BY DEF Calling
<1> QED BY <1>1, <1>2, FS_EmptySet DEF StackOK

LEMMA CallingAppend ==
  ASSUME NEW s \in Seq(Frame), NEW f \in Frame
  PROVE  /\ Calling(Append(s, f)) =
              Calling(s) \cup (IF f.calling THEN {Len(s) + 1} ELSE {})
         /\ Len(s) + 1 \notin Calling(s)
<1> DEFINE t == Append(s, f)
<1>1. /\ t \in Seq(Frame) /\ Len(t) = Len(s) + 1 /\ Len(s) \in Nat
      /\ \A i \in 1..Len(s) : t[i] = s[i]
      /\ t[Len(s) + 1] = f
  BY AppendProperties
<1>2. DOMAIN t = DOMAIN s \cup {Len(s) + 1} /\ DOMAIN s = 1..Len(s) BY <1>1
<1> HIDE DEF t
<1>3. Calling(t) = Calling(s) \cup (IF f.calling THEN {Len(s) + 1} ELSE {})
  BY <1>1, <1>2 DEF Calling
<1>4. Len(s) + 1 \notin Calling(s) BY <1>1, <1>2 DEF Calling
<1> QED BY <1>3, <1>4 DEF t

\* A native is put on the stack.
LEMMA StackPush ==
  ASSUME NEW s, NEW d, StackOK(s, d), NEW f, FrameOK(f)
  PROVE  StackOK(Append(s, f), d + Level(f)) /\ d \in Nat
<1> DEFINE t == Append(s, f)
<1>1. s \in Seq(Frame) /\ IsFiniteSet(Calling(s)) /\ d = Cardinality(Calling(s)) /\ d \in Nat
  BY FS_CardinalityType DEF StackOK
<1>2. f \in Frame BY DEF FrameOK
<1>3. /\ t \in Seq(Frame) /\ Len(t) = Len(s) + 1 /\ Len(s) \in Nat
      /\ \A i \in 1..Len(s) : t[i] = s[i]
      /\ t[Len(s) + 1] = f
  BY <1>1, <1>2, AppendProperties
<1>4. /\ Calling(t) = Calling(s) \cup (IF f.calling THEN {Len(s) + 1} ELSE {})
      /\ Len(s) + 1 \notin Calling(s)
  BY <1>1, <1>2, CallingAppend
<1> HIDE DEF t
<1>5. ASSUME NEW i \in DOMAIN t PROVE FrameOK(t[i])
  <2>1. CASE i = Len(s) + 1 BY <1>3, <2>1
  <2>2. CASE i # Len(s) + 1
    <3>1. i \in 1..Len(s) BY <1>3, <2>2
    <3> QED BY <1>3, <3>1 DEF StackOK
  <2> QED BY <2>1, <2>2
<1>6. CASE f.calling
  <2>1. Calling(t) = Calling(s) \cup {Len(s) + 1} BY <1>4, <1>6
  <2>2. IsFiniteSet(Calling(t)) /\ Cardinality(Calling(t)) = d + 1
    BY <1>1, <1>4, <2>1, FS_AddElement
  <2> QED BY <1>1, <1>3, <1>5, <1>6, <2>2 DEF StackOK, Level, t
<1>7. CASE ~f.calling
  <2>1. Calling(t) = Calling(s) BY <1>4, <1>7
  <2>2. d + Level(f) = d BY <1>1, <1>7 DEF Level
  <2> QED BY <1>1, <1>3, <1>5, <2>1, <2>2 DEF StackOK, t
<1> QED BY <1>6, <1>7

\* The innermost native of the stack is sound, and so is the rest.
LEMMA StackTop ==
  ASSUME NEW s, NEW d, StackOK(s, d), s # <<>>
  PROVE  /\ FrameOK(Last(s)) /\ StackOK(Front(s), d - Level(Last(s)))
         /\ d \in Nat /\ d - Level(Last(s)) \in Nat
<1> DEFINE r == Front(s)
           f == Last(s)
<1>1. s \in Seq(Frame) /\ IsFiniteSet(Calling(s)) /\ d = Cardinality(Calling(s)) /\ d \in Nat
  BY FS_CardinalityType DEF StackOK
<1>2. Len(s) \in Nat \ {0} BY <1>1, EmptySeq
<1>3. /\ r \in Seq(Frame) /\ Len(r) = Len(s) - 1
      /\ \A i \in 1..(Len(s) - 1) : r[i] = s[i]
  <2>1. \A i \in 1..(Len(s) - 1) : s[i] \in Frame BY <1>1, <1>2
  <2>2. /\ SubSeq(s, 1, Len(s) - 1) \in Seq(Frame)
        /\ Len(SubSeq(s, 1, Len(s) - 1)) = IF 1 <= Len(s) - 1 THEN Len(s) - 1 - 1 + 1 ELSE 0
        /\ \A i \in 1..(Len(s) - 1 - 1 + 1) : SubSeq(s, 1, Len(s) - 1)[i] = s[1 + i - 1]
    BY <1>2, <2>1, SubSeqProperties
  <2>3. \A i \in 1..(Len(s) - 1) : 1 + i - 1 = i BY <1>2
  <2>4. Len(s) - 1 - 1 + 1 = Len(s) - 1 /\ (~(1 <= Len(s) - 1) => Len(s) - 1 = 0)
    <3>1. \A k \in Nat \ {0} : k - 1 - 1 + 1 = k - 1 /\ (~(1 <= k - 1) => k - 1 = 0)
      OBVIOUS
    <3> QED BY <1>2, <3>1
  <2> QED BY <2>2, <2>3, <2>4 DEF Front
<1>4. f = s[Len(s)] /\ f \in Frame /\ FrameOK(f)
  <2>1. Len(s) \in DOMAIN s BY <1>1, <1>2
  <2> QED BY <1>1, <2>1 DEF Last, StackOK
<1> HIDE DEF r, f
<1>5. s = Append(r, f)
  <2>1. /\ Append(r, f) \in Seq(Frame) /\ Len(Append(r, f)) = Len(r) + 1
        /\ \A i \in 1..Len(r) : Append(r, f)[i] = r[i]
        /\ Append(r, f)[Len(r) + 1] = f
    BY <1>3, <1>4, AppendProperties
  <2>2. Len(Append(r, f)) = Len(s) /\ Len(r) + 1 = Len(s) BY <1>2, <1>3, <2>1
  <2>3. ASSUME NEW i \in 1..Len(s) PROVE Append(r, f)[i] = s[i]
    <3>1. CASE i = Len(s) BY <1>4, <2>1, <2>2, <3>1
    <3>2. CASE i # Len(s)
      <4>1. i \in 1..(Len(s) - 1) /\ i \in 1..Len(r) BY <1>2, <1>3, <3>2
      <4> QED BY <1>3, <2>1, <4>1
    <3> QED BY <3>1, <3>2
  <2> QED BY <1>1, <2>1, <2>2, <2>3, SeqEqual
<1>6. /\ Calling(s) = Calling(r) \cup (IF f.calling THEN {Len(r) + 1} ELSE {})
      /\ Len(r) + 1 \notin Calling(r)
  BY <1>3, <1>4, <1>5, CallingAppend
<1>7. IsFiniteSet(Calling(r))
  <2>1. Calling(r) \subseteq Calling(s) BY <1>6
  <2> QED BY <1>1, <2>1, FS_Subset
<1>8. \A i \in DOMAIN r : FrameOK(r[i])
  <2> TAKE i \in DOMAIN r
  <2>1. i \in 1..(Len(s) - 1) /\ i \in DOMAIN s BY <1>1, <1>2, <1>3
  <2> QED BY <1>3, <2>1 DEF StackOK
<1>9. Cardinality(Calling(r)) \in Nat BY <1>7, FS_CardinalityType
<1>10. CASE f.calling
  <2>1. Calling(s) = Calling(r) \cup {Len(r) + 1} BY <1>6, <1>10
  <2>2. d = Cardinality(Calling(r)) + 1
    <3>1. Cardinality(Calling(r) \cup {Len(r) + 1}) = Cardinality(Calling(r)) + 1
      BY <1>6, <1>7, FS_AddElement
    <3> QED BY <1>1, <2>1, <3>1
  <2>3. Level(f) = 1 BY <1>10 DEF Level
  <2>4. d - Level(f) = Cardinality(Calling(r)) BY <1>9, <2>2, <2>3
  <2> QED BY <1>1, <1>3, <1>4, <1>7, <1>8, <1>9, <2>4 DEF StackOK, r, f
<1>11. CASE ~f.calling
  <2>1. Calling(s) = Calling(r) BY <1>6, <1>11
  <2>2. d - Level(f) = d BY <1>1, <1>11 DEF Level
  <2> QED BY <1>1, <1>3, <1>4, <1>7, <1>8, <2>1, <2>2 DEF StackOK, r, f
<1> QED BY <1>10, <1>11

\* A native that is called has asked nothing.
LEMMA ActivationFits ==
  ASSUME NEW native \in Callbacks, NEW a \in DOMAIN arrays, arrays \in Seq(Seq(Value)),
         NEW initial \in Elements \cup {"none"}, native = "reduce" => initial \in Elements
  PROVE  FrameOK(Activation(native, a, initial)) /\ ~Activation(native, a, initial).calling
<1> DEFINE f == Activation(native, a, initial)
<1>1. a \in Nat /\ arrays[a] \in Seq(Value) /\ Len(arrays[a]) \in Nat
  <2>1. a \in Nat /\ arrays[a] \in Seq(Value) OBVIOUS
  <2> QED BY <2>1
<1>2. <<>> \in Seq(Value) /\ <<>> \in Seq(Answer) /\ <<>> \in Seq(Elements)
      /\ <<>> \in Seq(Seq(Value)) /\ Len(<<>>) = 0 /\ DOMAIN <<>> = {}
  BY EmptySeq
<1>3. /\ f.native = native /\ f.array = a /\ f.elements = arrays[a] /\ f.initial = initial
      /\ f.asked = <<>> /\ f.answers = <<>> /\ f.decided = FALSE /\ f.calling = FALSE
      /\ f.built = CASE native \in Collectors -> <<>>
                     [] native \in {"any", "find", "all"} -> "none"
                     [] native = "count" -> 0
                     [] native = "findIndex" -> -1
                     [] native = "reduce" -> initial
  BY DEF Activation
<1>4. f.built \in Built
  <2>1. /\ <<>> \in Built /\ "none" \in Built /\ 0 \in Built /\ -1 \in Built
        /\ Elements \subseteq Built
    BY <1>2 DEF Built, Value
  <2>2. CASE native \in Collectors BY <1>3, <2>1, <2>2
  <2>3. CASE native \in {"any", "find", "all"} BY <1>3, <2>1, <2>3 DEF Collectors
  <2>4. CASE native = "count" BY <1>3, <2>1, <2>4 DEF Collectors
  <2>5. CASE native = "findIndex" BY <1>3, <2>1, <2>5 DEF Collectors
  <2>6. CASE native = "reduce" BY <1>3, <2>1, <2>6 DEF Collectors
  <2> QED BY <2>2, <2>3, <2>4, <2>5, <2>6 DEF Callbacks, Collectors
<1>5. f \in Frame
  <2> DEFINE built == CASE native \in Collectors -> <<>>
                        [] native \in {"any", "find", "all"} -> "none"
                        [] native = "count" -> 0
                        [] native = "findIndex" -> -1
                        [] native = "reduce" -> initial
  <2>1. f.built = built BY <1>3
  <2>2. f = [native |-> native, array |-> a, elements |-> arrays[a], initial |-> initial,
             asked |-> <<>>, answers |-> <<>>, built |-> built,
             decided |-> FALSE, calling |-> FALSE]
    BY DEF Activation
  <2> HIDE DEF f, built
  <2>3. built \in Built BY <1>4, <2>1
  <2> QED BY <1>1, <1>2, <2>2, <2>3 DEF Frame
<1>6. Accepted(f) = {} BY <1>2, <1>3 DEF Accepted
<1>7. Len(f.asked) = 0 /\ Len(f.answers) = 0 /\ Len(f.elements) \in Nat BY <1>1, <1>2, <1>3
<1>8. 1..Len(f.answers) = {} /\ 1..(Len(f.answers) - 1) = {} /\ 1..Len(f.asked) = {}
  BY <1>7
<1>9. f.built = Defined(f)
  <2>1. CASE native = "filter"
    <3>1. Cardinality({}) = 0 /\ 1..0 = {} BY FS_EmptySet
    <3>2. InOrderOf({}, f.elements) = <<>>
      <4>1. InOrderOf({}, f.elements) = [i \in 1..Cardinality({}) |-> f.elements[IthOf({}, i)]]
        BY InOrderIs
      <4>2. InOrderOf({}, f.elements) = [i \in {} |-> f.elements[IthOf({}, i)]]
        BY <3>1, <4>1
      <4> QED BY <4>2
    <3> QED BY <1>3, <1>6, <2>1, <3>2 DEF Defined, Collectors
  <2>2. CASE native = "flatMap"
    <3>1. FlattenSeq(<<>>) = <<>> BY DEF FlattenSeq
    <3> QED BY <1>3, <2>2, <3>1 DEF Defined, Collectors
  <2>3. CASE native = "map" BY <1>3, <2>3 DEF Defined, Collectors
  <2>4. CASE native = "any" BY <1>3, <1>6, <2>4 DEF Defined, Collectors
  <2>5. CASE native = "all" BY <1>3, <1>6, <1>8, <2>5 DEF Defined, Collectors
  <2>6. CASE native = "count"
    <3>1. Cardinality(Accepted(f)) = 0 BY <1>6, FS_EmptySet
    <3> QED BY <1>3, <2>6, <3>1 DEF Defined, Collectors
  <2>7. CASE native = "find" BY <1>3, <1>6, <2>7 DEF Defined, Collectors
  <2>8. CASE native = "findIndex" BY <1>3, <1>6, <2>8 DEF Defined, Collectors
  <2>9. CASE native = "reduce" BY <1>3, <1>7, <2>9 DEF Defined, Collectors
  <2> QED BY <2>1, <2>2, <2>3, <2>4, <2>5, <2>6, <2>7, <2>8, <2>9 DEF Callbacks
<1>10. DecidedExact(f) BY <1>3, <1>6, <1>8 DEF DecidedExact
<1>11. AnswersFit(f) BY <1>2, <1>3 DEF AnswersFit
<1>12. Len(f.asked) = Len(f.answers) + (IF f.calling THEN 1 ELSE 0) BY <1>3, <1>7
<1>13. FrameOK(f)
  <2>1. Len(f.asked) <= Len(f.elements) BY <1>7
  <2>2. \A i \in 1..Len(f.asked) : f.asked[i] = f.elements[i] BY <1>8
  <2>3. ~f.calling BY <1>3
  <2> HIDE DEF f
  <2> QED BY <1>5, <1>9, <1>10, <1>11, <1>12, <2>1, <2>2, <2>3 DEF FrameOK
<1> QED BY <1>3, <1>13 DEF f

\* A native asks its callback for the next element.
LEMMA AskingKeeps ==
  ASSUME NEW f, FrameOK(f), ~f.calling, ~f.decided, Len(f.asked) < Len(f.elements)
  PROVE  LET g == [f EXCEPT !.asked = Append(@, f.elements[Len(@) + 1]), !.calling = TRUE]
         IN  FrameOK(g) /\ g.calling
<1> DEFINE n == Len(f.asked)
           asked == Append(f.asked, f.elements[n + 1])
           g == [f EXCEPT !.asked = Append(@, f.elements[Len(@) + 1]), !.calling = TRUE]
<1>1. /\ f \in Frame /\ f.asked \in Seq(Value) /\ f.elements \in Seq(Value)
      /\ f.answers \in Seq(Answer) /\ n \in Nat /\ Len(f.elements) \in Nat
      /\ \A i \in 1..n : f.asked[i] = f.elements[i]
      /\ n = Len(f.answers) + (IF f.calling THEN 1 ELSE 0)
      /\ f.built = Defined(f) /\ DecidedExact(f) /\ AnswersFit(f)
  BY DEF FrameOK, Frame
<1>2. n = Len(f.answers)
  <2>1. n = Len(f.answers) + 0 /\ Len(f.answers) \in Nat BY <1>1
  <2> QED BY <2>1
<1>3. f.elements[n + 1] \in Value
  <2>1. n + 1 \in 1..Len(f.elements) BY <1>1
  <2> QED BY <1>1, <2>1
<1>4. /\ asked \in Seq(Value) /\ Len(asked) = n + 1
      /\ \A i \in 1..n : asked[i] = f.asked[i]
      /\ asked[n + 1] = f.elements[n + 1]
  BY <1>1, <1>3, AppendProperties
<1>5. \A i \in 1..Len(asked) : asked[i] = f.elements[i]
  <2> HIDE DEF asked, n
  <2> TAKE i \in 1..Len(asked)
  <2>1. CASE i = n + 1 BY <1>4, <2>1
  <2>2. CASE i # n + 1
    <3>1. i \in 1..n BY <1>1, <1>4, <2>2
    <3> QED BY <1>1, <1>4, <3>1
  <2> QED BY <2>1, <2>2
<1>6. g = [f EXCEPT !.asked = asked, !.calling = TRUE] OBVIOUS
<1> HIDE DEF asked, g
<1>7. /\ g \in Frame /\ g.native = f.native /\ g.elements = f.elements
      /\ g.initial = f.initial /\ g.answers = f.answers /\ g.built = f.built
      /\ g.decided = f.decided /\ g.asked = asked /\ g.calling = TRUE
  BY <1>1, <1>4, <1>6 DEF Frame
<1>8. Accepted(g) = Accepted(f) BY <1>7 DEF Accepted
<1>9. Defined(g) = Defined(f) BY <1>7, <1>8 DEF Defined
<1>10. DecidedExact(g) BY <1>1, <1>7, <1>8 DEF DecidedExact
<1>11. AnswersFit(g) BY <1>1, <1>7 DEF AnswersFit
<1>12. Len(g.asked) <= Len(g.elements) /\ Len(g.asked) = Len(g.answers) + 1
  BY <1>1, <1>2, <1>4, <1>7
<1>13. Len(g.asked) = Len(g.answers) + (IF g.calling THEN 1 ELSE 0) BY <1>7, <1>12
<1>14. FrameOK(g)
  BY <1>1, <1>5, <1>7, <1>9, <1>10, <1>11, <1>12, <1>13 DEF FrameOK
<1> QED BY <1>7, <1>14 DEF g

-----------------------------------------------------------------------------
(* The inductive invariant.                                                *)

Outcomes == {"running", "error", "cancelled", "steps", "elements", "depth"}

\* The containers A and M are whole and hold no more than was charged.
ContainersOK(A, M, paid) ==
    /\ A \in Seq(Seq(Value))
    /\ M \in Seq(Seq(Entry))
    /\ \A m \in DOMAIN M : KeysDiffer(M[m])
    /\ paid \in Nat
    /\ Sizes(A) + Sizes(M) <= paid

RangeOK(r) ==
    /\ r.start \in Int /\ r.stop \in Int /\ r.step \in Int \ {0}
    /\ r.length = RangeLength(r.start, r.stop, r.step)

CountersOK ==
    /\ steps \in Nat /\ calls \in Nat
    /\ cancelled \in BOOLEAN
    /\ outcome \in Outcomes

\* The native calls: containers within the budget, a range with the length it
\* says, natives that computed what their definitions say, and a call depth
\* that counts the callbacks.
NInv ==
    /\ ContainersOK(arrays, maps, charged) /\ charged <= MaxElements
    /\ RangeOK(range)
    /\ CountersOK
    /\ StackOK(stack, depth) /\ depth <= MaxDepth

\* One more container, which is charged for.
LEMMA ContainersGrow ==
  ASSUME NEW A, NEW M, NEW paid, ContainersOK(A, M, paid)
  PROVE  /\ \A c \in Seq(Value) : ContainersOK(Append(A, c), M, paid + (1 + Len(c)))
         /\ \A c \in Seq(Entry) :
              KeysDiffer(c) => ContainersOK(A, Append(M, c), paid + (1 + Len(c)))
<1>1. /\ A \in Seq(Seq(Value)) /\ M \in Seq(Seq(Entry)) /\ paid \in Nat
      /\ \A m \in DOMAIN M : KeysDiffer(M[m])
      /\ Sizes(A) + Sizes(M) <= paid
  BY DEF ContainersOK
<1>2. Sizes(A) \in Nat /\ Sizes(M) \in Nat BY <1>1, SizesType
<1>3. \A x, y, p, n \in Nat : x + y <= p => x + 1 + n + y <= p + (1 + n)
                                         /\ x + (y + 1 + n) <= p + (1 + n)
  OBVIOUS
<1>4. ASSUME NEW c \in Seq(Value)
      PROVE  ContainersOK(Append(A, c), M, paid + (1 + Len(c)))
  <2>1. Append(A, c) \in Seq(Seq(Value)) /\ Sizes(Append(A, c)) = Sizes(A) + 1 + Len(c)
    BY <1>1, SizesAppend
  <2>2. Len(c) \in Nat OBVIOUS
  <2>3. Sizes(A) + 1 + Len(c) + Sizes(M) <= paid + (1 + Len(c)) BY <1>1, <1>2, <1>3, <2>2
  <2>4. paid + (1 + Len(c)) \in Nat BY <1>1, <2>2
  <2> QED BY <1>1, <2>1, <2>3, <2>4 DEF ContainersOK
<1>5. ASSUME NEW c \in Seq(Entry), KeysDiffer(c)
      PROVE  ContainersOK(A, Append(M, c), paid + (1 + Len(c)))
  <2>1. Append(M, c) \in Seq(Seq(Entry)) /\ Sizes(Append(M, c)) = Sizes(M) + 1 + Len(c)
    BY <1>1, SizesAppend
  <2>2. Len(c) \in Nat OBVIOUS
  <2>3. Sizes(A) + (Sizes(M) + 1 + Len(c)) <= paid + (1 + Len(c))
    BY <1>1, <1>2, <1>3, <2>2
  <2>4. paid + (1 + Len(c)) \in Nat BY <1>1, <2>2
  <2>5. \A m \in DOMAIN Append(M, c) : KeysDiffer(Append(M, c)[m])
    <3> TAKE m \in DOMAIN Append(M, c)
    <3>1. /\ Len(Append(M, c)) = Len(M) + 1 /\ Len(M) \in Nat
          /\ \A i \in 1..Len(M) : Append(M, c)[i] = M[i]
          /\ Append(M, c)[Len(M) + 1] = c
          /\ DOMAIN Append(M, c) = 1..Len(Append(M, c))
      BY <1>1, <2>1, AppendProperties
    <3>2. CASE m = Len(M) + 1 BY <1>5, <3>1, <3>2
    <3>3. CASE m # Len(M) + 1
      <4>1. m \in 1..Len(M) BY <3>1, <3>3
      <4>2. m \in DOMAIN M BY <1>1, <4>1
      <4> QED BY <1>1, <3>1, <4>1, <4>2
    <3> QED BY <3>2, <3>3
  <2> QED BY <1>1, <2>1, <2>3, <2>4, <2>5 DEF ContainersOK
<1> QED BY <1>4, <1>5

\* A container changes, and what it gets is charged for.
LEMMA ContainersChange ==
  ASSUME NEW A, NEW M, NEW paid, ContainersOK(A, M, paid), NEW more \in Nat
  PROVE  /\ \A a \in DOMAIN A, c \in Seq(Value) :
              Len(c) <= Len(A[a]) + more
                => ContainersOK([A EXCEPT ![a] = c], M, paid + more)
         /\ \A m \in DOMAIN M, c \in Seq(Entry) :
              Len(c) <= Len(M[m]) + more /\ KeysDiffer(c)
                => ContainersOK(A, [M EXCEPT ![m] = c], paid + more)
<1>1. /\ A \in Seq(Seq(Value)) /\ M \in Seq(Seq(Entry)) /\ paid \in Nat
      /\ \A m \in DOMAIN M : KeysDiffer(M[m])
      /\ Sizes(A) + Sizes(M) <= paid
  BY DEF ContainersOK
<1>2. Sizes(A) \in Nat /\ Sizes(M) \in Nat /\ paid + more \in Nat BY <1>1, SizesType
<1>3. \A x, y, p, n, o, k \in Nat : x + y <= p /\ n <= o + k
                                      => x - o + n + y <= p + k /\ x + (y - o + n) <= p + k
  OBVIOUS
<1>4. ASSUME NEW a \in DOMAIN A, NEW c \in Seq(Value), Len(c) <= Len(A[a]) + more
      PROVE  ContainersOK([A EXCEPT ![a] = c], M, paid + more)
  <2>1. /\ [A EXCEPT ![a] = c] \in Seq(Seq(Value))
        /\ Sizes([A EXCEPT ![a] = c]) = Sizes(A) - Len(A[a]) + Len(c)
    BY <1>1, SizesExcept
  <2>2. A[a] \in Seq(Value) BY <1>1
  <2>3. Len(c) \in Nat /\ Len(A[a]) \in Nat BY <2>2
  <2>4. Sizes(A) - Len(A[a]) + Len(c) + Sizes(M) <= paid + more
    BY <1>1, <1>2, <1>3, <1>4, <2>3
  <2> QED BY <1>1, <1>2, <2>1, <2>4 DEF ContainersOK
<1>5. ASSUME NEW m \in DOMAIN M, NEW c \in Seq(Entry), Len(c) <= Len(M[m]) + more,
             KeysDiffer(c)
      PROVE  ContainersOK(A, [M EXCEPT ![m] = c], paid + more)
  <2>1. /\ [M EXCEPT ![m] = c] \in Seq(Seq(Entry))
        /\ Sizes([M EXCEPT ![m] = c]) = Sizes(M) - Len(M[m]) + Len(c)
    BY <1>1, SizesExcept
  <2>2. M[m] \in Seq(Entry) BY <1>1
  <2>3. Len(c) \in Nat /\ Len(M[m]) \in Nat BY <2>2
  <2>4. Sizes(A) + (Sizes(M) - Len(M[m]) + Len(c)) <= paid + more
    BY <1>1, <1>2, <1>3, <1>5, <2>3
  <2>5. \A i \in DOMAIN [M EXCEPT ![m] = c] : KeysDiffer([M EXCEPT ![m] = c][i])
    BY <1>1, <1>5
  <2> QED BY <1>1, <1>2, <2>1, <2>4, <2>5 DEF ContainersOK
<1> QED BY <1>4, <1>5

\* What a check says, and what it has seen when it lets the operation go on.
LEMMA RefusalIs ==
  ASSUME NEW accepted, NEW ensured, NEW walked, NEW charge, NEW taken
  PROVE  LET refusal == Refusal(Cost(accepted, ensured, walked, charge), taken)
         IN  /\ refusal = "none" \/ refusal \in Outcomes
             /\ refusal = "none" => accepted /\ ~(charged + charge > MaxElements)
BY DEF Refusal, Cost, Outcomes

LEMMA FailKeeps ==
  ASSUME NInv, NEW reason \in Outcomes, Fail(reason), calls' \in Nat
  PROVE  NInv'
<1>1. /\ outcome' = reason /\ stack' = <<>> /\ depth' = 0
      /\ UNCHANGED <<arrays, maps, range, steps, charged, cancelled>>
  BY DEF Fail
<1>2. StackOK(stack', depth') BY <1>1, EmptyStack
<1>3. depth' <= MaxDepth BY <1>1, BoundsAssumption
<1> QED BY <1>1, <1>2, <1>3 DEF NInv, CountersOK

\* An instruction that leaves containers it has charged for keeps the invariant.
LEMMA PerformKeeps ==
  ASSUME NInv, NEW accepted, NEW ensured, NEW walked \in Nat, NEW charge \in Nat,
         NEW A, NEW M, Perform(Cost(accepted, ensured, walked, charge), A, M),
         accepted => ContainersOK(A, M, charged + charge)
  PROVE  NInv'
<1> DEFINE cost == Cost(accepted, ensured, walked, charge)
           refusal == Refusal(cost, 1)
<1>1. /\ calls' = calls + 1
      /\ IF refusal # "none"
         THEN Fail(refusal)
         ELSE /\ arrays' = A /\ maps' = M
              /\ steps' = steps + 1 + walked
              /\ charged' = charged + charge
              /\ UNCHANGED <<range, stack, depth, cancelled, outcome>>
  BY DEF Perform, Cost
<1>2. /\ refusal = "none" \/ refusal \in Outcomes
      /\ refusal = "none" => accepted /\ ~(charged + charge > MaxElements)
  BY RefusalIs
<1> HIDE DEF refusal, cost
<1>3. calls' \in Nat /\ steps + 1 + walked \in Nat BY <1>1 DEF NInv, CountersOK
<1>4. CASE refusal # "none" BY <1>1, <1>2, <1>3, <1>4, FailKeeps
<1>5. CASE refusal = "none"
  <2>1. ContainersOK(A, M, charged + charge) BY <1>2, <1>5
  <2>2. charged' <= MaxElements
    <3>1. charged \in Nat /\ MaxElements \in Nat
      BY BoundsAssumption DEF NInv, ContainersOK
    <3> QED BY <1>1, <1>2, <1>5, <3>1
  <2>3. ContainersOK(arrays', maps', charged') BY <1>1, <1>5, <2>1
  <2>4. CountersOK'
    BY <1>1, <1>3, <1>5 DEF NInv, CountersOK
  <2>5. RangeOK(range') /\ StackOK(stack', depth') /\ depth' <= MaxDepth
    BY <1>1, <1>5 DEF NInv
  <2> QED BY <2>2, <2>3, <2>4, <2>5 DEF NInv
<1> QED BY <1>4, <1>5

\* The containers as they are.
LEMMA ContainersStay ==
  ASSUME NInv
  PROVE  /\ ContainersOK(arrays, maps, charged) /\ ContainersOK(arrays, maps, charged + 0)
         /\ arrays \in Seq(Seq(Value)) /\ maps \in Seq(Seq(Entry)) /\ charged \in Nat
         /\ \A a \in DOMAIN arrays : arrays[a] \in Seq(Value) /\ Len(arrays[a]) \in Nat
         /\ \A m \in DOMAIN maps :
              maps[m] \in Seq(Entry) /\ Len(maps[m]) \in Nat /\ KeysDiffer(maps[m])
<1>1. /\ ContainersOK(arrays, maps, charged) /\ charged \in Nat
      /\ arrays \in Seq(Seq(Value)) /\ maps \in Seq(Seq(Entry))
      /\ \A m \in DOMAIN maps : KeysDiffer(maps[m])
  BY DEF NInv, ContainersOK
<1>2. charged + 0 = charged BY <1>1
<1>3. \A a \in DOMAIN arrays : arrays[a] \in Seq(Value) BY <1>1
<1>4. \A a \in DOMAIN arrays : Len(arrays[a]) \in Nat BY <1>3
<1>5. \A m \in DOMAIN maps : maps[m] \in Seq(Entry) BY <1>1
<1>6. \A m \in DOMAIN maps : Len(maps[m]) \in Nat BY <1>5
<1> QED BY <1>1, <1>2, <1>3, <1>4, <1>5, <1>6

\* A search ends at the first match.
LEMMA SearchStepsType ==
  ASSUME NEW n \in Nat, NEW matches \in SUBSET (1..n)
  PROVE  SearchSteps(n, matches) \in Nat
<1>1. CASE matches = {} BY <1>1 DEF SearchSteps
<1>2. CASE matches # {}
  <2> DEFINE Least(i) == \A j \in matches : i <= j
             c == CHOOSE i \in matches : Least(i)
  <2>1. \E i \in matches : Least(i)
    <3>1. matches \subseteq Nat OBVIOUS
    <3>2. \E i \in matches : \A j \in matches : i <= j BY <1>2, <3>1, NatMinimum
    <3> QED BY <3>2
  <2>2. c \in matches
    <3> HIDE DEF Least
    <3> QED BY <2>1
  <2>3. SearchSteps(n, matches) = c BY <1>2 DEF SearchSteps
  <2>4. matches \subseteq Nat OBVIOUS
  <2> HIDE DEF c
  <2> QED BY <2>2, <2>3, <2>4
<1> QED BY <1>1, <1>2

-----------------------------------------------------------------------------
(* The instructions and natives on arrays.                                 *)

LEMMA MakeArrayKeeps ==
  ASSUME NInv, NEW e \in Elements, MakeArray(<<e>>)
  PROVE  NInv'
<1>1. <<e>> \in Seq(Value) /\ Len(<<e>>) = 1 BY DEF Value
<1> DEFINE c == <<e>>
<1> HIDE DEF c
<1>2. ContainersOK(NewArray(c), maps, charged + (1 + Len(c)))
  BY <1>1, ContainersStay, ContainersGrow DEF NewArray, c
<1>3. 1 + Len(c) \in Nat BY <1>1 DEF c
<1>4. Perform(Cost(TRUE, 0, 0, 1 + Len(c)), NewArray(c), maps) BY DEF MakeArray, c
<1> QED BY <1>2, <1>3, <1>4, PerformKeeps

LEMMA PushKeeps ==
  ASSUME NInv, NEW a \in DOMAIN arrays, NEW e \in Elements, Push(a, e)
  PROVE  NInv'
<1> DEFINE c == Append(arrays[a], e)
           A == [arrays EXCEPT ![a] = c]
<1>1. c \in Seq(Value) /\ Len(c) = Len(arrays[a]) + 1
  <2>1. arrays[a] \in Seq(Value) /\ e \in Value BY ContainersStay DEF Value
  <2> QED BY <2>1, AppendProperties
<1>2. Perform(Cost(TRUE, 0, 0, 1), A, maps) BY DEF Push
<1> HIDE DEF c
<1>3. ContainersOK(A, maps, charged + 1)
  <2>1. Len(c) <= Len(arrays[a]) + 1 BY <1>1, ContainersStay
  <2> QED BY <1>1, <2>1, ContainersStay, ContainersChange
<1> HIDE DEF A
<1> QED BY <1>2, <1>3, PerformKeeps

LEMMA PopKeeps ==
  ASSUME NInv, NEW a \in DOMAIN arrays, Pop(a)
  PROVE  NInv'
<1> DEFINE c == Front(arrays[a])
           A == [arrays EXCEPT ![a] = c]
<1>1. Perform(Cost(arrays[a] # <<>>, 0, 0, 0), A, maps) BY DEF Pop
<1>2. ASSUME arrays[a] # <<>> PROVE ContainersOK(A, maps, charged + 0)
  <2>1. arrays[a] \in Seq(Value) /\ Len(arrays[a]) \in Nat \ {0}
    BY <1>2, ContainersStay, EmptySeq
  <2>2. c \in Seq(Value) /\ Len(c) <= Len(arrays[a]) + 0
    <3>1. \A i \in 1..(Len(arrays[a]) - 1) : arrays[a][i] \in Value BY <2>1
    <3>2. /\ SubSeq(arrays[a], 1, Len(arrays[a]) - 1) \in Seq(Value)
          /\ Len(SubSeq(arrays[a], 1, Len(arrays[a]) - 1))
               = IF 1 <= Len(arrays[a]) - 1 THEN Len(arrays[a]) - 1 - 1 + 1 ELSE 0
      BY <2>1, <3>1, SubSeqProperties
    <3>3. \A n \in Nat \ {0} : (IF 1 <= n - 1 THEN n - 1 - 1 + 1 ELSE 0) <= n + 0
      OBVIOUS
    <3>4. Len(SubSeq(arrays[a], 1, Len(arrays[a]) - 1)) <= Len(arrays[a]) + 0
      BY <2>1, <3>2, <3>3
    <3> QED BY <3>2, <3>4 DEF Front
  <2> HIDE DEF c
  <2> QED BY <2>2, ContainersStay, ContainersChange
<1> HIDE DEF A
<1> QED BY <1>1, <1>2, PerformKeeps

LEMMA AssignIndexKeeps ==
  ASSUME NInv, NEW a \in DOMAIN arrays, NEW i, NEW e \in Elements, AssignIndex(a, i, e)
  PROVE  NInv'
<1> DEFINE c == [arrays[a] EXCEPT ![i] = e]
           A == [arrays EXCEPT ![a] = c]
<1>1. Perform(Cost(i \in DOMAIN arrays[a], 0, 0, 0), A, maps) BY DEF AssignIndex
<1>2. ASSUME i \in DOMAIN arrays[a] PROVE ContainersOK(A, maps, charged + 0)
  <2>1. arrays[a] \in Seq(Value) /\ Len(arrays[a]) \in Nat /\ e \in Value
    BY ContainersStay DEF Value
  <2>2. i \in 1..Len(arrays[a]) BY <1>2, <2>1
  <2>3. c \in Seq(Value) /\ Len(c) = Len(arrays[a]) BY <2>1, <2>2, ExceptSeq
  <2> HIDE DEF c
  <2>4. Len(c) <= Len(arrays[a]) + 0 BY <2>1, <2>3
  <2> QED BY <2>3, <2>4, ContainersStay, ContainersChange
<1> HIDE DEF A
<1> QED BY <1>1, <1>2, PerformKeeps

LEMMA SearchArrayKeeps ==
  ASSUME NInv, NEW a \in DOMAIN arrays,
         \/ \E i : Index(a, i)
         \/ \E e : ContainsElement(a, e)
  PROVE  NInv'
<1>1. ASSUME NEW i, Index(a, i) PROVE NInv'
  <2>1. Perform(Cost(i \in DOMAIN arrays[a], 0, 0, 0), arrays, maps) BY <1>1 DEF Index
  <2> QED BY <2>1, ContainersStay, PerformKeeps
<1>2. ASSUME NEW e, ContainsElement(a, e) PROVE NInv'
  <2> DEFINE matches == {i \in DOMAIN arrays[a] : arrays[a][i] = e}
             walked == SearchSteps(Len(arrays[a]), matches)
  <2>1. walked \in Nat
    <3>1. arrays[a] \in Seq(Value) /\ Len(arrays[a]) \in Nat BY ContainersStay
    <3>2. matches \in SUBSET (1..Len(arrays[a])) BY <3>1
    <3> QED BY <3>1, <3>2, SearchStepsType
  <2>2. Perform(Cost(TRUE, 0, walked, 0), arrays, maps) BY <1>2 DEF ContainsElement
  <2> HIDE DEF walked
  <2> QED BY <2>1, <2>2, ContainersStay, PerformKeeps
<1> QED BY <1>1, <1>2

\* Copies and joins of arrays are arrays of their own.
LEMMA NewArrayKeeps ==
  ASSUME NInv, NEW accepted, NEW n \in Nat, NEW c,
         accepted => c \in Seq(Value) /\ Len(c) = n,
         Perform(Cost(accepted, 1 + n, n, 1 + n), NewArray(c), maps)
  PROVE  NInv'
<1>1. ASSUME accepted PROVE ContainersOK(NewArray(c), maps, charged + (1 + n))
  <2>1. c \in Seq(Value) /\ Len(c) = n BY <1>1
  <2>2. ContainersOK(Append(arrays, c), maps, charged + (1 + Len(c)))
    BY <2>1, ContainersStay, ContainersGrow
  <2> QED BY <2>1, <2>2 DEF NewArray
<1>2. 1 + n \in Nat OBVIOUS
<1> QED BY <1>1, <1>2, PerformKeeps

LEMMA SliceKeeps ==
  ASSUME NInv, NEW a \in DOMAIN arrays,
         NEW start \in 0..Len(arrays[a]), NEW length \in 0..Len(arrays[a]),
         Slice(a, start, length)
  PROVE  NInv'
<1> DEFINE s == arrays[a]
           c == SubSeq(s, start + 1, start + length)
<1>1. s \in Seq(Value) /\ Len(s) \in Nat /\ start \in Nat /\ length \in Nat
  BY ContainersStay
<1>2. ASSUME start + length <= Len(s) PROVE c \in Seq(Value) /\ Len(c) = length
  <2>1. \A i \in (start + 1)..(start + length) : s[i] \in Value BY <1>1, <1>2
  <2>2. start + 1 \in Int /\ start + length \in Int BY <1>1
  <2>3. /\ c \in Seq(Value)
        /\ Len(c) = IF start + 1 <= start + length THEN (start + length) - (start + 1) + 1
                    ELSE 0
    BY <2>1, <2>2, SubSeqProperties
  <2>4. (IF start + 1 <= start + length THEN (start + length) - (start + 1) + 1 ELSE 0)
          = length
    BY <1>1
  <2> QED BY <2>3, <2>4
<1>3. Perform(Cost(start + length <= Len(s), 1 + length, length, 1 + length), NewArray(c), maps)
  BY DEF Slice
<1> HIDE DEF s, c
<1> QED BY <1>1, <1>2, <1>3, NewArrayKeeps

LEMMA CopyKeeps ==
  ASSUME NInv, NEW a \in DOMAIN arrays,
         Copy(a) \/ \E b \in DOMAIN arrays : Concat(a, b)
  PROVE  NInv'
<1>1. CASE Copy(a)
  <2>1. arrays[a] \in Seq(Value) /\ Len(arrays[a]) \in Nat BY ContainersStay
  <2>2. Perform(Cost(TRUE, 1 + Len(arrays[a]), Len(arrays[a]), 1 + Len(arrays[a])),
                NewArray(arrays[a]), maps)
    BY <1>1 DEF Copy
  <2> QED BY <2>1, <2>2, NewArrayKeeps
<1>2. ASSUME NEW b \in DOMAIN arrays, Concat(a, b) PROVE NInv'
  <2> DEFINE n == Len(arrays[a]) + Len(arrays[b])
             c == arrays[a] \o arrays[b]
  <2>1. arrays[a] \in Seq(Value) /\ arrays[b] \in Seq(Value) BY ContainersStay
  <2>2. c \in Seq(Value) /\ Len(c) = n /\ n \in Nat BY <2>1, ConcatProperties
  <2>3. Perform(Cost(TRUE, 1 + n, n, 1 + n), NewArray(c), maps) BY <1>2 DEF Concat
  <2> HIDE DEF n, c
  <2> QED BY <2>2, <2>3, NewArrayKeeps
<1> QED BY <1>1, <1>2

LEMMA ArrayStepKeeps == ASSUME NInv, ArrayStep PROVE NInv'
<1>1. CASE \E e \in Elements : MakeArray(<<e>>) BY <1>1, MakeArrayKeeps
<1>2. ASSUME NEW a \in DOMAIN arrays,
             \/ Pop(a)
             \/ Copy(a)
             \/ \E e \in Elements : Push(a, e) \/ ContainsElement(a, e)
             \/ \E i \in 1..(Len(arrays[a]) + 1), e \in Elements :
                  Index(a, i) \/ AssignIndex(a, i, e)
             \/ \E start, length \in 0..Len(arrays[a]) : Slice(a, start, length)
             \/ \E b \in DOMAIN arrays : Concat(a, b)
      PROVE  NInv'
  <2>1. CASE Pop(a) BY <2>1, PopKeeps
  <2>2. CASE Copy(a) \/ \E b \in DOMAIN arrays : Concat(a, b) BY <2>2, CopyKeeps
  <2>3. CASE \E e \in Elements : Push(a, e) BY <2>3, PushKeeps
  <2>4. CASE \E e \in Elements : ContainsElement(a, e) BY <2>4, SearchArrayKeeps
  <2>5. CASE \E i \in 1..(Len(arrays[a]) + 1) : Index(a, i) BY <2>5, SearchArrayKeeps
  <2>6. CASE \E i \in 1..(Len(arrays[a]) + 1), e \in Elements : AssignIndex(a, i, e)
    BY <2>6, AssignIndexKeeps
  <2>7. CASE \E start, length \in 0..Len(arrays[a]) : Slice(a, start, length)
    BY <2>7, SliceKeeps
  <2> QED BY <1>2, <2>1, <2>2, <2>3, <2>4, <2>5, <2>6, <2>7
<1> QED BY <1>1, <1>2 DEF ArrayStep

-----------------------------------------------------------------------------
(* The instructions and natives on maps.                                   *)

LEMMA AllocateKeeps ==
  ASSUME NInv, NEW entries \in Seq(Entry), NEW walked \in Nat, AllocateMap(entries, walked)
  PROVE  NInv'
<1> DEFINE normal == NormalizeMapEntries(entries)
<1>1. normal \in Seq(Entry) /\ KeysDiffer(normal) BY NormalizeGives
<1>2. Perform(Cost(TRUE, 0, walked, 1 + Len(normal)), arrays, Append(maps, normal))
  BY DEF AllocateMap
<1> HIDE DEF normal
<1>3. 1 + Len(normal) \in Nat BY <1>1
<1>4. ContainersOK(arrays, Append(maps, normal), charged + (1 + Len(normal)))
  BY <1>1, ContainersStay, ContainersGrow
<1> QED BY <1>2, <1>3, <1>4, PerformKeeps

LEMMA MakeMapKeeps ==
  ASSUME NInv, NEW entries \in FirstMaps, MakeMap(entries)
  PROVE  NInv'
<1>1. entries \in Seq(Entry) BY InputsAssumption DEF Entry
<1> QED BY <1>1, AllocateKeeps DEF MakeMap

LEMMA MergeKeeps ==
  ASSUME NInv, NEW l \in DOMAIN maps, NEW r \in DOMAIN maps, Merge(l, r)
  PROVE  NInv'
<1>1. maps[l] \in Seq(Entry) /\ maps[r] \in Seq(Entry) /\ Len(maps[r]) \in Nat
  BY ContainersStay
<1>2. maps[l] \o maps[r] \in Seq(Entry) BY <1>1, ConcatProperties
<1>3. AllocateMap(maps[l] \o maps[r], Len(maps[r])) BY DEF Merge
<1> QED BY <1>1, <1>2, <1>3, AllocateKeeps

LEMMA AssignKeyKeeps ==
  ASSUME NInv, NEW m \in DOMAIN maps, NEW k \in Keys, NEW e \in Elements, AssignKey(m, k, e)
  PROVE  NInv'
<1> DEFINE c == WithEntry(maps[m], <<k, e>>)
           M == [maps EXCEPT ![m] = c]
           charge == IF Found(maps[m], k) = {} THEN 1 ELSE 0
<1>1. maps[m] \in Seq(Entry) /\ KeysDiffer(maps[m]) /\ Len(maps[m]) \in Nat
  BY ContainersStay
<1>2. <<k, e>> \in Entry /\ <<k, e>>[1] = k BY DEF Entry
<1>3. Placed(maps[m], <<k, e>>, c) BY <1>1, <1>2, WithEntryPlaces
<1>4. Perform(Cost(TRUE, 0, 0, charge), arrays, M) BY DEF AssignKey
<1> HIDE DEF c
<1>5. c \in Seq(Entry) /\ KeysDiffer(c) /\ Len(c) = Len(maps[m]) + charge
  BY <1>2, <1>3 DEF Placed
<1>6. charge \in Nat OBVIOUS
<1> HIDE DEF charge
<1>7. Len(c) <= Len(maps[m]) + charge BY <1>1, <1>5, <1>6
<1>8. ContainersOK(arrays, M, charged + charge)
  BY <1>5, <1>6, <1>7, ContainersStay, ContainersChange
<1> HIDE DEF M
<1> QED BY <1>4, <1>6, <1>8, PerformKeeps

\* Entries that lose one keep different keys.
LEMMA RemovedDiffer ==
  ASSUME NEW s \in Seq(Entry), KeysDiffer(s), NEW i \in DOMAIN s
  PROVE  /\ RemoveAt(s, i) \in Seq(Entry) /\ KeysDiffer(RemoveAt(s, i))
         /\ Len(RemoveAt(s, i)) = Len(s) - 1
<1> DEFINE l == SubSeq(s, 1, i - 1)
           r == SubSeq(s, i + 1, Len(s))
           t == l \o r
           At(j) == IF j < i THEN j ELSE j + 1
<1>1. Len(s) \in Nat /\ i \in 1..Len(s) /\ \A j \in 1..Len(s) : s[j] \in Entry OBVIOUS
<1>2. /\ l \in Seq(Entry) /\ Len(l) = i - 1
      /\ \A j \in 1..(i - 1) : l[j] = s[j]
  <2>1. i - 1 \in Int /\ \A j \in 1..(i - 1) : s[j] \in Entry BY <1>1
  <2>2. /\ l \in Seq(Entry) /\ Len(l) = IF 1 <= i - 1 THEN i - 1 - 1 + 1 ELSE 0
        /\ \A j \in 1..(i - 1 - 1 + 1) : l[j] = s[1 + j - 1]
    BY <2>1, SubSeqProperties
  <2>3. i - 1 - 1 + 1 = i - 1 /\ (~(1 <= i - 1) => i - 1 = 0) BY <1>1
  <2>4. \A j \in 1..(i - 1) : 1 + j - 1 = j BY <1>1
  <2> HIDE DEF l
  <2> QED BY <2>2, <2>3, <2>4
<1>3. /\ r \in Seq(Entry) /\ Len(r) = Len(s) - i
      /\ \A j \in 1..(Len(s) - i) : r[j] = s[i + j]
  <2>1. i + 1 \in Int /\ Len(s) \in Int /\ \A j \in (i + 1)..Len(s) : s[j] \in Entry BY <1>1
  <2>2. /\ r \in Seq(Entry) /\ Len(r) = IF i + 1 <= Len(s) THEN Len(s) - (i + 1) + 1 ELSE 0
        /\ \A j \in 1..(Len(s) - (i + 1) + 1) : r[j] = s[(i + 1) + j - 1]
    BY <2>1, SubSeqProperties
  <2>3. Len(s) - (i + 1) + 1 = Len(s) - i /\ (~(i + 1 <= Len(s)) => Len(s) - i = 0)
    BY <1>1
  <2>4. \A j \in 1..(Len(s) - i) : (i + 1) + j - 1 = i + j BY <1>1
  <2> HIDE DEF r
  <2> QED BY <2>2, <2>3, <2>4
<1> HIDE DEF l, r
<1>4. /\ t \in Seq(Entry) /\ Len(t) = Len(l) + Len(r)
      /\ \A j \in 1..(Len(l) + Len(r)) : t[j] = IF j <= Len(l) THEN l[j] ELSE r[j - Len(l)]
  BY <1>2, <1>3, ConcatProperties
<1> HIDE DEF t
<1>5. Len(t) = Len(s) - 1 BY <1>1, <1>2, <1>3, <1>4
<1>6. ASSUME NEW j \in DOMAIN t
      PROVE  t[j] = s[At(j)] /\ At(j) \in DOMAIN s /\ j \in Int
  <2>1. j \in 1..(Len(s) - 1) /\ j \in Int BY <1>1, <1>4, <1>5
  <2>2. CASE j < i
    <3>1. j \in 1..(i - 1) /\ j <= Len(l) /\ j \in 1..(Len(l) + Len(r))
      BY <1>1, <1>2, <1>3, <2>1, <2>2
    <3>2. t[j] = l[j] BY <1>4, <3>1
    <3>3. t[j] = s[j] BY <1>2, <3>1, <3>2
    <3> QED BY <1>1, <2>1, <2>2, <3>3
  <2>3. CASE ~(j < i)
    <3>1. /\ ~(j <= Len(l)) /\ j \in 1..(Len(l) + Len(r))
          /\ j - Len(l) \in 1..(Len(s) - i) /\ i + (j - Len(l)) = j + 1
      BY SMTT(30), <1>1, <1>2, <1>3, <2>1, <2>3
    <3>2. t[j] = r[j - Len(l)] BY <1>4, <3>1
    <3>3. t[j] = s[i + (j - Len(l))] BY <1>3, <3>1, <3>2
    <3> QED BY <1>1, <2>1, <2>3, <3>1, <3>3
  <2> QED BY <2>2, <2>3
<1>7. KeysDiffer(t)
  <2> SUFFICES ASSUME NEW j \in DOMAIN t, NEW k \in DOMAIN t, j < k
               PROVE  ~RuntimeEquals(t[j][1], t[k][1])
    BY DEF KeysDiffer
  <2>1. /\ t[j] = s[At(j)] /\ At(j) \in DOMAIN s /\ j \in Int
        /\ t[k] = s[At(k)] /\ At(k) \in DOMAIN s /\ k \in Int
    BY <1>6
  <2>2. At(j) < At(k) BY <1>1, <2>1
  <2> HIDE DEF At
  <2>3. ~RuntimeEquals(s[At(j)][1], s[At(k)][1]) BY <2>1, <2>2 DEF KeysDiffer
  <2> QED BY <2>1, <2>3
<1>8. RemoveAt(s, i) = t BY DEF RemoveAt, l, r, t
<1> QED BY <1>4, <1>5, <1>7, <1>8

LEMMA RemoveKeyKeeps ==
  ASSUME NInv, NEW m \in DOMAIN maps, NEW k \in Keys, RemoveKey(m, k)
  PROVE  NInv'
<1> DEFINE i == CHOOSE j \in Found(maps[m], k) : TRUE
           c == RemoveAt(maps[m], i)
           M == [maps EXCEPT ![m] = c]
<1>1. maps[m] \in Seq(Entry) /\ KeysDiffer(maps[m]) /\ Len(maps[m]) \in Nat
  BY ContainersStay
<1>2. Perform(Cost(Found(maps[m], k) # {}, 0, 0, 0), arrays, M) BY DEF RemoveKey
<1>3. ASSUME Found(maps[m], k) # {} PROVE ContainersOK(arrays, M, charged + 0)
  <2>1. i \in DOMAIN maps[m]
    <3>1. i \in Found(maps[m], k) BY <1>3
    <3> QED BY <3>1 DEF Found
  <2> HIDE DEF i
  <2>2. c \in Seq(Entry) /\ KeysDiffer(c) /\ Len(c) = Len(maps[m]) - 1
    BY <1>1, <2>1, RemovedDiffer
  <2> HIDE DEF c
  <2>3. Len(c) <= Len(maps[m]) + 0 BY <1>1, <2>2
  <2> QED BY <2>2, <2>3, ContainersStay, ContainersChange
<1> HIDE DEF M
<1> QED BY <1>2, <1>3, PerformKeeps

LEMMA ClearKeeps ==
  ASSUME NInv, NEW m \in DOMAIN maps, Clear(m)
  PROVE  NInv'
<1> DEFINE c == <<>>
           M == [maps EXCEPT ![m] = c]
<1>1. c \in Seq(Entry) /\ Len(c) = 0 /\ KeysDiffer(c) BY EmptySeq DEF KeysDiffer
<1>2. Perform(Cost(TRUE, 0, 0, 0), arrays, M) BY DEF Clear
<1> HIDE DEF c
<1>3. Len(c) <= Len(maps[m]) + 0 BY <1>1, ContainersStay
<1>4. ContainersOK(arrays, M, charged + 0)
  <2>1. ContainersOK(arrays, maps, charged) /\ 0 \in Nat BY ContainersStay
  <2>2. \A d \in Seq(Entry) : Len(d) <= Len(maps[m]) + 0 /\ KeysDiffer(d)
          => ContainersOK(arrays, [maps EXCEPT ![m] = d], charged + 0)
    BY <2>1, ContainersChange
  <2> QED BY <1>1, <1>3, <2>2
<1> HIDE DEF M
<1> QED BY <1>2, <1>4, PerformKeeps

LEMMA SearchMapKeeps ==
  ASSUME NInv, NEW m \in DOMAIN maps, NEW k, IndexKey(m, k) \/ ContainsKey(m, k)
  PROVE  NInv'
<1>1. CASE IndexKey(m, k)
  <2>1. Perform(Cost(Found(maps[m], k) # {}, 0, 0, 0), arrays, maps) BY <1>1 DEF IndexKey
  <2> QED BY <2>1, ContainersStay, PerformKeeps
<1>2. CASE ContainsKey(m, k)
  <2> DEFINE walked == SearchSteps(Len(maps[m]), Found(maps[m], k))
  <2>1. walked \in Nat
    <3>1. maps[m] \in Seq(Entry) /\ Len(maps[m]) \in Nat BY ContainersStay
    <3>2. Found(maps[m], k) \in SUBSET (1..Len(maps[m])) BY <3>1 DEF Found
    <3> QED BY <3>1, <3>2, SearchStepsType
  <2>2. Perform(Cost(TRUE, 0, walked, 0), arrays, maps) BY <1>2 DEF ContainsKey
  <2> HIDE DEF walked
  <2> QED BY <2>1, <2>2, ContainersStay, PerformKeeps
<1> QED BY <1>1, <1>2

\* The columns of a map are arrays of as many values.
LEMMA ColumnsFit ==
  ASSUME NEW s \in Seq(Entry)
  PROVE  /\ KeysOf(s) \in Seq(Value) /\ Len(KeysOf(s)) = Len(s)
         /\ ValuesOf(s) \in Seq(Value) /\ Len(ValuesOf(s)) = Len(s)
<1>1. Len(s) \in Nat /\ DOMAIN s = 1..Len(s) OBVIOUS
<1>2. ASSUME NEW i \in 1..Len(s) PROVE s[i][1] \in Value /\ s[i][2] \in Value
  <2>1. s[i] \in Entry OBVIOUS
  <2> QED BY <2>1 DEF Entry, Value
<1>3. /\ KeysOf(s) = [i \in 1..Len(s) |-> s[i][1]]
      /\ ValuesOf(s) = [i \in 1..Len(s) |-> s[i][2]]
  BY <1>1 DEF KeysOf, ValuesOf
<1>4. KeysOf(s) \in Seq(Value) /\ ValuesOf(s) \in Seq(Value)
  BY <1>1, <1>2, <1>3
<1> QED BY <1>1, <1>3, <1>4

LEMMA ColumnsKeep ==
  ASSUME NInv, NEW m \in DOMAIN maps, KeysCall(m) \/ ValuesCall(m) \/ AssertArray(m)
  PROVE  NInv'
<1> DEFINE n == Len(maps[m])
<1>1. maps[m] \in Seq(Entry) /\ n \in Nat BY ContainersStay
<1>2. /\ KeysOf(maps[m]) \in Seq(Value) /\ Len(KeysOf(maps[m])) = n
      /\ ValuesOf(maps[m]) \in Seq(Value) /\ Len(ValuesOf(maps[m])) = n
  BY <1>1, ColumnsFit
<1>3. CASE KeysCall(m)
  <2>1. Perform(Cost(TRUE, 1 + n, n, 1 + n), NewArray(KeysOf(maps[m])), maps)
    BY <1>3 DEF KeysCall
  <2> HIDE DEF n
  <2> QED BY <1>1, <1>2, <2>1, NewArrayKeeps
<1>4. CASE ValuesCall(m)
  <2>1. Perform(Cost(TRUE, 1 + n, n, 1 + n), NewArray(ValuesOf(maps[m])), maps)
    BY <1>4 DEF ValuesCall
  <2> HIDE DEF n
  <2> QED BY <1>1, <1>2, <2>1, NewArrayKeeps
<1>5. CASE AssertArray(m)
  <2> DEFINE c == KeysOf(maps[m])
  <2>1. Perform(Cost(TRUE, 0, 0, 1 + n), NewArray(c), maps) BY <1>5 DEF AssertArray
  <2>2. ContainersOK(Append(arrays, c), maps, charged + (1 + Len(c)))
    <3> HIDE DEF c
    <3>1. c \in Seq(Value) BY <1>2 DEF c
    <3> QED BY <3>1, ContainersStay, ContainersGrow
  <2>3. ContainersOK(NewArray(c), maps, charged + (1 + n)) BY <1>2, <2>2 DEF NewArray
  <2>4. 1 + n \in Nat BY <1>1
  <2> HIDE DEF n, c
  <2> QED BY <2>1, <2>3, <2>4, PerformKeeps
<1> QED BY <1>3, <1>4, <1>5

LEMMA MapStepKeeps == ASSUME NInv, MapStep PROVE NInv'
<1>1. CASE \E entries \in FirstMaps : MakeMap(entries) BY <1>1, MakeMapKeeps
<1>2. ASSUME NEW m \in DOMAIN maps,
             \/ Clear(m) \/ KeysCall(m) \/ ValuesCall(m) \/ AssertArray(m)
             \/ \E n \in DOMAIN maps : Merge(m, n)
             \/ \E k \in Keys :
                  \/ IndexKey(m, k) \/ RemoveKey(m, k) \/ ContainsKey(m, k)
                  \/ \E e \in Elements : AssignKey(m, k, e)
      PROVE  NInv'
  <2>1. CASE Clear(m) BY <2>1, ClearKeeps
  <2>2. CASE KeysCall(m) \/ ValuesCall(m) \/ AssertArray(m) BY <2>2, ColumnsKeep
  <2>3. CASE \E n \in DOMAIN maps : Merge(m, n) BY <2>3, MergeKeeps
  <2>4. ASSUME NEW k \in Keys, IndexKey(m, k) \/ ContainsKey(m, k) PROVE NInv'
    BY <2>4, SearchMapKeeps
  <2>5. ASSUME NEW k \in Keys, RemoveKey(m, k) PROVE NInv' BY <2>5, RemoveKeyKeeps
  <2>6. ASSUME NEW k \in Keys, NEW e \in Elements, AssignKey(m, k, e) PROVE NInv'
    BY <2>6, AssignKeyKeeps
  <2> QED BY <1>2, <2>1, <2>2, <2>3, <2>4, <2>5, <2>6
<1> QED BY <1>1, <1>2 DEF MapStep

-----------------------------------------------------------------------------
(* Ranges, and natives with a callback.                                    *)

LEMMA RangeCallKeeps ==
  ASSUME NInv, NEW input \in RangeInputs, RangeCall(input[1], input[2], input[3])
  PROVE  NInv'
<1> DEFINE start == input[1]
           stop == input[2]
           step == input[3]
           refusal == Refusal(Cost(step # 0, 0, 0, 1), 1)
<1>1. start \in Int /\ stop \in Int /\ step \in Int
  <2>1. input \in Int \X Int \X Int BY InputsAssumption
  <2> QED BY <2>1
<1>2. /\ calls' = calls + 1
      /\ IF refusal # "none"
         THEN Fail(refusal)
         ELSE /\ range' = NewRange(start, stop, step)
              /\ steps' = steps + 1
              /\ charged' = charged + 1
              /\ UNCHANGED <<arrays, maps, stack, depth, cancelled, outcome>>
  BY DEF RangeCall
<1>3. /\ refusal = "none" \/ refusal \in Outcomes
      /\ refusal = "none" => step # 0 /\ ~(charged + 1 > MaxElements)
  BY RefusalIs
<1> HIDE DEF refusal, start, stop, step
<1>4. calls' \in Nat /\ steps + 1 \in Nat BY <1>2 DEF NInv, CountersOK
<1>5. CASE refusal # "none" BY <1>2, <1>3, <1>4, <1>5, FailKeeps
<1>6. CASE refusal = "none"
  <2>1. ContainersOK(arrays', maps', charged')
    <3>1. charged \in Nat /\ Sizes(arrays) \in Nat /\ Sizes(maps) \in Nat
      BY ContainersStay, SizesType
    <3>2. Sizes(arrays) + Sizes(maps) <= charged + 1 /\ charged + 1 \in Nat
      BY <3>1 DEF NInv, ContainersOK
    <3> QED BY <1>2, <1>6, <3>2 DEF NInv, ContainersOK
  <2>2. charged' <= MaxElements
    <3>1. charged \in Nat /\ MaxElements \in Nat BY ContainersStay, BoundsAssumption
    <3> QED BY <1>2, <1>3, <1>6, <3>1
  <2>3. RangeOK(range')
    <3>1. range' = NewRange(start, stop, step) /\ step # 0 BY <1>2, <1>3, <1>6
    <3> QED BY <1>1, <3>1 DEF NewRange, RangeOK
  <2>4. CountersOK' BY <1>2, <1>4, <1>6 DEF NInv, CountersOK
  <2>5. StackOK(stack', depth') /\ depth' <= MaxDepth BY <1>2, <1>6 DEF NInv
  <2> QED BY <2>1, <2>2, <2>3, <2>4, <2>5 DEF NInv
<1> QED BY <1>5, <1>6

\* A step of a native that changes the stack and takes steps only.
LEMMA StackKeeps ==
  ASSUME NInv, StackOK(stack', depth'), depth' <= MaxDepth, steps' \in Nat, calls' \in Nat,
         UNCHANGED <<arrays, maps, range, charged, cancelled, outcome>>
  PROVE  NInv'
BY DEF NInv, CountersOK

LEMMA CallNativeKeeps ==
  ASSUME NInv, NEW native \in Natives, NEW a \in DOMAIN arrays,
         NEW initial \in IF native = "reduce" THEN Elements ELSE {"none"},
         CallNative(native, a, initial)
  PROVE  NInv'
<1> DEFINE refusal == Refusal(Cost(TRUE, 0, 0, 0), 1)
           f == Activation(native, a, initial)
<1>1. /\ calls' = calls + 1
      /\ IF refusal # "none"
         THEN Fail(refusal)
         ELSE /\ stack' = Append(stack, f)
              /\ steps' = steps + 1
              /\ UNCHANGED <<arrays, maps, range, depth, charged, cancelled, outcome>>
  BY DEF CallNative, data
<1>2. refusal = "none" \/ refusal \in Outcomes BY RefusalIs
<1>3. FrameOK(f) /\ ~f.calling
  <2>1. native \in Callbacks BY InputsAssumption DEF Callbacks
  <2> QED BY <2>1, ContainersStay, ActivationFits
<1> HIDE DEF refusal, f
<1>4. calls' \in Nat /\ steps + 1 \in Nat BY <1>1 DEF NInv, CountersOK
<1>5. CASE refusal # "none" BY <1>1, <1>2, <1>4, <1>5, FailKeeps
<1>6. CASE refusal = "none"
  <2>1. StackOK(stack, depth) /\ depth <= MaxDepth BY DEF NInv
  <2>2. StackOK(Append(stack, f), depth + Level(f)) /\ depth \in Nat
    BY <1>3, <2>1, StackPush
  <2>3. depth + Level(f) = depth BY <1>3, <2>2 DEF Level
  <2> QED BY <1>1, <1>4, <1>6, <2>1, <2>2, <2>3, StackKeeps
<1> QED BY <1>5, <1>6

LEMMA CallFunctionKeeps ==
  ASSUME NInv, CallFunction
  PROVE  NInv'
<1> DEFINE refusal == Refusal(Cost(TRUE, 0, 0, 0), 1)
           f == Last(stack)
           g == [f EXCEPT !.asked = Append(@, f.elements[Len(@) + 1]), !.calling = TRUE]
<1>1. /\ stack # <<>> /\ ~f.calling /\ ~f.decided /\ Len(f.asked) < Len(f.elements)
      /\ calls' = calls
      /\ IF refusal # "none"
         THEN Fail(refusal)
         ELSE IF depth + 1 > MaxDepth
         THEN Fail("depth")
         ELSE /\ stack' = Append(Front(stack), g)
              /\ depth' = depth + 1
              /\ steps' = steps + 1
              /\ UNCHANGED <<arrays, maps, range, charged, cancelled, outcome>>
  BY DEF CallFunction, NativeRuns, Innermost, Walked, WithInnermost, data
<1>2. refusal = "none" \/ refusal \in Outcomes BY RefusalIs
<1>3. StackOK(stack, depth) /\ depth <= MaxDepth BY DEF NInv
<1>4. /\ FrameOK(f) /\ StackOK(Front(stack), depth - Level(f))
      /\ depth \in Nat /\ depth - Level(f) \in Nat
  BY <1>1, <1>3, StackTop
<1>5. FrameOK(g) /\ g.calling
  <2> HIDE DEF f
  <2> QED BY <1>1, <1>4, AskingKeeps
<1> HIDE DEF refusal, f, g
<1>6. calls' \in Nat /\ steps + 1 \in Nat BY <1>1 DEF NInv, CountersOK
<1>7. CASE refusal # "none" BY <1>1, <1>2, <1>6, <1>7, FailKeeps
<1>8. CASE refusal = "none" /\ depth + 1 > MaxDepth
  <2>1. "depth" \in Outcomes BY DEF Outcomes
  <2> QED BY <1>1, <1>6, <1>8, <2>1, FailKeeps
<1>9. CASE refusal = "none" /\ ~(depth + 1 > MaxDepth)
  <2>1. depth - Level(f) = depth /\ Level(g) = 1 BY <1>1, <1>4, <1>5 DEF Level
  <2>2. StackOK(Append(Front(stack), g), depth + 1)
    BY <1>4, <1>5, <2>1, StackPush
  <2>3. depth + 1 <= MaxDepth BY <1>4, <1>9, BoundsAssumption
  <2> QED BY <1>1, <1>6, <1>9, <2>2, <2>3, StackKeeps
<1> QED BY <1>7, <1>8, <1>9

LEMMA ReturnValueKeeps ==
  ASSUME NInv, NEW value, NEW accepted, NEW walked \in Nat,
         accepted => AnswerFits(Last(stack), value),
         ReturnValue(value, accepted, walked)
  PROVE  NInv'
<1> DEFINE refusal == Refusal(Cost(accepted, 0, walked, 0), 1)
           f == Last(stack)
           g == Answered(f, value)
<1>1. /\ stack # <<>> /\ f.calling
      /\ calls' = calls
      /\ IF refusal # "none"
         THEN Fail(refusal)
         ELSE /\ stack' = Append(Front(stack), g)
              /\ depth' = depth - 1
              /\ steps' = steps + 1 + walked
              /\ UNCHANGED <<arrays, maps, range, charged, cancelled, outcome>>
  BY DEF ReturnValue, Innermost, WithInnermost, data
<1>2. (refusal = "none" \/ refusal \in Outcomes) /\ (refusal = "none" => accepted)
  BY RefusalIs
<1>3. StackOK(stack, depth) /\ depth <= MaxDepth BY DEF NInv
<1>4. /\ FrameOK(f) /\ StackOK(Front(stack), depth - Level(f))
      /\ depth \in Nat /\ depth - Level(f) \in Nat
  BY <1>1, <1>3, StackTop
<1>5. accepted => FrameOK(g) /\ ~g.calling
  <2> HIDE DEF f
  <2>1. accepted => AnswerFits(f, value) BY DEF f
  <2> QED BY <1>1, <1>4, <2>1, AnswerKeeps
<1> HIDE DEF refusal, f, g
<1>6. calls' \in Nat /\ steps + 1 + walked \in Nat BY <1>1 DEF NInv, CountersOK
<1>7. CASE refusal # "none" BY <1>1, <1>2, <1>6, <1>7, FailKeeps
<1>8. CASE refusal = "none"
  <2>1. FrameOK(g) /\ ~g.calling BY <1>2, <1>5, <1>8
  <2>2. depth - Level(f) = depth - 1 /\ Level(g) = 0 BY <1>1, <2>1 DEF Level
  <2>3. StackOK(Append(Front(stack), g), (depth - Level(f)) + Level(g))
    BY <1>4, <2>1, StackPush
  <2>4. (depth - Level(f)) + Level(g) = depth - 1 /\ depth - 1 <= MaxDepth
    BY <1>3, <1>4, <2>2, BoundsAssumption
  <2> QED BY <1>1, <1>6, <1>8, <2>3, <2>4, StackKeeps
<1> QED BY <1>7, <1>8

LEMMA ReturnKeeps ==
  ASSUME NInv, Return
  PROVE  NInv'
<1> DEFINE f == Last(stack)
<1>1. CASE /\ f.native \in Predicates \cup {"map", "reduce"}
           /\ \E e \in Elements :
                ReturnValue(e, f.native \in Predicates => e \in {"true", "false"}, 0)
  <2>1. PICK e \in Elements :
          ReturnValue(e, f.native \in Predicates => e \in {"true", "false"}, 0)
    BY <1>1
  <2>2. (f.native \in Predicates => e \in {"true", "false"}) => AnswerFits(f, e)
    BY <1>1 DEF AnswerFits, Predicates
  <2> HIDE DEF f
  <2> QED BY <2>1, <2>2, ReturnValueKeeps DEF f
<1>2. CASE f.native = "flatMap" /\ ReturnValue(<<>>, FALSE, 0) BY <1>2, ReturnValueKeeps
<1>3. ASSUME f.native = "flatMap", NEW a \in DOMAIN arrays,
             ReturnValue(arrays[a], TRUE, Len(arrays[a]))
      PROVE  NInv'
  <2>1. arrays[a] \in Seq(Value) /\ Len(arrays[a]) \in Nat BY ContainersStay
  <2>2. AnswerFits(f, arrays[a]) BY <1>3, <2>1 DEF AnswerFits, Predicates
  <2> HIDE DEF f
  <2> QED BY <1>3, <2>1, <2>2, ReturnValueKeeps DEF f
<1> QED BY <1>1, <1>2, <1>3 DEF Return, Innermost

LEMMA RaiseKeeps ==
  ASSUME NInv, Raise
  PROVE  NInv'
<1> DEFINE refusal == Refusal(Cost(FALSE, 0, 0, 0), 1)
<1>1. Fail(refusal) /\ calls' = calls BY DEF Raise
<1>2. refusal \in Outcomes BY RefusalIs
<1> HIDE DEF refusal
<1> QED BY <1>1, <1>2, FailKeeps DEF NInv, CountersOK

\* What a native has collected is an array.
LEMMA CollectedType ==
  ASSUME NEW f, FrameOK(f), f.native \in Collectors
  PROVE  f.built \in Seq(Value) /\ Len(f.built) \in Nat
<1>1. /\ f \in Frame /\ f.answers \in Seq(Answer) /\ f.elements \in Seq(Value)
      /\ f.built = Defined(f) /\ AnswersFit(f)
      /\ Len(f.asked) <= Len(f.elements)
      /\ Len(f.asked) = Len(f.answers) + (IF f.calling THEN 1 ELSE 0)
  BY DEF FrameOK, Frame
<1>2. f.built \in Seq(Value)
  <2>1. CASE f.native = "map"
    <3>1. f.built = f.answers /\ f.answers \in Seq(Elements)
      BY <1>1, <2>1 DEF Defined, AnswersFit
    <3>2. Elements \subseteq Value BY DEF Value
    <3> QED BY <3>1, <3>2, SeqMonotonic
  <2>2. CASE f.native = "filter"
    <3> DEFINE n == Len(f.answers)
    <3>1. f.built = InOrderOf(Accepted(f), f.elements) BY <1>1, <2>2 DEF Defined
    <3>2. n \in Nat /\ n <= Len(f.elements) /\ Len(f.elements) \in Nat
      <4>1. n \in Nat /\ Len(f.elements) \in Nat BY <1>1
      <4>2. Len(f.asked) = n \/ Len(f.asked) = n + 1
        <5>1. CASE f.calling BY <1>1, <5>1
        <5>2. CASE ~f.calling
          <6>1. Len(f.asked) = n + 0 BY <1>1, <5>2
          <6> QED BY <4>1, <6>1
        <5> QED BY <5>1, <5>2
      <4> HIDE DEF n
      <4>3. \A x, y, z \in Nat : (y = x \/ y = x + 1) /\ y <= z => x <= z OBVIOUS
      <4>4. Len(f.asked) \in Nat BY <4>1, <4>2
      <4>5. n <= Len(f.elements) BY <1>1, <4>1, <4>2, <4>3, <4>4
      <4> QED BY <4>1, <4>5
    <3>3. Accepted(f) \in SUBSET (1..n) BY <1>1 DEF Accepted
    <3>4. \A i \in 1..n : f.elements[i] \in Value BY <1>1, <3>2
    <3> HIDE DEF n
    <3> QED BY <3>1, <3>2, <3>3, <3>4, InOrderType
  <2>3. CASE f.native = "flatMap"
    <3>1. f.built = FlattenSeq(f.answers) /\ f.answers \in Seq(Seq(Value))
      BY <1>1, <2>3 DEF Defined, AnswersFit
    <3>2. <<>> \in Seq(Value) BY EmptySeq
    <3>3. FlattenSeq(f.answers) \in Seq(Value) BY <3>1, <3>2, FlattenAppend
    <3> QED BY <3>1, <3>3
  <2> QED BY <2>1, <2>2, <2>3 DEF Collectors
<1> QED BY <1>2

LEMMA FinishNativeKeeps ==
  ASSUME NInv, FinishNative
  PROVE  NInv'
<1> DEFINE f == Last(stack)
           charge == 1 + Len(f.built)
           refusal == Refusal(Cost(TRUE, 0, 0, charge), 0)
<1>1. /\ stack # <<>> /\ ~f.calling /\ calls' = calls
      /\ f.native \notin Collectors =>
           stack' = Front(stack)
           /\ UNCHANGED <<arrays, maps, range, depth, steps, charged, cancelled, outcome>>
      /\ f.native \in Collectors =>
           IF refusal # "none"
           THEN Fail(refusal)
           ELSE /\ stack' = Front(stack)
                /\ arrays' = Append(arrays, f.built)
                /\ charged' = charged + charge
                /\ UNCHANGED <<maps, range, depth, steps, cancelled, outcome>>
  BY DEF FinishNative, NativeRuns, Innermost, NewArray, data
<1>2. /\ refusal = "none" \/ refusal \in Outcomes
      /\ refusal = "none" => ~(charged + charge > MaxElements)
  BY RefusalIs
<1>3. StackOK(stack, depth) /\ depth <= MaxDepth BY DEF NInv
<1>4. FrameOK(f) /\ StackOK(Front(stack), depth)
  <2>1. /\ FrameOK(f) /\ StackOK(Front(stack), depth - Level(f)) /\ depth \in Nat
    BY <1>1, <1>3, StackTop
  <2>2. depth - Level(f) = depth BY <1>1, <2>1 DEF Level
  <2> QED BY <2>1, <2>2
<1>5. calls' \in Nat BY <1>1 DEF NInv, CountersOK
<1>6. CASE f.native \notin Collectors
  <2>1. steps' \in Nat BY <1>1, <1>6 DEF NInv, CountersOK
  <2>2. StackOK(stack', depth') /\ depth' <= MaxDepth BY <1>1, <1>3, <1>4, <1>6
  <2> QED BY <1>1, <1>5, <1>6, <2>1, <2>2, StackKeeps
<1>7. CASE f.native \in Collectors /\ refusal # "none"
  BY <1>1, <1>2, <1>5, <1>7, FailKeeps
<1>8. CASE f.native \in Collectors /\ refusal = "none"
  <2>1. f.built \in Seq(Value) /\ Len(f.built) \in Nat BY <1>4, <1>8, CollectedType
  <2> DEFINE c == f.built
  <2>2. ContainersOK(Append(arrays, c), maps, charged + (1 + Len(c)))
    <3> HIDE DEF c
    <3>1. c \in Seq(Value) BY <2>1 DEF c
    <3> QED BY <3>1, ContainersStay, ContainersGrow
  <2>3. ContainersOK(arrays', maps', charged') BY <1>1, <1>8, <2>2
  <2>4. charged' <= MaxElements
    <3>1. charged \in Nat /\ charge \in Nat /\ MaxElements \in Nat
      BY <2>1, ContainersStay, BoundsAssumption
    <3>2. charged' = charged + charge /\ ~(charged + charge > MaxElements)
      BY <1>1, <1>2, <1>8
    <3> HIDE DEF charge
    <3> QED BY <3>1, <3>2
  <2>5. StackOK(stack', depth') /\ depth' <= MaxDepth BY <1>1, <1>3, <1>4, <1>8
  <2>6. CountersOK' /\ RangeOK(range')
    BY <1>1, <1>5, <1>8 DEF NInv, CountersOK
  <2> QED BY <2>3, <2>4, <2>5, <2>6 DEF NInv
<1> QED BY <1>6, <1>7, <1>8

-----------------------------------------------------------------------------
(* The theorems.                                                           *)

LEMMA InitSound == Init => NInv
<1> SUFFICES ASSUME Init PROVE NInv OBVIOUS
<1>1. PICK s \in FirstArrays : arrays = <<s>> BY DEF Init
<1>2. PICK entries \in FirstMaps : maps = <<NormalizeMapEntries(entries)>> BY DEF Init
<1> DEFINE normal == NormalizeMapEntries(entries)
<1>3. s \in Seq(Value)
  <2>1. s \in Seq(Elements) BY InputsAssumption
  <2>2. Elements \subseteq Value BY DEF Value
  <2> QED BY <2>1, <2>2, SeqMonotonic
<1>4. normal \in Seq(Entry) /\ KeysDiffer(normal)
  <2>1. entries \in Seq(Entry) BY InputsAssumption DEF Entry
  <2> QED BY <2>1, NormalizeGives
<1>5. maps = <<normal>> BY <1>2
<1> HIDE DEF normal
<1>6. /\ arrays[1] = s /\ maps[1] = normal /\ charged = 2 + Len(arrays[1]) + Len(maps[1])
      /\ charged <= MaxElements /\ range = NewRange(0, 0, 1)
      /\ stack = <<>> /\ depth = 0 /\ steps = 0 /\ cancelled = FALSE /\ calls = 0
      /\ outcome = "running"
  BY <1>1, <1>5 DEF Init
<1>7. ContainersOK(<<>>, <<>>, 0)
  <2>1. <<>> \in Seq(Seq(Value)) /\ <<>> \in Seq(Seq(Entry)) /\ Len(<<>>) = 0 BY EmptySeq
  <2>2. SizesUpTo(<<>>)[0] = 0
    <3>1. <<>> \in Seq(Seq(Value)) BY <2>1
    <3> QED BY <3>1, SizesDef
  <2>3. Sizes(<<>>) = 0 BY <2>1, <2>2 DEF Sizes
  <2> QED BY <2>1, <2>3 DEF ContainersOK
<1>8. ContainersOK(Append(<<>>, s), <<>>, 0 + (1 + Len(s)))
  BY <1>3, <1>7, ContainersGrow
<1>9. ContainersOK(Append(<<>>, s), Append(<<>>, normal), 0 + (1 + Len(s)) + (1 + Len(normal)))
  BY <1>4, <1>8, ContainersGrow
<1>10. ContainersOK(arrays, maps, charged)
  <2>1. Append(<<>>, s) = <<s>> /\ Append(<<>>, normal) = <<normal>> OBVIOUS
  <2>2. Len(s) \in Nat /\ Len(normal) \in Nat BY <1>3, <1>4
  <2>3. 0 + (1 + Len(s)) + (1 + Len(normal)) = 2 + Len(s) + Len(normal) BY <2>2
  <2> QED BY <1>1, <1>5, <1>6, <1>9, <2>1, <2>3
<1>11. RangeOK(range) BY <1>6 DEF NewRange, RangeOK
<1>12. CountersOK BY <1>6 DEF CountersOK, Outcomes
<1>13. StackOK(stack, depth) /\ depth <= MaxDepth BY <1>6, EmptyStack, BoundsAssumption
<1> QED BY <1>6, <1>10, <1>11, <1>12, <1>13 DEF NInv

LEMMA NextKeeps == NInv /\ [Next]_vars => NInv'
<1> SUFFICES ASSUME NInv, [Next]_vars PROVE NInv' OBVIOUS
<1>1. CASE ArrayStep BY <1>1, ArrayStepKeeps
<1>2. CASE MapStep BY <1>2, MapStepKeeps
<1>3. CASE \E input \in RangeInputs : RangeCall(input[1], input[2], input[3])
  BY <1>3, RangeCallKeeps
<1>4. CASE CallbackStep
  <2>1. CASE \E native \in Natives, a \in DOMAIN arrays :
               \E initial \in IF native = "reduce" THEN Elements ELSE {"none"} :
                 CallNative(native, a, initial)
    BY <2>1, CallNativeKeeps
  <2>2. CASE CallFunction BY <2>2, CallFunctionKeeps
  <2>3. CASE Return BY <2>3, ReturnKeeps
  <2>4. CASE Raise BY <2>4, RaiseKeeps
  <2>5. CASE FinishNative BY <2>5, FinishNativeKeeps
  <2> QED BY <1>4, <2>1, <2>2, <2>3, <2>4, <2>5 DEF CallbackStep
<1>5. CASE Cancel
  <2>1. /\ cancelled' = TRUE
        /\ UNCHANGED <<arrays, maps, range, stack, depth, steps, charged, calls, outcome>>
    BY <1>5 DEF Cancel, data
  <2> QED BY <2>1 DEF NInv, CountersOK
<1>6. CASE UNCHANGED vars BY <1>6 DEF vars, NInv, CountersOK
<1> QED BY <1>1, <1>2, <1>3, <1>4, <1>5, <1>6 DEF Next

\* Containers, budget, range, natives and call depth stay sound, whatever the
\* program and its callbacks do.
THEOREM NativeInvariant == Spec => []NInv
<1>1. Init => NInv BY InitSound
<1>2. NInv /\ [Next]_vars => NInv' BY NextKeeps
<1> QED BY <1>1, <1>2, PTL DEF Spec

\* The containers are whole, the keys of a map differ, the call depth is the
\* number of callbacks, and what the containers hold is within what was charged
\* and the element budget.
THEOREM ContainersSound == Spec => []ContentSound
<1>1. NInv => ContentSound
  <2> SUFFICES ASSUME NInv PROVE ContentSound OBVIOUS
  <2>1. /\ arrays \in Seq(Seq(Elements \cup Keys)) /\ maps \in Seq(Seq(Keys \X Elements))
        /\ \A m \in DOMAIN maps : KeysDiffer(maps[m])
        /\ charged \in Nat
        /\ Sizes(arrays) + Sizes(maps) <= charged /\ charged <= MaxElements
    BY DEF NInv, ContainersOK, Value, Entry
  <2>2. range.length \in Nat BY RangeLengthType DEF NInv, RangeOK
  <2>3. /\ steps \in Nat /\ calls \in Nat /\ cancelled \in BOOLEAN
        /\ outcome \in {"running", "error", "cancelled", "steps", "elements", "depth"}
    BY DEF NInv, CountersOK, Outcomes
  <2>4. depth = Cardinality({i \in DOMAIN stack : stack[i].calling}) /\ depth <= MaxDepth
    BY DEF NInv, StackOK, Calling
  <2> QED BY <2>1, <2>2, <2>3, <2>4 DEF ContentSound, TypeOK, ContentBounded
<1> QED BY <1>1, NativeInvariant, PTL

\* What a native has asked is the beginning of what it walks.
LEMMA AskedIsPrefix ==
  ASSUME NEW f, FrameOK(f)
  PROVE  IsPrefix(f.asked, f.elements)
<1> DEFINE n == Len(f.asked)
<1>1. /\ f.asked \in Seq(Value) /\ f.elements \in Seq(Value) /\ n \in Nat
      /\ n <= Len(f.elements) /\ Len(f.elements) \in Nat
      /\ \A i \in 1..n : f.asked[i] = f.elements[i]
  BY DEF FrameOK, Frame
<1>2. f.asked = SubSeq(f.elements, 1, n)
  <2>1. \A i \in 1..n : f.elements[i] \in Value BY <1>1
  <2>2. /\ SubSeq(f.elements, 1, n) \in Seq(Value)
        /\ Len(SubSeq(f.elements, 1, n)) = IF 1 <= n THEN n - 1 + 1 ELSE 0
        /\ \A i \in 1..(n - 1 + 1) : SubSeq(f.elements, 1, n)[i] = f.elements[1 + i - 1]
    BY <1>1, <2>1, SubSeqProperties
  <2>3. n - 1 + 1 = n /\ (~(1 <= n) => n = 0) /\ \A i \in 1..n : 1 + i - 1 = i BY <1>1
  <2>4. /\ Len(SubSeq(f.elements, 1, n)) = n
        /\ \A i \in 1..n : SubSeq(f.elements, 1, n)[i] = f.elements[i]
    BY <2>2, <2>3
  <2> QED BY <1>1, <2>2, <2>4, SeqEqual
<1> QED BY <1>1, <1>2 DEF IsPrefix

\* Every native asks its callback for the elements its array had, in order and
\* no further than the answer that decides, and has computed what its
\* definition gives for the answers.
THEOREM CallbacksAreExact == Spec => []CallbacksExact
<1>1. NInv => CallbacksExact
  <2> SUFFICES ASSUME NInv, NEW i \in DOMAIN stack
               PROVE  LET f == stack[i]
                      IN  /\ IsPrefix(f.asked, f.elements)
                          /\ Len(f.asked) = Len(f.answers) + (IF f.calling THEN 1 ELSE 0)
                          /\ f.built = Defined(f)
                          /\ f.native \in {"any", "find", "findIndex"} =>
                                Accepted(f) \subseteq {Len(f.asked)}
                          /\ f.native = "all" => 1..(Len(f.asked) - 1) \subseteq Accepted(f)
    BY DEF CallbacksExact
  <2> DEFINE f == stack[i]
  <2>1. FrameOK(f) BY DEF NInv, StackOK
  <2> HIDE DEF f
  <2>2. IsPrefix(f.asked, f.elements) BY <2>1, AskedIsPrefix
  <2>3. /\ Len(f.asked) = Len(f.answers) + (IF f.calling THEN 1 ELSE 0)
        /\ f.built = Defined(f) /\ DecidedExact(f) /\ (f.calling => ~f.decided)
    BY <2>1 DEF FrameOK, Frame
  <2>4. Len(f.answers) \in Nat
    <3>1. f.answers \in Seq(Answer) BY <2>1 DEF FrameOK, Frame
    <3> QED BY <3>1
  <2>5. CASE f.calling
    <3>1. ~f.decided /\ Len(f.asked) = Len(f.answers) + 1 BY <2>3, <2>5
    <3>2. f.native \in {"any", "find", "findIndex"} => Accepted(f) = {}
      BY <2>3, <3>1 DEF DecidedExact
    <3>3. f.native = "all" => Accepted(f) = 1..Len(f.answers)
      BY <2>3, <3>1 DEF DecidedExact
    <3>4. Len(f.asked) - 1 = Len(f.answers) BY <2>4, <3>1
    <3> QED BY <2>2, <2>3, <3>2, <3>3, <3>4 DEF f
  <2>6. CASE ~f.calling
    <3>1. Len(f.asked) = Len(f.answers)
      <4>1. Len(f.asked) = Len(f.answers) + 0 BY <2>3, <2>6
      <4> QED BY <2>4, <4>1
    <3>2. /\ f.native \in {"any", "find", "findIndex"} =>
               Accepted(f) \subseteq {Len(f.asked)}
          /\ f.native = "all" => 1..(Len(f.asked) - 1) \subseteq Accepted(f)
      BY <2>3, <3>1 DEF DecidedExact
    <3> QED BY <2>2, <2>3, <3>2 DEF f
  <2> QED BY <2>5, <2>6
<1> QED BY <1>1, NativeInvariant, PTL

\* A merge finds what its maps say, keeps their order and every key that does
\* not equal itself, and a range holds the numbers it says it holds.
THEOREM CollectionsAreExact == Spec => []CollectionsExact
<1>1. NInv => CollectionsExact
  <2> SUFFICES ASSUME NInv PROVE CollectionsExact OBVIOUS
  <2>1. MergeExact BY ContainersStay, MergesExact
  <2>2. RangeExact BY RangesExact DEF NInv, RangeOK
  <2> QED BY <2>1, <2>2 DEF CollectionsExact
<1> QED BY <1>1, NativeInvariant, PTL
=============================================================================
