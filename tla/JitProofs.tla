------------------------------ MODULE JitProofs ------------------------------
(***************************************************************************)
(* What holds of the compiled functions of the virtual machine for every   *)
(* program, every capacity and every supply of handles: the code cache     *)
(* keeps to its capacity, and no handle outlives the code it names.        *)
(* After that, what holds of the control-flow graph and the dominance      *)
(* analysis of every instruction stream (ControlFlow, which Jit extends).  *)
(***************************************************************************)
EXTENDS Jit, WellFoundedInduction, FiniteSetTheorems, SequenceTheorems, TLAPS

\* Induction over the natural numbers, stated with a set.
LEMMA NatSetInduction ==
  ASSUME NEW P, 0 \in P, \A n \in Nat : n \in P => n + 1 \in P
  PROVE  Nat \subseteq P
<1> DEFINE Below == OpToRel(<, Nat)
           Rest == Nat \ P
<1>1. IsWellFoundedOn(Below, Nat) BY NatLessThanWellFounded
<1>2. \A n \in Rest : n - 1 \in Rest /\ <<n - 1, n>> \in Below BY DEF OpToRel
<1> HIDE DEF Below
<1> QED BY <1>1, <1>2, WFMin

-----------------------------------------------------------------------------
(* The bytes of emitted code.                                              *)

\* One emitted function adds its bytes, or fewer if it was there before.
LEMMA BytesOfOneMore ==
  ASSUME NEW E, IsFiniteSet(Bytes(E)), NEW x, x.bytes \in Nat
  PROVE  /\ IsFiniteSet(Bytes(E \cup {x}))
         /\ Cardinality(Bytes(E \cup {x})) <= Cardinality(Bytes(E)) + x.bytes
<1> DEFINE own == {x} \X (1..x.bytes)
           n == Cardinality(Bytes(E))
           m == Cardinality(own)
           both == Cardinality(Bytes(E) \cap own)
<1>1. Bytes(E \cup {x}) = Bytes(E) \cup own BY DEF Bytes
<1>2. IsFiniteSet(own) /\ m = x.bytes
  <2>1. 1 \in Int /\ x.bytes \in Int OBVIOUS
  <2>2. IsFiniteSet(1..x.bytes) /\ Cardinality(1..x.bytes) = x.bytes
    <3> DEFINE b == x.bytes
    <3>1. b \in Nat OBVIOUS
    <3> HIDE DEF b
    <3>2. IsFiniteSet(1..b) /\ Cardinality(1..b) = IF 1 > b THEN 0 ELSE b - 1 + 1
      BY <3>1, FS_Interval
    <3>3. IsFiniteSet(1..b) /\ Cardinality(1..b) = b BY <3>1, <3>2
    <3> QED BY <3>3 DEF b
  <2>3. IsFiniteSet({x}) /\ Cardinality({x}) = 1 BY FS_Singleton
  <2>4. IsFiniteSet(own) /\ m = Cardinality({x}) * Cardinality(1..x.bytes)
    BY <2>2, <2>3, FS_Product
  <2> HIDE DEF m
  <2> QED BY <2>2, <2>3, <2>4
<1> HIDE DEF own
<1>3. IsFiniteSet(Bytes(E) \cup own) /\ Cardinality(Bytes(E) \cup own) = n + m - both
  BY <1>2, FS_Union
<1>4. IsFiniteSet(Bytes(E) \cap own) BY FS_Intersection
<1>5. n \in Nat /\ both \in Nat BY <1>4, FS_CardinalityType
<1> HIDE DEF n, m, both
<1>6. n + m - both <= n + x.bytes BY <1>2, <1>5
<1> QED BY <1>1, <1>3, <1>6 DEF n

LEMMA NoBytes == IsFiniteSet(Bytes({})) /\ Cardinality(Bytes({})) = 0
<1>1. Bytes({}) = {} BY DEF Bytes
<1> QED BY <1>1, FS_EmptySet

-----------------------------------------------------------------------------
(* The code cache.                                                         *)

\* Every entry is of the live module and is older than the next handle; the
\* handle it was published with was issued, and it was lowered.
EntriesLive ==
  /\ DOMAIN cache \subseteq Whitelist
  /\ \A f \in DOMAIN cache :
       /\ cache[f].module = module
       /\ cache[f].generation \in Nat /\ cache[f].generation < next
       /\ Handle("this", f, cache[f].generation, module) \in issued
       /\ Lowers(f)

\* No two handles of this cache have the same generation.
GenerationsUnique ==
  /\ \A h \in issued : h.owner = "this" => h.generation \in Nat /\ h.generation < next
  /\ \A g, h \in issued :
       g.owner = "this" /\ h.owner = "this" /\ g.generation = h.generation => g = h

\* What was emitted fits what was reserved for it.
BytesReserved ==
  /\ used \in Nat /\ used <= Capacity
  /\ IsFiniteSet(Bytes(emitted)) /\ Cardinality(Bytes(emitted)) <= used

CodeInv ==
  /\ next \in 0..Generations /\ module \in Nat
  /\ EntriesLive /\ GenerationsUnique /\ BytesReserved

code == <<cache, used, next, module, emitted, issued>>

LEMMA InitCode == Init => CodeInv
<1> SUFFICES ASSUME Init PROVE CodeInv OBVIOUS
<1> USE JitAssumption DEF Init
<1>1. EntriesLive
  <2>1. DOMAIN cache = {} OBVIOUS
  <2> QED BY <2>1 DEF EntriesLive
<1>2. GenerationsUnique BY DEF GenerationsUnique, Handle
<1>3. BytesReserved BY NoBytes DEF BytesReserved
<1> QED BY <1>1, <1>2, <1>3 DEF CodeInv

\* The module goes, with all entries and everything emitted.
LEMMA DiscardedCode ==
  ASSUME CodeInv, cache' = <<>>, used' = 0, emitted' = {}, UNCHANGED issued,
         module' \in {0, module + 1}, next' \in {next, next + 1}, next' <= Generations
  PROVE  CodeInv'
<1> USE JitAssumption DEF CodeInv
<1>1. DOMAIN cache' = {} OBVIOUS
<1>2. EntriesLive' BY <1>1 DEF EntriesLive
<1>3. GenerationsUnique' BY DEF GenerationsUnique
<1>4. BytesReserved' BY NoBytes DEF BytesReserved
<1> QED BY <1>2, <1>3, <1>4

\* A published entry takes the next generation and its reserved bytes.
LEMMA PublishedCode ==
  ASSUME CodeInv, NEW f \in DOMAIN Functions, f \in Whitelist, Lowers(f), f \notin DOMAIN cache,
         Functions[f].estimate <= Remaining, next < Generations,
         Functions[f].machine \in 1..Functions[f].estimate, Publish(f)
  PROVE  CodeInv'
<1> USE JitAssumption, FunctionsAssumption DEF CodeInv
<1>1. Functions[f].estimate \in Nat OBVIOUS
<1>2. EntriesLive'
  <2> DEFINE entry == [generation |-> next, bytes |-> Functions[f].estimate, module |-> module]
  <2>0. cache' = [g \in DOMAIN cache \cup {f} |-> IF g = f THEN entry ELSE cache[g]]
    BY DEF Publish
  <2>2. entry.generation = next /\ entry.module = module OBVIOUS
  <2> HIDE DEF entry
  <2>1. DOMAIN cache' = DOMAIN cache \cup {f} /\ cache'[f] = entry BY <2>0
  <2>3. \A g \in DOMAIN cache : cache'[g] = cache[g] BY <2>0
  <2>4. module' = module /\ next' = next + 1 BY DEF Publish
  <2>5. issued' = issued \cup {Handle("this", f, next, module)} BY DEF Publish
  <2>6. \A g : Lowers(g)' <=> Lowers(g) BY DEF Lowers
  <2> QED BY <2>1, <2>2, <2>3, <2>4, <2>5, <2>6 DEF EntriesLive
<1>3. GenerationsUnique' BY DEF GenerationsUnique, Publish, Handle
<1>4. BytesReserved'
  <2> DEFINE x == [function |-> f, bytes |-> Functions[f].machine]
  <2>1. emitted' = emitted \cup {x} /\ used' = used + Functions[f].estimate BY DEF Publish
  <2>2. x.bytes \in Nat /\ x.bytes <= Functions[f].estimate OBVIOUS
  <2>3. Cardinality(Bytes(emitted)) \in Nat BY FS_CardinalityType DEF BytesReserved
  <2> HIDE DEF x
  <2>4. /\ IsFiniteSet(Bytes(emitted \cup {x}))
        /\ Cardinality(Bytes(emitted \cup {x})) <= Cardinality(Bytes(emitted)) + x.bytes
    BY <2>2, BytesOfOneMore DEF BytesReserved
  <2>5. Cardinality(Bytes(emitted \cup {x})) \in Nat BY <2>4, FS_CardinalityType
  <2>6. Bytes(emitted)' = Bytes(emitted \cup {x}) BY <2>1 DEF Bytes
  <2> QED BY <1>1, <2>1, <2>2, <2>3, <2>4, <2>5, <2>6 DEF BytesReserved, Remaining
<1> QED BY <1>2, <1>3, <1>4 DEF Publish

LEMMA UnchangedCode == ASSUME CodeInv, UNCHANGED code PROVE CodeInv'
BY DEF CodeInv, code, EntriesLive, GenerationsUnique, BytesReserved, Lowers, Bytes

\* Whatever comes of asking for a function, the cache stays sound; a function
\* that is to run compiled has an entry.
LEMMA AdmittedCode ==
  ASSUME CodeInv, NEW f \in DOMAIN Functions, NEW mode, NEW how, Admit(f, mode, how)
  PROVE  CodeInv' /\ (how = "compiled" => f \in DOMAIN cache')
<1> USE JitAssumption, FunctionsAssumption
<1>1. CASE Unchanged /\ (how = "fallback" \/ f \in DOMAIN cache)
  <2>1. CodeInv' BY <1>1, UnchangedCode DEF Unchanged, code
  <2> QED BY <1>1, <2>1 DEF Unchanged
<1>2. CASE /\ how = "fallback" /\ next' = next + 1 /\ next < Generations
           /\ UNCHANGED <<cache, used, module, emitted, issued>>
  <2> USE <1>2 DEF CodeInv
  <2>1. next' \in 0..Generations /\ module' \in Nat /\ next \in Nat OBVIOUS
  <2>2. EntriesLive'
    <3>1. \A g : Lowers(g)' <=> Lowers(g) BY DEF Lowers
    <3> QED BY <2>1, <3>1 DEF EntriesLive
  <2>3. GenerationsUnique' BY <2>1 DEF GenerationsUnique
  <2>4. BytesReserved' BY DEF BytesReserved, Bytes
  <2> QED BY <2>1, <2>2, <2>3, <2>4
<1>3. CASE how = "fallback" /\ next < Generations /\ TooLarge(f)
  BY <1>3, DiscardedCode DEF TooLarge, CodeInv
<1>4. CASE /\ Eligible(f, mode) /\ f \notin DOMAIN cache /\ Lowers(f)
           /\ Functions[f].estimate <= Remaining /\ next < Generations
           /\ Functions[f].machine \in 1..Functions[f].estimate /\ Publish(f)
  <2>1. CodeInv' BY <1>4, PublishedCode DEF Eligible
  <2> QED BY <1>4, <2>1 DEF Publish
<1>5. \/ how = "compiled" /\ f \in DOMAIN cache /\ Unchanged
      \/ how = "fallback" /\ Unchanged
      \/ /\ Eligible(f, mode) /\ f \notin DOMAIN cache /\ Lowers(f)
         /\ Functions[f].estimate <= Remaining /\ next < Generations
         /\ \/ /\ how = "fallback" /\ next' = next + 1
               /\ UNCHANGED <<cache, used, module, emitted, issued>>
            \/ how = "fallback" /\ TooLarge(f)
            \/ Functions[f].machine \in 1..Functions[f].estimate /\ Publish(f)
  <2> HIDE DEF Unchanged
  <2> QED BY Zenon DEF Admit
<1> QED BY <1>1, <1>2, <1>3, <1>4, <1>5

LEMMA NextCode == ASSUME CodeInv, [Next]_vars PROVE CodeInv'
<1> USE JitAssumption
<1>1. CASE Clear
  BY <1>1, DiscardedCode DEF Clear, ClearCache, CodeInv
<1>2. CASE Call BY <1>2, AdmittedCode DEF Call
<1>3. CASE CompiledStep \/ CompiledReturn \/ LeaveCompiled \/ InterpretedStep \/ InterpretedEnd
  BY <1>3, UnchangedCode
  DEF CompiledStep, CompiledReturn, LeaveCompiled, InterpretedStep, InterpretedEnd, KeepCode, code
<1>4. CASE Cancel \/ Answer \/ UNCHANGED vars
  BY <1>4, UnchangedCode DEF Cancel, Answer, vars, code
<1> QED BY <1>1, <1>2, <1>3, <1>4 DEF Next

\* The code cache is sound in every reachable state.
LEMMA CodeSound == Spec => []CodeInv
BY InitCode, NextCode, PTL DEF Spec

\* The handle an entry was published with is the only one of its generation,
\* so what a handle resolves to is the code it was issued for.
THEOREM HandlesAreCurrent == Spec => []HandlesCurrent
<1>1. CodeInv => HandlesCurrent
  <2> SUFFICES ASSUME CodeInv, NEW h \in issued, CodeOf(h) # NoCode
               PROVE  /\ CodeOf(h) = [function |-> h.function, module |-> h.born]
                      /\ h.born = module
    BY DEF HandlesCurrent
  <2>1. /\ h.owner = "this" /\ h.function \in DOMAIN cache
        /\ cache[h.function].generation = h.generation
        /\ CodeOf(h) = [function |-> h.function, module |-> cache[h.function].module]
    BY DEF CodeOf
  <2> DEFINE own == Handle("this", h.function, cache[h.function].generation, module)
  <2>2. own \in issued /\ cache[h.function].module = module BY <2>1 DEF CodeInv, EntriesLive
  <2>3. own.owner = "this" /\ own.generation = h.generation /\ own.born = module
    BY <2>1 DEF Handle
  <2> HIDE DEF own
  <2>4. own = h BY <2>1, <2>2, <2>3 DEF CodeInv, GenerationsUnique
  <2> QED BY <2>1, <2>2, <2>3, <2>4
<1> QED BY <1>1, CodeSound, PTL

-----------------------------------------------------------------------------
(* The reference: the interpreter, instruction by instruction.             *)

\* The recursion of Interpreted unfolds.
LEMMA InterpretedDef ==
  ASSUME NEW f, NEW args, NEW start, NEW n \in Nat, Len(Functions[f].code) = n
  PROVE  /\ Interpreted(f, args, start)[0] = Begun(f, start)
         /\ \A k \in 1..n : Interpreted(f, args, start)[k]
                              = InterpretOne(f, args, k, Interpreted(f, args, start)[k - 1])
<1> DEFINE One(s, k) == InterpretOne(f, args, k, s)
           b == Begun(f, start)
           Rule(g, m) == [k \in 0..m |-> IF k = 0 THEN b ELSE One(g[k - 1], k)]
           Good == {m \in Nat : \E g : g = Rule(g, m)}
<1> HIDE DEF b, One
<1>1. 0 \in Good
  <2>1. [k \in 0..0 |-> b] = Rule([k \in 0..0 |-> b], 0) OBVIOUS
  <2> QED BY <2>1
<1>2. ASSUME NEW m \in Nat, m \in Good PROVE m + 1 \in Good
  <2>1. PICK g : g = Rule(g, m) BY <1>2
  <2> DEFINE h == [k \in 0..(m + 1) |-> IF k <= m THEN g[k] ELSE One(g[k - 1], k)]
  <2>2. \A k \in 0..m : g[k] = IF k = 0 THEN b ELSE One(g[k - 1], k) BY <2>1
  <2>3. \A k \in 0..m : h[k] = g[k] OBVIOUS
  <2>4. \A k \in 1..(m + 1) : h[k - 1] = g[k - 1] OBVIOUS
  <2>5. \A k \in 0..(m + 1) : h[k] = IF k = 0 THEN b ELSE One(h[k - 1], k)
    <3> TAKE k \in 0..(m + 1)
    <3>1. CASE k <= m BY <3>1, <2>2, <2>3, <2>4
    <3>2. CASE k = m + 1 BY <3>2, <2>4
    <3> QED BY <3>1, <3>2
  <2> HIDE DEF h
  <2>6. h = Rule(h, m + 1) BY <2>5 DEF h
  <2>7. \E x : x = Rule(x, m + 1)
    <3> HIDE DEF Rule
    <3> WITNESS h
    <3> QED BY <2>6
  <2> HIDE DEF Rule
  <2> QED BY <2>7
<1>3. n \in Good BY <1>1, <1>2, NatSetInduction
<1>4. PICK g : g = Rule(g, n) BY <1>3
<1> DEFINE t == Interpreted(f, args, start)
<1>5. t = Rule(t, n) BY <1>4 DEF Interpreted, One, b
<1> HIDE DEF t
<1>6. t[0] = b /\ \A k \in 1..n : t[k] = One(t[k - 1], k) BY <1>5
<1> QED BY <1>6 DEF t, One, b

\* A call that has ended stays as it is.
LEMMA StaysEnded ==
  ASSUME NEW f, NEW args, NEW start, NEW n \in Nat, Len(Functions[f].code) = n,
         NEW k \in 0..n, ~ Interpreted(f, args, start)[k].running
  PROVE  Interpreted(f, args, start)[n] = Interpreted(f, args, start)[k]
<1> DEFINE t == Interpreted(f, args, start)
           Same == {d \in Nat : k + d <= n => t[k + d] = t[k]}
<1>1. \A j \in 1..n : t[j] = InterpretOne(f, args, j, t[j - 1]) BY InterpretedDef
<1>2. ~ t[k].running OBVIOUS
<1> HIDE DEF t
<1>3. 0 \in Same OBVIOUS
<1>4. ASSUME NEW d \in Nat, d \in Same PROVE d + 1 \in Same
  <2> SUFFICES ASSUME k + (d + 1) <= n PROVE t[k + (d + 1)] = t[k] OBVIOUS
  <2>1. t[k + d] = t[k] BY <1>4
  <2>2. k + (d + 1) \in 1..n /\ (k + (d + 1)) - 1 = k + d OBVIOUS
  <2>3. t[k + (d + 1)] = InterpretOne(f, args, k + (d + 1), t[k]) BY <1>1, <2>1, <2>2
  <2> QED BY <1>2, <2>3 DEF InterpretOne
<1>5. n - k \in Nat /\ k + (n - k) = n OBVIOUS
<1>6. n - k \in Same
  <2> HIDE DEF Same
  <2> QED BY <1>3, <1>4, <1>5, NatSetInduction
<1> QED BY <1>5, <1>6 DEF t

\* What may come of a call.
LEMMA OutcomesDef ==
  ASSUME NEW f, NEW args, NEW start, NEW stop, NEW n \in Nat, Len(Functions[f].code) = n
  PROVE  /\ \A k \in 0..n : ~ Interpreted(f, args, start)[k].running
              => Outcome(Interpreted(f, args, start)[k], Interpreted(f, args, start)[k].error)
                   \in Outcomes(f, args, start, stop)
         /\ Outcome(Interpreted(f, args, start)[n], Interpreted(f, args, start)[n].error)
                   \in Outcomes(f, args, start, stop)
         /\ \A k \in 0..n - 1 : stop /\ Interpreted(f, args, start)[k].running
              => Outcome(Interpreted(f, args, start)[k], "cancelled") \in Outcomes(f, args, start, stop)
<1> DEFINE t == Interpreted(f, args, start)
<1>1. \A k \in 0..n : ~ t[k].running => t[n] = t[k] BY StaysEnded
<1>2. Outcomes(f, args, start, stop)
        = {Outcome(t[n], t[n].error)}
            \cup {Outcome(t[k], "cancelled") : k \in {j \in 0..n - 1 : stop /\ t[j].running}}
  BY DEF Outcomes
<1> HIDE DEF t
<1>3. /\ \A k \in 0..n : ~ t[k].running => Outcome(t[k], t[k].error) \in Outcomes(f, args, start, stop)
      /\ Outcome(t[n], t[n].error) \in Outcomes(f, args, start, stop)
      /\ \A k \in 0..n - 1 : stop /\ t[k].running
           => Outcome(t[k], "cancelled") \in Outcomes(f, args, start, stop)
  BY <1>1, <1>2
<1> QED BY <1>3 DEF t

\* A token that is set later only adds to it.
LEMMA OutcomesGrow ==
  ASSUME NEW f, NEW args, NEW start, NEW stop, NEW later, stop => later
  PROVE  Outcomes(f, args, start, stop) \subseteq Outcomes(f, args, start, later)
<1> DEFINE t == Interpreted(f, args, start)
           n == Len(Functions[f].code)
           Stops(token) == {Outcome(t[k], "cancelled") :
                              k \in {j \in 0..n - 1 : token /\ t[j].running}}
<1>1. \A token : Outcomes(f, args, start, token) = {Outcome(t[n], t[n].error)} \cup Stops(token)
  BY DEF Outcomes
<1> HIDE DEF t, n
<1>2. Stops(stop) \subseteq Stops(later) OBVIOUS
<1> QED BY <1>1, <1>2

-----------------------------------------------------------------------------
(* The call that runs.                                                     *)

\* A call at work stands where the interpreter would after as many
\* instructions.
Working(c, n) == [running |-> TRUE, error |-> "none", result |-> Nil, steps |-> n, regs |-> c.regs]

AtWork ==
  /\ call.error = "none" /\ call.result = Nil
  /\ Interpreted(call.function, call.args, call.start)[call.at - 1] = Working(call, steps)

\* In compiled code every register that was written holds a handle to the
\* value the frame's register has.
HandlesMirror ==
  /\ Lowers(call.function) /\ call.at <= Len(Functions[call.function].code)
  /\ call.values \in Seq(ToSet(call.values))
  /\ \A j \in 1..call.at - 1 :
       LET d == Functions[call.function].code[j].dest
           n == call.handles[d].n
       IN n \in 1..Len(call.values) /\ call.values[n] = call.regs[d]

Ended == [error |-> call.error, result |-> call.result, steps |-> steps]
           \in Outcomes(call.function, call.args, call.start, cancelled)

CallFields ==
  /\ call = [phase |-> call.phase, function |-> call.function, args |-> call.args, at |-> call.at,
             regs |-> call.regs, values |-> call.values, handles |-> call.handles,
             error |-> call.error, start |-> call.start, result |-> call.result]
  /\ call.phase \in {"compiled", "returned", "interpreted", "done"}
  /\ call.function \in DOMAIN Functions
  /\ call.at \in 1..Len(Functions[call.function].code) + 1
  /\ DOMAIN call.regs = 1..Functions[call.function].regs
  /\ DOMAIN call.handles = 1..Functions[call.function].regs

CallInv ==
  call # NoCall =>
    /\ CallFields
    /\ call.phase \in {"compiled", "interpreted"} => AtWork
    /\ call.phase = "compiled" => HandlesMirror
    /\ call.phase = "returned" => IF call.error = "fallback" THEN call.result = Nil ELSE Ended
    /\ call.phase = "done" => Ended

\* What the next instruction makes of a call at work.
Result == Compute(call.function, call.args, Now, Operands(call.regs))

LEMMA NextInstruction ==
  ASSUME CallFields, AtWork, call.at <= Len(Functions[call.function].code)
  PROVE  /\ cancelled => [error |-> "cancelled", result |-> Nil, steps |-> steps]
                            \in Outcomes(call.function, call.args, call.start, cancelled)
         /\ steps >= Limit => [error |-> "limit", result |-> Nil, steps |-> steps]
                            \in Outcomes(call.function, call.args, call.start, cancelled)
         /\ ~(steps >= Limit) /\ Now.op = "Return" =>
              [error |-> "none", result |-> Operands(call.regs)[1], steps |-> steps + 1]
                            \in Outcomes(call.function, call.args, call.start, cancelled)
         /\ ~(steps >= Limit) /\ Now.op # "Return" /\ Result.kind # "ok" =>
              [error |-> Result.kind, result |-> Nil, steps |-> steps + 1]
                            \in Outcomes(call.function, call.args, call.start, cancelled)
         /\ ~(steps >= Limit) /\ Now.op # "Return" /\ Result.kind = "ok" =>
              Interpreted(call.function, call.args, call.start)[call.at]
                = [running |-> TRUE, error |-> "none", result |-> Nil, steps |-> steps + 1,
                   regs |-> [call.regs EXCEPT ![Now.dest] = Result.value]]
<1> DEFINE f == call.function
           n == Len(Functions[f].code)
           t == Interpreted(f, call.args, call.start)
           k == call.at
           w == Working(call, steps)
           all == Outcomes(f, call.args, call.start, cancelled)
<1>1. n \in Nat BY FunctionsAssumption DEF CallFields
<1>2. k \in 1..n /\ k - 1 \in 0..n - 1 /\ k \in 0..n BY <1>1 DEF CallFields
<1>3. t[k] = InterpretOne(f, call.args, k, t[k - 1])
  <2> HIDE DEF k
  <2> QED BY <1>1, <1>2, InterpretedDef
<1>4. t[k - 1] = w BY DEF AtWork
<1>5. /\ ~ t[k].running => Outcome(t[k], t[k].error) \in all
      /\ cancelled /\ t[k - 1].running => Outcome(t[k - 1], "cancelled") \in all
  <2> HIDE DEF k
  <2> QED BY <1>1, <1>2, OutcomesDef
<1>6. Functions[f].code[k] = Now BY DEF Now
<1> HIDE DEF t, all
<1>7. cancelled => [error |-> "cancelled", result |-> Nil, steps |-> steps] \in all
  BY <1>4, <1>5 DEF Outcome, Working
<1>8. [j \in DOMAIN Now.args |-> w.regs[Now.args[j]]] = Operands(call.regs)
  BY DEF Operands, Working
<1>9. t[k] = IF steps >= Limit THEN [w EXCEPT !.running = FALSE, !.error = "limit"]
             ELSE IF Now.op = "Return"
                  THEN [w EXCEPT !.running = FALSE, !.result = Operands(call.regs)[1], !.steps = @ + 1]
             ELSE IF Result.kind # "ok"
                  THEN [w EXCEPT !.running = FALSE, !.error = Result.kind, !.steps = @ + 1]
             ELSE [w EXCEPT !.regs[Now.dest] = Result.value, !.steps = @ + 1]
  <2> DEFINE i  == Functions[f].code[k]
             vs == [j \in DOMAIN i.args |-> w.regs[i.args[j]]]
             o  == Compute(f, call.args, i, vs)
  <2>1. w.running /\ w.steps = steps BY DEF Working
  <2>2. i = Now BY <1>6
  <2>3. vs = Operands(call.regs) BY <1>8, <2>2
  <2> HIDE DEF vs
  <2>4. o = Result BY <2>2, <2>3 DEF Result
  <2>5. InterpretOne(f, call.args, k, w)
          = IF ~ w.running THEN w
            ELSE IF w.steps >= Limit THEN [w EXCEPT !.running = FALSE, !.error = "limit"]
            ELSE IF i.op = "Return" THEN [w EXCEPT !.running = FALSE, !.result = vs[1], !.steps = @ + 1]
            ELSE IF o.kind # "ok" THEN [w EXCEPT !.running = FALSE, !.error = o.kind, !.steps = @ + 1]
            ELSE [w EXCEPT !.regs[i.dest] = o.value, !.steps = @ + 1]
    BY DEF InterpretOne, vs
  <2> HIDE DEF w, i, o
  <2> QED BY <1>3, <1>4, <2>1, <2>2, <2>3, <2>4, <2>5
<1> QED BY <1>5, <1>7, <1>9 DEF Outcome, Working, t, all

-----------------------------------------------------------------------------
(* Every step keeps the call faithful.                                     *)

LEMMA ThreeMoreValues ==
  ASSUME NEW s, s \in Seq(ToSet(s)), NEW a, NEW b, NEW c
  PROVE  /\ s \o <<a, b, c>> \in Seq(ToSet(s \o <<a, b, c>>))
         /\ Len(s \o <<a, b, c>>) = Len(s) + 3 /\ Len(s) \in Nat
         /\ \A i \in 1..Len(s) : (s \o <<a, b, c>>)[i] = s[i]
         /\ (s \o <<a, b, c>>)[Len(s) + 3] = c
<1> DEFINE t == s \o <<a, b, c>>
           S == ToSet(s) \cup {a, b, c}
<1>1. s \in Seq(S) /\ <<a, b, c>> \in Seq(S)
  <2>1. \A i \in 1..Len(s) : s[i] \in S BY DEF ToSet
  <2> QED BY <2>1
<1>2. /\ t \in Seq(S) /\ Len(t) = Len(s) + 3
      /\ \A i \in 1..Len(s) : t[i] = s[i]
      /\ t[Len(s) + 3] = c
  <2> HIDE DEF S
  <2> QED BY <1>1
<1> HIDE DEF t
<1>3. DOMAIN t = 1..Len(t) BY <1>2
<1>4. \A i \in 1..Len(t) : t[i] \in ToSet(t) BY <1>3 DEF ToSet
<1>5. t \in Seq(ToSet(t)) BY <1>2, <1>3, <1>4
<1>6. Len(s) \in Nat OBVIOUS
<1> QED BY <1>2, <1>5, <1>6 DEF t

\* A call starts in front of its first instruction.
LEMMA CallStarts == ASSUME CodeInv, Call PROVE CallInv'
<1>1. PICK f \in DOMAIN Functions, mode \in Modes, how \in {"compiled", "fallback"} :
        \E args \in Arguments[f] :
          /\ Admit(f, mode, how)
          /\ call' = [phase |-> IF how = "compiled" THEN "compiled" ELSE "interpreted",
                      function |-> f, args |-> args, at |-> 1,
                      regs |-> Registers(f), values |-> args, handles |-> Registers(f),
                      error |-> "none", start |-> steps, result |-> Nil]
  BY DEF Call
<1>2. PICK args \in Arguments[f] :
          /\ Admit(f, mode, how)
          /\ call' = [phase |-> IF how = "compiled" THEN "compiled" ELSE "interpreted",
                      function |-> f, args |-> args, at |-> 1,
                      regs |-> Registers(f), values |-> args, handles |-> Registers(f),
                      error |-> "none", start |-> steps, result |-> Nil]
  BY <1>1
<1> DEFINE n == Len(Functions[f].code)
<1>3. n \in Nat /\ args \in Seq(ToSet(args)) BY FunctionsAssumption
<1>4. DOMAIN Registers(f) = 1..Functions[f].regs BY DEF Registers
<1>5. CallFields' BY <1>2, <1>3, <1>4 DEF CallFields
<1>6. AtWork'
  <2>1. Interpreted(f, args, steps)[0] = Begun(f, steps) BY <1>3, InterpretedDef
  <2>2. steps' = steps BY DEF Call
  <2> QED BY <1>2, <2>1, <2>2 DEF AtWork, Working, Begun
<1>7. how = "compiled" => HandlesMirror'
  <2> SUFFICES ASSUME how = "compiled" PROVE HandlesMirror' OBVIOUS
  <2>1. CodeInv' /\ f \in DOMAIN cache' BY <1>2, AdmittedCode
  <2>2. Lowers(f) BY <2>1 DEF CodeInv, EntriesLive, Lowers
  <2>3. 1 <= n BY <1>3, <2>2 DEF Lowers
  <2> QED BY <1>2, <1>3, <2>2, <2>3 DEF HandlesMirror, Lowers
<1> QED BY <1>2, <1>5, <1>6, <1>7 DEF CallInv

\* The operands of a helper are what the frame's registers hold.
LEMMA SameOperands ==
  ASSUME CallFields, HandlesMirror PROVE HelperOperands = Operands(call.regs)
<1> DEFINE body == Functions[call.function].code
<1>1. Len(body) \in Nat /\ DOMAIN body = 1..Len(body) BY FunctionsAssumption DEF CallFields
<1>2. call.at \in DOMAIN body /\ Now = body[call.at]
  BY SMTT(30), <1>1 DEF CallFields, HandlesMirror, Now
<1>3. ASSUME NEW k \in DOMAIN Now.args
      PROVE  call.values[call.handles[Now.args[k]].n] = call.regs[Now.args[k]]
  <2>1. Now.args[k] \in ToSet(Now.args) BY DEF ToSet
  <2>2. PICK j \in 1..call.at - 1 : body[j].dest = Now.args[k]
    BY <1>2, <2>1 DEF HandlesMirror, Lowers
  <2> QED BY <2>2 DEF HandlesMirror
<1> QED BY <1>3 DEF HelperOperands, Operands

\* A call that has failed, with what the interpreter would answer.
LEMMA CompiledFails ==
  ASSUME CallFields, call # NoCall, NEW e, Fail(e), cancelled' = cancelled,
         call.result = Nil,
         e = "fallback" \/ [error |-> e, result |-> Nil, steps |-> steps']
                             \in Outcomes(call.function, call.args, call.start, cancelled)
  PROVE  CallInv'
<1>1. call' = [phase |-> "returned", function |-> call.function, args |-> call.args, at |-> call.at,
               regs |-> call.regs, values |-> call.values, handles |-> call.handles,
               error |-> e, start |-> call.start, result |-> call.result]
  BY DEF Fail, CallFields
<1>2. CallFields' BY <1>1 DEF CallFields
<1>3. e # "fallback" => Ended' BY <1>1 DEF Ended
<1> QED BY <1>1, <1>2, <1>3 DEF CallInv

LEMMA CompiledGoesOn ==
  ASSUME CallFields, AtWork, HandlesMirror, call.phase = "compiled", Now.op # "Return",
         ~(steps >= Limit), steps' = steps + 1, Result.kind = "ok", StoreResult(Result.value)
  PROVE  CallInv'
<1> DEFINE body == Functions[call.function].code
           v == Result.value
           d == Now.dest
           more == call.values \o <<Nil, v, v>>
<1>1. Len(body) \in Nat /\ DOMAIN body = 1..Len(body) BY FunctionsAssumption DEF CallFields
<1>2. call.at \in DOMAIN body /\ Now = body[call.at] /\ body[call.at].dest = d
  BY SMTT(30), <1>1 DEF CallFields, HandlesMirror, Now
<1>3. d \in 1..Functions[call.function].regs
  BY <1>2, FunctionsAssumption DEF CallFields
<1>4. call.at # Len(body) BY <1>2 DEF HandlesMirror, Lowers
<1>5. call.at \in 1..Len(body) - 1 BY <1>1, <1>2, <1>4
<1>6. /\ more \in Seq(ToSet(more))
      /\ Len(more) = Len(call.values) + 3 /\ Len(call.values) \in Nat
      /\ \A i \in 1..Len(call.values) : more[i] = call.values[i]
      /\ more[Len(call.values) + 3] = v
  <2>1. call.values \in Seq(ToSet(call.values)) BY DEF HandlesMirror
  <2> HIDE DEF v
  <2> QED BY <2>1, ThreeMoreValues
<1>7. call' = [phase |-> "compiled", function |-> call.function, args |-> call.args,
               at |-> call.at + 1, regs |-> [call.regs EXCEPT ![d] = v], values |-> more,
               handles |-> [call.handles EXCEPT ![d] = Val("handle", Len(call.values) + 3)],
               error |-> call.error, start |-> call.start, result |-> call.result]
  BY DEF StoreResult, CallFields
<1>8. Interpreted(call.function, call.args, call.start)[call.at]
        = [running |-> TRUE, error |-> "none", result |-> Nil, steps |-> steps + 1,
           regs |-> [call.regs EXCEPT ![d] = v]]
  BY NextInstruction DEF HandlesMirror
<1> HIDE DEF v, d, more
<1>9. CallFields' BY <1>1, <1>5, <1>7 DEF CallFields
<1>10. (call.at + 1) - 1 = call.at BY <1>5
<1>11. AtWork' BY <1>7, <1>8, <1>10 DEF AtWork, Working
<1>12. HandlesMirror'
  <2>1. ASSUME NEW j \in 1..call.at
        PROVE  LET x == body[j].dest
                   n == call'.handles[x].n
               IN n \in 1..Len(more) /\ more[n] = call'.regs[x]
    <3>1. CASE body[j].dest = d
      <4>1. call'.handles[d].n = Len(call.values) + 3 /\ call'.regs[d] = v
        BY <1>3, <1>7 DEF CallFields, Val
      <4> QED BY <1>6, <3>1, <4>1
    <3>2. CASE body[j].dest # d
      <4>1. j \in 1..call.at - 1 BY <1>2, <1>5, <3>2
      <4>2. j \in DOMAIN body /\ j # Len(body) BY <1>1, <1>5, <4>1
      <4>8. body[j].op # "Return" BY <4>2 DEF HandlesMirror, Lowers
      <4>3. body[j].dest \in 1..Functions[call.function].regs
        BY <4>2, <4>8, FunctionsAssumption DEF CallFields
      <4>4. /\ call'.handles[body[j].dest] = call.handles[body[j].dest]
            /\ call'.regs[body[j].dest] = call.regs[body[j].dest]
        BY <1>7, <3>2, <4>3 DEF CallFields
      <4>5. LET n == call.handles[body[j].dest].n
            IN n \in 1..Len(call.values) /\ call.values[n] = call.regs[body[j].dest]
        BY <4>1 DEF HandlesMirror
      <4> DEFINE n == call.handles[body[j].dest].n
      <4>6. n \in 1..Len(call.values) /\ more[n] = call.values[n] BY <1>6, <4>5
      <4>7. n \in 1..Len(more)
        <5> HIDE DEF n
        <5> QED BY <1>6, <4>6
      <4> QED BY <4>4, <4>5, <4>6, <4>7
    <3> QED BY <3>1, <3>2
  <2>2. Lowers(call.function)' BY <1>7 DEF HandlesMirror, Lowers
  <2>3. call'.function = call.function /\ call'.values = more /\ call'.at = call.at + 1 BY <1>7
  <2>4. call'.at <= Len(body) /\ 1..call'.at - 1 = 1..call.at BY <1>5, <1>10, <2>3
  <2> QED BY <1>6, <2>1, <2>2, <2>3, <2>4 DEF HandlesMirror
<1> QED BY <1>7, <1>9, <1>11, <1>12 DEF CallInv

\* The helper answers what the interpreter would, or asks for it.
LEMMA HelperAnswers ==
  ASSUME CallFields, HandlesMirror
  PROVE  HelperResult = Result \/ HelperResult.kind = "fallback"
BY SameOperands DEF HelperResult, Result, Error

\* What the checkpoint lets pass, and what it answers when it does not.
LEMMA CheckpointAnswers ==
  /\ Checkpoint(steps).kind = "ok" <=> ~ cancelled /\ ~(steps >= Limit)
  /\ Checkpoint(steps).kind # "ok" =>
       \/ cancelled /\ Checkpoint(steps).kind = "cancelled"
       \/ steps >= Limit /\ Checkpoint(steps).kind = "limit"
BY DEF Checkpoint, Ok, Error

\* A refused instruction is where the interpreter would have stopped.
LEMMA RefusalIsOutcome ==
  ASSUME CallFields, AtWork, call.at <= Len(Functions[call.function].code),
         Checkpoint(steps).kind # "ok"
  PROVE  [error |-> Checkpoint(steps).kind, result |-> Nil, steps |-> steps]
           \in Outcomes(call.function, call.args, call.start, cancelled)
<1> HIDE DEF Checkpoint
<1> QED BY CheckpointAnswers, NextInstruction

LEMMA CompiledStepKeeps ==
  ASSUME CallInv, CompiledStep PROVE CallInv'
<1>0. call.phase = "compiled" /\ Now.op # "Return" /\ cancelled' = cancelled
  BY DEF CompiledStep, KeepCode
<1>1. /\ call # NoCall /\ CallFields /\ AtWork /\ HandlesMirror
      /\ call.at <= Len(Functions[call.function].code)
      /\ call.result = Nil /\ call.error = "none"
  <2>1. call # NoCall BY <1>0 DEF NoCall
  <2>2. CallFields /\ AtWork /\ HandlesMirror BY <1>0, <2>1 DEF CallInv
  <2>3. call.at <= Len(Functions[call.function].code) BY <2>2 DEF HandlesMirror
  <2>4. call.result = Nil /\ call.error = "none" BY <2>2 DEF AtWork
  <2> QED BY <2>1, <2>2, <2>3, <2>4
<1>2. CASE Checkpoint(steps).kind # "ok" /\ Fail(Checkpoint(steps).kind) /\ UNCHANGED steps
  <2>1. [error |-> Checkpoint(steps).kind, result |-> Nil, steps |-> steps']
           \in Outcomes(call.function, call.args, call.start, cancelled)
    BY <1>0, <1>1, <1>2, RefusalIsOutcome
  <2> QED BY <1>0, <1>1, <1>2, <2>1, CompiledFails
<1>3. CASE /\ Checkpoint(steps).kind = "ok" /\ steps' = steps + 1
           /\ HelperResult.kind # "ok" /\ Fail(HelperResult.kind)
  <2>1. CASE HelperResult.kind = "fallback" BY <1>0, <1>1, <1>3, <2>1, CompiledFails
  <2>2. CASE HelperResult = Result
    <3>1. [error |-> HelperResult.kind, result |-> Nil, steps |-> steps']
             \in Outcomes(call.function, call.args, call.start, cancelled)
      BY <1>0, <1>1, <1>3, <2>2, CheckpointAnswers, NextInstruction
    <3> QED BY <1>0, <1>1, <1>3, <3>1, CompiledFails
  <2> QED BY <1>0, <1>1, <2>1, <2>2, HelperAnswers
<1>4. CASE /\ Checkpoint(steps).kind = "ok" /\ steps' = steps + 1
           /\ HelperResult.kind = "ok" /\ StoreResult(HelperResult.value)
  <2>1. HelperResult = Result BY <1>0, <1>1, <1>4, HelperAnswers
  <2>2. ~(steps >= Limit) BY <1>4, CheckpointAnswers
  <2> QED BY <1>0, <1>1, <1>4, <2>1, <2>2, CompiledGoesOn
<1> QED BY <1>0, <1>2, <1>3, <1>4 DEF CompiledStep

LEMMA CompiledReturnKeeps ==
  ASSUME CallInv, CompiledReturn PROVE CallInv'
<1>0. call.phase = "compiled" /\ Now.op = "Return" /\ cancelled' = cancelled
  BY DEF CompiledReturn, KeepCode
<1> DEFINE answer == call.values[call.handles[Now.args[1]].n]
<1>1. /\ call # NoCall /\ CallFields /\ AtWork /\ HandlesMirror
      /\ call.at <= Len(Functions[call.function].code)
      /\ call.result = Nil /\ call.error = "none"
  <2>1. call # NoCall BY <1>0 DEF NoCall
  <2>2. CallFields /\ AtWork /\ HandlesMirror BY <1>0, <2>1 DEF CallInv
  <2>3. call.at <= Len(Functions[call.function].code) BY <2>2 DEF HandlesMirror
  <2>4. call.result = Nil /\ call.error = "none" BY <2>2 DEF AtWork
  <2> QED BY <2>1, <2>2, <2>3, <2>4
<1>2. CASE Checkpoint(steps).kind # "ok" /\ Fail(Checkpoint(steps).kind) /\ UNCHANGED steps
  <2>1. [error |-> Checkpoint(steps).kind, result |-> Nil, steps |-> steps']
           \in Outcomes(call.function, call.args, call.start, cancelled)
    BY <1>0, <1>1, <1>2, RefusalIsOutcome
  <2> QED BY <1>0, <1>1, <1>2, <2>1, CompiledFails
<1>3. CASE /\ Checkpoint(steps).kind = "ok" /\ steps' = steps + 1
           /\ call' = [call EXCEPT !.phase = "returned", !.result = answer]
  <2>1. 1 \in DOMAIN Now.args
    <3>1. Len(Functions[call.function].code) \in Nat BY FunctionsAssumption DEF CallFields
    <3>2. call.at \in DOMAIN Functions[call.function].code
      BY <1>0, <1>1, <3>1, FunctionsAssumption DEF CallFields
    <3> QED BY <1>0, <1>1, <3>2, FunctionsAssumption DEF CallFields, Now
  <2>2. HelperOperands[1] = Operands(call.regs)[1] BY <1>0, <1>1, SameOperands
  <2>3. answer = Operands(call.regs)[1] BY <2>1, <2>2 DEF HelperOperands
  <2>4. call' = [phase |-> "returned", function |-> call.function, args |-> call.args,
                 at |-> call.at, regs |-> call.regs, values |-> call.values,
                 handles |-> call.handles, error |-> "none", start |-> call.start,
                 result |-> answer]
    BY <1>0, <1>1, <1>3 DEF CallFields
  <2>5. [error |-> "none", result |-> answer, steps |-> steps']
          \in Outcomes(call.function, call.args, call.start, cancelled)
    <3> HIDE DEF answer
    <3> QED BY <1>0, <1>1, <1>3, <2>3, CheckpointAnswers, NextInstruction
  <2> HIDE DEF answer
  <2>6. CallFields' BY <1>0, <1>1, <2>4 DEF CallFields
  <2>7. Ended' BY <1>0, <1>1, <2>4, <2>5 DEF Ended
  <2> QED BY <2>4, <2>6, <2>7 DEF CallInv
<1> QED BY <1>0, <1>2, <1>3 DEF CompiledReturn

\* A call that asks for the interpreter starts over; another has ended.
LEMMA LeaveCompiledKeeps ==
  ASSUME CallInv, LeaveCompiled PROVE CallInv'
<1>0. /\ call.phase = "returned" /\ cancelled' = cancelled
      /\ IF call.error = "fallback"
         THEN /\ call' = [call EXCEPT !.phase = "interpreted", !.regs = Registers(call.function),
                                      !.at = 1, !.error = "none"]
              /\ steps' = call.start
         ELSE call' = [call EXCEPT !.phase = "done"] /\ UNCHANGED steps
  BY DEF LeaveCompiled, KeepCode
<1>1. call # NoCall /\ CallFields BY <1>0 DEF CallInv, NoCall
<1>2. CASE call.error = "fallback"
  <2>1. call' = [phase |-> "interpreted", function |-> call.function, args |-> call.args, at |-> 1,
                 regs |-> Registers(call.function), values |-> call.values,
                 handles |-> call.handles, error |-> "none", start |-> call.start,
                 result |-> Nil]
    BY <1>0, <1>1, <1>2 DEF CallFields, CallInv
  <2>2. DOMAIN Registers(call.function) = 1..Functions[call.function].regs BY DEF Registers
  <2>3. Len(Functions[call.function].code) \in Nat BY <1>1, FunctionsAssumption DEF CallFields
  <2>4. CallFields' BY <1>1, <2>1, <2>2, <2>3 DEF CallFields
  <2>5. Interpreted(call.function, call.args, call.start)[0] = Begun(call.function, call.start)
    BY <2>3, InterpretedDef
  <2>7. call'.at - 1 = 0 /\ call'.regs = Registers(call.function) /\ call'.result = Nil
    BY <2>1
  <2>6. AtWork' BY <2>7, <1>0, <1>2, <2>1, <2>4, <2>5 DEF AtWork, Working, Begun
  <2> QED BY <2>1, <2>4, <2>6 DEF CallInv
<1>3. CASE call.error # "fallback"
  <2>1. /\ call' = [phase |-> "done", function |-> call.function, args |-> call.args,
                    at |-> call.at, regs |-> call.regs, values |-> call.values,
                    handles |-> call.handles, error |-> call.error, start |-> call.start,
                    result |-> call.result]
        /\ steps' = steps
    BY <1>0, <1>1, <1>3 DEF CallFields
  <2>2. CallFields' BY <1>1, <2>1 DEF CallFields
  <2>3. Ended' BY <1>0, <1>1, <1>3, <2>1 DEF Ended, CallInv
  <2> QED BY <2>1, <2>2, <2>3 DEF CallInv
<1> QED BY <1>2, <1>3

\* An interpreted call that ends, with one of the outcomes.
LEMMA InterpretedEnds ==
  ASSUME CallFields, NEW e, NEW r, cancelled' = cancelled,
         call' = [call EXCEPT !.error = e, !.phase = "done", !.result = r],
         [error |-> e, result |-> r, steps |-> steps']
           \in Outcomes(call.function, call.args, call.start, cancelled)
  PROVE  CallInv'
<1>1. call' = [phase |-> "done", function |-> call.function, args |-> call.args, at |-> call.at,
               regs |-> call.regs, values |-> call.values, handles |-> call.handles,
               error |-> e, start |-> call.start, result |-> r]
  BY DEF CallFields
<1>2. CallFields' BY <1>1 DEF CallFields
<1>3. Ended' BY <1>1 DEF Ended
<1> QED BY <1>1, <1>2, <1>3 DEF CallInv

LEMMA InterpretedStepKeeps ==
  ASSUME CallInv, InterpretedStep PROVE CallInv'
<1>0. /\ call.phase = "interpreted" /\ cancelled' = cancelled
      /\ call.at <= Len(Functions[call.function].code)
  BY DEF InterpretedStep, KeepCode
<1>1. call # NoCall /\ CallFields /\ AtWork /\ call.result = Nil /\ call.error = "none"
  <2>1. call # NoCall BY <1>0 DEF NoCall
  <2>2. CallFields /\ AtWork BY <1>0, <2>1 DEF CallInv
  <2> QED BY <2>1, <2>2 DEF AtWork
<1>2. ASSUME NEW e, Done(e)
      PROVE  call' = [call EXCEPT !.error = e, !.phase = "done", !.result = Nil]
  BY <1>1, <1>2 DEF Done, CallFields
<1>3. CASE Checkpoint(steps).kind # "ok" /\ Done(Checkpoint(steps).kind) /\ UNCHANGED steps
  <2>1. [error |-> Checkpoint(steps).kind, result |-> Nil, steps |-> steps']
           \in Outcomes(call.function, call.args, call.start, cancelled)
    BY <1>0, <1>1, <1>3, RefusalIsOutcome
  <2> QED BY <1>0, <1>1, <1>2, <1>3, <2>1, InterpretedEnds
<1>4. CASE /\ Checkpoint(steps).kind = "ok" /\ steps' = steps + 1 /\ Now.op = "Return"
           /\ call' = [call EXCEPT !.phase = "done", !.result = Operands(call.regs)[1]]
  <2> DEFINE r == Operands(call.regs)[1]
  <2>1. [error |-> "none", result |-> r, steps |-> steps']
          \in Outcomes(call.function, call.args, call.start, cancelled)
    BY <1>0, <1>1, <1>4, CheckpointAnswers, NextInstruction
  <2>2. call' = [call EXCEPT !.error = "none", !.phase = "done", !.result = r]
    <3> HIDE DEF r
    <3> QED BY <1>1, <1>4 DEF CallFields, r
  <2> HIDE DEF r
  <2> QED BY <1>0, <1>1, <2>1, <2>2, InterpretedEnds
<1>5. CASE /\ Checkpoint(steps).kind = "ok" /\ steps' = steps + 1 /\ Now.op # "Return"
           /\ Result.kind # "ok" /\ Done(Result.kind)
  <2>1. [error |-> Result.kind, result |-> Nil, steps |-> steps']
          \in Outcomes(call.function, call.args, call.start, cancelled)
    BY <1>0, <1>1, <1>5, CheckpointAnswers, NextInstruction
  <2>2. call' = [call EXCEPT !.error = Result.kind, !.phase = "done", !.result = Nil]
    BY <1>2, <1>5
  <2> QED BY <1>0, <1>1, <2>1, <2>2, InterpretedEnds
<1>6. CASE /\ Checkpoint(steps).kind = "ok" /\ steps' = steps + 1 /\ Now.op # "Return"
           /\ Result.kind = "ok"
           /\ call' = [call EXCEPT !.regs[Now.dest] = Result.value, !.at = @ + 1]
  <2> DEFINE w == [call.regs EXCEPT ![Now.dest] = Result.value]
  <2>1. Interpreted(call.function, call.args, call.start)[call.at]
          = [running |-> TRUE, error |-> "none", result |-> Nil, steps |-> steps', regs |-> w]
    BY <1>0, <1>1, <1>6, CheckpointAnswers, NextInstruction
  <2>2. call' = [phase |-> "interpreted", function |-> call.function, args |-> call.args,
                 at |-> call.at + 1, regs |-> w, values |-> call.values,
                 handles |-> call.handles, error |-> "none", start |-> call.start,
                 result |-> Nil]
    BY <1>0, <1>1, <1>6 DEF CallFields
  <2>3. DOMAIN w = DOMAIN call.regs OBVIOUS
  <2>4. call.at \in Nat /\ call.at + 1 \in 1..Len(Functions[call.function].code) + 1
    BY <1>0, <1>1, FunctionsAssumption DEF CallFields
  <2> HIDE DEF w
  <2>5. CallFields' BY <1>1, <2>2, <2>3, <2>4 DEF CallFields
  <2>6. call'.at - 1 = call.at BY <2>2, <2>4
  <2>7. AtWork' BY <2>1, <2>2, <2>6 DEF AtWork, Working
  <2> QED BY <2>2, <2>5, <2>7 DEF CallInv
<1>7. InterpretedResult = Result BY DEF InterpretedResult, Result
<1>8. \/ Checkpoint(steps).kind # "ok" /\ Done(Checkpoint(steps).kind) /\ UNCHANGED steps
      \/ /\ Checkpoint(steps).kind = "ok" /\ steps' = steps + 1
         /\ \/ /\ Now.op = "Return"
               /\ call' = [call EXCEPT !.phase = "done", !.result = Operands(call.regs)[1]]
            \/ Now.op # "Return" /\ Result.kind # "ok" /\ Done(Result.kind)
            \/ /\ Now.op # "Return" /\ Result.kind = "ok"
               /\ call' = [call EXCEPT !.regs[Now.dest] = Result.value, !.at = @ + 1]
  BY <1>7 DEF InterpretedStep
<1> QED BY <1>3, <1>4, <1>5, <1>6, <1>8

\* Behind the last instruction the call stands where the interpreter ends.
LEMMA InterpretedEndKeeps ==
  ASSUME CallInv, InterpretedEnd PROVE CallInv'
<1> DEFINE n == Len(Functions[call.function].code)
<1>0. /\ call.phase = "interpreted" /\ cancelled' = cancelled /\ steps' = steps
      /\ call.at > n /\ Done("none")
  BY DEF InterpretedEnd, KeepCode
<1>1. call # NoCall /\ CallFields /\ AtWork
  <2>1. call # NoCall BY <1>0 DEF NoCall
  <2> QED BY <1>0, <2>1 DEF CallInv
<1>2. n \in Nat /\ call.at - 1 = n BY <1>0, <1>1, FunctionsAssumption DEF CallFields
<1>3. Interpreted(call.function, call.args, call.start)[n] = Working(call, steps)
  BY <1>1, <1>2 DEF AtWork
<1>4. [error |-> "none", result |-> Nil, steps |-> steps]
        \in Outcomes(call.function, call.args, call.start, cancelled)
  <2> HIDE DEF n
  <2>1. Outcome(Interpreted(call.function, call.args, call.start)[n],
                Interpreted(call.function, call.args, call.start)[n].error)
          \in Outcomes(call.function, call.args, call.start, cancelled)
    BY <1>2, OutcomesDef DEF n
  <2> QED BY <1>3, <2>1 DEF Outcome, Working
<1>5. call' = [call EXCEPT !.error = "none", !.phase = "done", !.result = Nil]
  BY <1>0, <1>1 DEF Done, CallFields, AtWork
<1> QED BY <1>0, <1>1, <1>4, <1>5, InterpretedEnds

\* A token that is set leaves what has been answered among the outcomes.
LEMMA CancelKeeps ==
  ASSUME CallInv, UNCHANGED <<call, steps>>, cancelled => cancelled' PROVE CallInv'
<1>1. Outcomes(call.function, call.args, call.start, cancelled)
        \subseteq Outcomes(call.function, call.args, call.start, cancelled')
  BY OutcomesGrow
<1>2. Ended => Ended' BY <1>1 DEF Ended
<1>3. (CallFields => CallFields') /\ (AtWork => AtWork')
  BY DEF CallFields, AtWork, Working
<1>4. HandlesMirror => HandlesMirror' BY DEF HandlesMirror, Lowers
<1> QED BY <1>2, <1>3, <1>4 DEF CallInv

LEMMA NextCall == ASSUME CodeInv, CallInv, [Next]_vars PROVE CallInv'
<1>1. CASE Clear BY <1>1, CancelKeeps DEF Clear
<1>2. CASE Cancel BY <1>2, CancelKeeps DEF Cancel
<1>3. CASE Answer BY <1>3 DEF Answer, CallInv
<1>4. CASE UNCHANGED vars BY <1>4, CancelKeeps DEF vars
<1> QED
  BY <1>1, <1>2, <1>3, <1>4, CallStarts, CompiledStepKeeps, CompiledReturnKeeps,
     LeaveCompiledKeeps, InterpretedStepKeeps, InterpretedEndKeeps DEF Next

LEMMA CallSound == Spec => [](CodeInv /\ CallInv)
<1>1. Init => CodeInv /\ CallInv BY InitCode DEF Init, CallInv
<1>2. CodeInv /\ CallInv /\ [Next]_vars => (CodeInv /\ CallInv)' BY NextCode, NextCall
<1> QED BY <1>1, <1>2, PTL DEF Spec

\* Value, error and charged steps of every call are the interpreter's: the
\* call at work mirrors the interpreter's state before the same instruction.
THEOREM CallsAsTheInterpreter == Spec => []CallsAsInterpreted
<1>1. CallInv => CallsAsInterpreted
  <2> SUFFICES ASSUME CallInv, call.phase = "done" PROVE Ended BY DEF CallsAsInterpreted, Ended
  <2>1. call # NoCall BY DEF NoCall
  <2> QED BY <2>1 DEF CallInv
<1> QED BY <1>1, CallSound, PTL

-----------------------------------------------------------------------------
(* The capacity.                                                           *)

\* A call that runs compiled has its entry.
CompiledCached == call.phase = "compiled" => call.function \in DOMAIN cache

LEMMA NextCached == ASSUME CodeInv, CompiledCached, CallInv, [Next]_vars PROVE CompiledCached'
<1>1. CASE Clear BY <1>1 DEF Clear, CompiledCached, NoCall
<1>2. CASE Call
  <2>1. PICK f \in DOMAIN Functions, mode \in Modes, how \in {"compiled", "fallback"} :
          /\ Admit(f, mode, how)
          /\ call'.phase = IF how = "compiled" THEN "compiled" ELSE "interpreted"
          /\ call'.function = f
    BY <1>2 DEF Call
  <2> QED BY <2>1, AdmittedCode DEF CompiledCached
<1>3. CASE CompiledStep \/ CompiledReturn \/ LeaveCompiled \/ InterpretedStep \/ InterpretedEnd
  <2>1. call # NoCall BY <1>3
    DEF CompiledStep, CompiledReturn, LeaveCompiled, InterpretedStep, InterpretedEnd, NoCall
  <2>2. CallFields BY <2>1 DEF CallInv
  <2>3. cache' = cache BY <1>3
    DEF CompiledStep, CompiledReturn, LeaveCompiled, InterpretedStep, InterpretedEnd, KeepCode
  <2>4. call'.phase = "compiled" => call.phase = "compiled" /\ call'.function = call.function
    BY <1>3, <2>2
    DEF CompiledStep, CompiledReturn, LeaveCompiled, InterpretedStep, InterpretedEnd,
        Fail, Done, StoreResult, CallFields
  <2> QED BY <2>3, <2>4 DEF CompiledCached
<1>4. CASE Answer BY <1>4 DEF Answer, CompiledCached, NoCall
<1>5. CASE Cancel \/ UNCHANGED vars BY <1>5 DEF Cancel, vars, CompiledCached
<1> QED BY <1>1, <1>2, <1>3, <1>4, <1>5 DEF Next

\* The entries are of the live module and the emitted bytes within what was
\* reserved, which is within the capacity.
THEOREM CacheIsBounded == Spec => []CacheBounded
<1>1. Init => CompiledCached BY DEF Init, CompiledCached, NoCall
<1>2. CodeInv /\ CallInv /\ CompiledCached => CacheBounded
  <2> SUFFICES ASSUME CodeInv, CallInv, CompiledCached PROVE CacheBounded OBVIOUS
  <2>1. call.phase \in {"none", "compiled", "returned", "interpreted", "done"}
    BY DEF CallInv, CallFields, NoCall
  <2>2. TypeOK BY <2>1 DEF TypeOK, CodeInv, EntriesLive, CompiledCached
  <2>3. ExecutableBounded BY DEF ExecutableBounded, CodeInv, BytesReserved
  <2> QED BY <2>2, <2>3 DEF CacheBounded
<1> QED BY <1>1, <1>2, NextCached, CallSound, PTL DEF Spec

-----------------------------------------------------------------------------
(***************************************************************************)
(* The second part is about ControlFlow, for every stream whose jumps lead *)
(* into it or to its end: its graph passes ControlFlowGraph::verify, and   *)
(* what the data-flow rounds, the choice of the immediate dominator and    *)
(* the climbs for the frontiers arrive at (src/src/Dominance.cpp) is what  *)
(* the paths of the graph define.  The functions that ControlFlow defines  *)
(* by recursion on a round's number are first shown to exist.              *)
(***************************************************************************)

\* Induction up to a bound.
LEMMA BoundedInduction ==
  ASSUME NEW n \in Nat, NEW P, 0 \in P, \A k \in 1..n : k - 1 \in P => k \in P
  PROVE  \A k \in 0..n : k \in P
<1> DEFINE Q == {k \in Nat : k <= n => k \in P}
<1>1. 0 \in Q OBVIOUS
<1>2. ASSUME NEW k \in Nat, k \in Q PROVE k + 1 \in Q
  <2>1. CASE k + 1 <= n
    <3>1. k + 1 \in 1..n /\ (k + 1) - 1 = k /\ k \in P BY <1>2, <2>1
    <3> QED BY <3>1
  <2> QED BY <2>1
<1>3. Nat \subseteq Q
  <2> HIDE DEF Q
  <2> QED BY <1>1, <1>2, NatSetInduction
<1> QED BY <1>3

\* f is given on 0..n by its value at 0 and a step from one value to the next.
StepsOn(step, X) == step \in [X \X Nat -> X]
GivenByStep(f, X, base, step, n) ==
    /\ f \in [0..n -> X]
    /\ f[0] = base
    /\ \A i \in 1..n : f[i] = step[<<f[i-1], i>>]

\* Such a function exists.
LEMMA FunctionByStep ==
  ASSUME NEW X, NEW base \in X, NEW step, StepsOn(step, X), NEW n \in Nat
  PROVE  \E f : GivenByStep(f, X, base, step, n)
<1>0. step \in [X \X Nat -> X] BY DEF StepsOn
<1> DEFINE Follows(f, k) == f[0] = base /\ \A i \in 1..k : f[i] = step[<<f[i-1], i>>]
           Good == {k \in Nat : \E f \in [0..k -> X] : Follows(f, k)}
<1>1. 0 \in Good
  <2>1. [i \in 0..0 |-> base] \in [0..0 -> X] /\ Follows([i \in 0..0 |-> base], 0) OBVIOUS
  <2> QED BY <2>1
<1>2. ASSUME NEW k \in Nat, k \in Good PROVE k + 1 \in Good
  <2>1. PICK f \in [0..k -> X] : Follows(f, k) BY <1>2
  <2> DEFINE last == step[<<f[k], k + 1>>]
             g == [i \in 0..(k+1) |-> IF i = k + 1 THEN last ELSE f[i]]
  <2>2. last \in X BY <1>0, <2>1
  <2> HIDE DEF last
  <2>3. g \in [0..(k+1) -> X] BY <2>1, <2>2
  <2>4. g[0] = base BY <2>1
  <2>5. ASSUME NEW i \in 1..(k+1) PROVE g[i] = step[<<g[i-1], i>>]
    <3>1. CASE i = k + 1
      <4>1. g[i] = last /\ g[i-1] = f[k] BY <3>1
      <4> QED BY <3>1, <4>1 DEF last
    <3>2. CASE i \in 1..k
      <4>1. g[i] = f[i] /\ g[i-1] = f[i-1] BY <3>2
      <4> QED BY <2>1, <3>2, <4>1
    <3> QED BY <3>1, <3>2
  <2> HIDE DEF g
  <2>6. Follows(g, k + 1) BY <2>4, <2>5
  <2> QED BY <2>3, <2>6
<1>3. n \in Good
  <2> HIDE DEF Good
  <2> QED BY <1>1, <1>2, NatSetInduction
<1> QED BY <1>3 DEF GivenByStep

-----------------------------------------------------------------------------
(* Lists and reachability.                                                 *)

\* A list put down entry by entry is the list.
LEMMA ListedIs ==
  ASSUME NEW n \in Nat, NEW f, f = [i \in 1..n |-> f[i]]
  PROVE  Listed(f) = f
<1>1. f \in Seq({f[i] : i \in 1..n}) OBVIOUS
<1> QED BY <1>1, ConcatEmptySeq DEF Listed

\* The rounds of Reached.
Rounds(entry, exit, succ) ==
  CHOOSE within : within = [k \in 0..exit |->
    IF k = 0 THEN {entry}
    ELSE LET before == within[k - 1] IN before \cup UNION {succ[b] : b \in before}]

\* The rounds are the recursive function they are defined by, and it exists.
LEMMA RoundsDef ==
  ASSUME NEW exit \in Nat, NEW entry \in 1..exit, NEW succ \in [1..exit -> SUBSET (1..exit)]
  PROVE  /\ Rounds(entry, exit, succ) \in [0..exit -> SUBSET (1..exit)]
         /\ Rounds(entry, exit, succ)[0] = {entry}
         /\ \A k \in 1..exit :
              Rounds(entry, exit, succ)[k]
                = Rounds(entry, exit, succ)[k - 1]
                    \cup UNION {succ[b] : b \in Rounds(entry, exit, succ)[k - 1]}
         /\ Reached(entry, exit, succ) = Rounds(entry, exit, succ)[exit]
<1> DEFINE B == 1..exit
           X == SUBSET B
           Out(S) == UNION {succ[b] : b \in S}
           step == [e \in X \X Nat |-> e[1] \cup Out(e[1])]
           Rule(f) == [k \in 0..exit |-> IF k = 0 THEN {entry} ELSE f[k - 1] \cup Out(f[k - 1])]
<1>1. \A S \in X : Out(S) \in X OBVIOUS
<1>2. {entry} \in X OBVIOUS
<1> HIDE DEF X, Out
<1>3. step \in [X \X Nat -> X]
  <2>1. \A S \in X : S \cup Out(S) \in X BY <1>1 DEF X
  <2> QED BY <2>1
<1>4. PICK f : GivenByStep(f, X, {entry}, step, exit)
  <2>1. StepsOn(step, X) BY <1>3 DEF StepsOn
  <2> HIDE DEF step
  <2> QED BY <1>2, <2>1, FunctionByStep
<1>5. \A i \in 1..exit : f[i] = f[i-1] \cup Out(f[i-1])
  <2> TAKE i \in 1..exit
  <2>1. <<f[i-1], i>> \in X \X Nat BY <1>4 DEF GivenByStep
  <2> QED BY <1>4, <2>1 DEF GivenByStep
<1>6. f = Rule(f)
  <2>1. \A k \in 0..exit : f[k] = IF k = 0 THEN {entry} ELSE f[k - 1] \cup Out(f[k - 1])
    <3>1. f[0] = {entry} BY <1>4 DEF GivenByStep
    <3>2. \A k \in 0..exit : k = 0 \/ (k # 0 /\ k \in 1..exit) OBVIOUS
    <3> QED BY <1>5, <3>1, <3>2
  <2>2. f \in [0..exit -> X] BY <1>4 DEF GivenByStep
  <2> QED BY <2>1, <2>2
<1> DEFINE w == Rounds(entry, exit, succ)
<1>7. w = Rule(w) BY <1>6 DEF Rounds, Out
<1> HIDE DEF w
<1>8. w[0] = {entry} /\ \A k \in 1..exit : w[k] = w[k - 1] \cup Out(w[k - 1])
  <2>1. \A k \in 0..exit : w[k] = Rule(w)[k] BY <1>7, Zenon
  <2>2. \A k \in 0..exit : w[k] = IF k = 0 THEN {entry} ELSE w[k - 1] \cup Out(w[k - 1]) BY <2>1
  <2>3. 0 \in 0..exit /\ \A k \in 1..exit : k \in 0..exit /\ k # 0 OBVIOUS
  <2> QED BY <2>2, <2>3
<1>9. w \in [0..exit -> X]
  <2> DEFINE P == {k \in 0..exit : w[k] \in X}
  <2>1. 0 \in P
    <3>1. 0 \in 0..exit /\ w[0] \in X BY <1>2, <1>8
    <3> QED BY <3>1
  <2>2. \A k \in 1..exit : k - 1 \in P => k \in P
    <3> TAKE k \in 1..exit
    <3>1. SUFFICES ASSUME w[k - 1] \in X PROVE w[k] \in X OBVIOUS
    <3>2. Out(w[k - 1]) \in X BY <1>1, <3>1
    <3> QED BY <1>8, <3>1, <3>2 DEF X
  <2> HIDE DEF P
  <2>3. \A k \in 0..exit : k \in P BY <2>1, <2>2, BoundedInduction
  <2>4. \A k \in 0..exit : w[k] \in X BY <2>3 DEF P
  <2> QED BY <1>7, <2>4
<1>10. Reached(entry, exit, succ) = w[exit] BY DEF Reached, Rounds, w
<1> QED BY <1>8, <1>9, <1>10 DEF X, Out, w

\* What is reached: the least set with the entry that nothing leads out of.
Leading(succ, S) == \A b \in S : succ[b] \subseteq S

\* Reached contains the entry, nothing leads out of it, and it is in every set of
\* that kind.
LEMMA ReachedDef ==
  ASSUME NEW exit \in Nat, NEW entry \in 1..exit, NEW succ \in [1..exit -> SUBSET (1..exit)]
  PROVE  /\ entry \in Reached(entry, exit, succ)
         /\ Reached(entry, exit, succ) \subseteq 1..exit
         /\ Leading(succ, Reached(entry, exit, succ))
         /\ \A S : entry \in S /\ Leading(succ, S \cap (1..exit)) => Reached(entry, exit, succ) \subseteq S
<1> DEFINE B == 1..exit
           w == Rounds(entry, exit, succ)
           Out(S) == UNION {succ[b] : b \in S}
<1>1. /\ w \in [0..exit -> SUBSET B]
      /\ w[0] = {entry}
      /\ \A k \in 1..exit : w[k] = w[k - 1] \cup Out(w[k - 1])
      /\ Reached(entry, exit, succ) = w[exit]
  BY RoundsDef
<1> HIDE DEF w
<1>2. exit \in 0..exit /\ 0 \in 0..exit OBVIOUS
<1>3. \A k \in 1..exit : k - 1 \in 0..exit /\ k \in 0..exit OBVIOUS
<1>4. entry \in w[exit]
  <2> DEFINE P == {k \in 0..exit : entry \in w[k]}
  <2>1. 0 \in P BY <1>1, <1>2
  <2>2. \A k \in 1..exit : k - 1 \in P => k \in P BY <1>1, <1>3
  <2> HIDE DEF P
  <2>3. exit \in P BY <1>2, <2>1, <2>2, BoundedInduction
  <2> QED BY <2>3 DEF P
<1>5. ASSUME NEW S, entry \in S, Leading(succ, S \cap B) PROVE w[exit] \subseteq S
  <2> DEFINE P == {k \in 0..exit : w[k] \subseteq S}
  <2>1. 0 \in P BY <1>1, <1>2, <1>5
  <2>2. \A k \in 1..exit : k - 1 \in P => k \in P
    <3> TAKE k \in 1..exit
    <3>1. SUFFICES ASSUME w[k - 1] \subseteq S PROVE w[k] \subseteq S BY <1>3
    <3>2. w[k - 1] \subseteq S \cap B BY <1>1, <1>3, <3>1
    <3>3. Out(w[k - 1]) \subseteq S BY <1>5, <3>2 DEF Leading
    <3> QED BY <1>1, <3>1, <3>3
  <2> HIDE DEF P
  <2>3. exit \in P BY <1>2, <2>1, <2>2, BoundedInduction
  <2> QED BY <2>3 DEF P
\* A round that adds nothing leaves a set nothing leads out of; the others
\* add a block each.
<1>6. Leading(succ, w[exit])
  <2> DEFINE P == {k \in 0..exit : Leading(succ, w[k]) \/ Cardinality(w[k]) >= k + 1}
  <2>1. \A k \in 0..exit : IsFiniteSet(w[k]) /\ Cardinality(w[k]) \in 0..exit
    <3> TAKE k \in 0..exit
    <3>1. IsFiniteSet(B) /\ Cardinality(B) = exit BY FS_Interval
    <3>2. w[k] \subseteq B BY <1>1
    <3>3. IsFiniteSet(w[k]) /\ Cardinality(w[k]) <= Cardinality(B) BY <3>1, <3>2, FS_Subset
    <3>4. Cardinality(w[k]) \in Nat BY <3>3, FS_CardinalityType
    <3> QED BY <3>1, <3>3, <3>4
  <2>2. 0 \in P
    <3>1. Cardinality(w[0]) = 1 BY <1>1, FS_Singleton
    <3> QED BY <1>2, <3>1
  <2>3. \A k \in 1..exit : k - 1 \in P => k \in P
    <3> TAKE k \in 1..exit
    <3>1. SUFFICES ASSUME k - 1 \in P PROVE Leading(succ, w[k]) \/ Cardinality(w[k]) >= k + 1 BY <1>3
    <3>2. CASE w[k] = w[k - 1]
      <4>1. Out(w[k - 1]) \subseteq w[k - 1] BY <1>1, <3>2
      <4> QED BY <3>2, <4>1 DEF Leading
    <3>3. CASE w[k] # w[k - 1]
      <4>1. w[k - 1] \subseteq w[k] BY <1>1
      <4>2. ~ Leading(succ, w[k - 1])
        <5>1. PICK x \in Out(w[k - 1]) : x \notin w[k - 1]
          <6>1. w[k] = w[k - 1] \cup Out(w[k - 1]) BY <1>1
          <6> HIDE DEF Out
          <6> QED BY <3>3, <6>1
        <5> QED BY <5>1 DEF Leading
      <4>3. Cardinality(w[k - 1]) >= k BY <3>1, <4>2
      <4>4. Cardinality(w[k - 1]) < Cardinality(w[k])
        <5>1. /\ IsFiniteSet(w[k])
              /\ Cardinality(w[k - 1]) \in Nat /\ Cardinality(w[k]) \in Nat
          BY <1>3, <2>1
        <5>2. /\ Cardinality(w[k - 1]) <= Cardinality(w[k])
              /\ Cardinality(w[k - 1]) = Cardinality(w[k]) => w[k - 1] = w[k]
          BY <4>1, <5>1, FS_Subset
        <5> QED BY <3>3, <5>1, <5>2
      <4>5. Cardinality(w[k - 1]) \in Nat /\ Cardinality(w[k]) \in Nat BY <1>3, <2>1
      <4> QED BY <4>3, <4>4, <4>5
    <3> QED BY <3>2, <3>3
  <2> HIDE DEF P
  <2>4. exit \in P BY <1>2, <2>2, <2>3, BoundedInduction
  <2>5. Cardinality(w[exit]) \in 0..exit BY <1>2, <2>1
  <2> QED BY <2>4, <2>5 DEF P
<1>7. w[exit] \subseteq B BY <1>1, <1>2
<1> QED BY <1>1, <1>4, <1>5, <1>6, <1>7

\* A block reached in a round is the entry or a successor of one reached before.
LEMMA RoundEnters ==
  ASSUME NEW exit \in Nat, NEW entry \in 1..exit, NEW succ \in [1..exit -> SUBSET (1..exit)],
         NEW n \in 1..exit, NEW b \in Rounds(entry, exit, succ)[n], b # entry
  PROVE  \E a \in Rounds(entry, exit, succ)[n - 1] : b \in succ[a]
<1> DEFINE w == Rounds(entry, exit, succ)
<1>1. /\ w[0] = {entry}
      /\ \A k \in 1..exit : w[k] = w[k - 1] \cup UNION {succ[a] : a \in w[k - 1]}
  BY RoundsDef
<1> HIDE DEF w
<1> DEFINE Q == {k \in 0..exit : k = 0 \/ \A x \in w[k] : x = entry \/ \E a \in w[k - 1] : x \in succ[a]}
<1>2. 0 \in Q OBVIOUS
<1>3. \A k \in 1..exit : k - 1 \in Q => k \in Q
  <2> TAKE k \in 1..exit
  <2>1. SUFFICES ASSUME k - 1 \in Q, NEW x \in w[k], x # entry
                 PROVE  \E a \in w[k - 1] : x \in succ[a]
    OBVIOUS
  <2>2. x \in w[k - 1] \/ \E a \in w[k - 1] : x \in succ[a] BY <1>1, <2>1
  <2>3. CASE x \in w[k - 1]
    <3>1. k - 1 # 0 BY <1>1, <2>1, <2>3
    <3>2. PICK a \in w[(k - 1) - 1] : x \in succ[a] BY <2>1, <2>3, <3>1
    <3>3. w[(k - 1) - 1] \subseteq w[k - 1]
      <4>1. k - 1 \in 1..exit BY <3>1
      <4> QED BY <1>1, <4>1
    <3> QED BY <3>2, <3>3
  <2> QED BY <2>2, <2>3
<1> HIDE DEF Q
<1>4. n \in 0..exit OBVIOUS
<1>5. n \in Q BY <1>2, <1>3, <1>4, BoundedInduction
<1> QED BY <1>5 DEF Q, w
-----------------------------------------------------------------------------
(* Dominance in a graph.                                                   *)

IsGraph(g) ==
  /\ g.exit \in Nat \ {0} /\ g.entry \in 1..g.exit
  /\ g.succ \in [1..g.exit -> SUBSET (1..g.exit)]
  /\ g.pred = [b \in 1..g.exit |-> {a \in 1..g.exit : b \in g.succ[a]}]
  /\ g.reachable = Reached(g.entry, g.exit, g.succ)

\* The reachable blocks of a graph, and the reachable predecessors of a block.
LEMMA ReachableDef ==
  ASSUME NEW g, IsGraph(g)
  PROVE  /\ g.entry \in g.reachable /\ g.reachable \subseteq 1..g.exit
         /\ \A x \in g.reachable : \A y \in g.succ[x] : y \in g.reachable
         /\ \A S : g.entry \in S /\ (\A x \in S \cap (1..g.exit) : \A y \in g.succ[x] : y \in S)
                    => g.reachable \subseteq S
         /\ \A b \in 1..g.exit : ReachablePred(g, b) = {a \in g.reachable : b \in g.succ[a]}
<1>1. /\ g.exit \in Nat /\ g.entry \in 1..g.exit /\ g.succ \in [1..g.exit -> SUBSET (1..g.exit)]
      /\ g.pred = [b \in 1..g.exit |-> {a \in 1..g.exit : b \in g.succ[a]}]
      /\ g.reachable = Reached(g.entry, g.exit, g.succ)
  BY DEF IsGraph
<1>2. /\ g.entry \in g.reachable /\ g.reachable \subseteq 1..g.exit
      /\ Leading(g.succ, g.reachable)
      /\ \A S : g.entry \in S /\ Leading(g.succ, S \cap (1..g.exit)) => g.reachable \subseteq S
  BY <1>1, ReachedDef
<1>3. ASSUME NEW S, g.entry \in S, \A x \in S \cap (1..g.exit) : \A y \in g.succ[x] : y \in S
      PROVE  g.reachable \subseteq S
  <2>1. Leading(g.succ, (S \cap (1..g.exit)))
    <3>1. ASSUME NEW x \in S \cap (1..g.exit) PROVE g.succ[x] \subseteq S \cap (1..g.exit) BY <1>1, <1>3
    <3> QED BY <3>1 DEF Leading
  <2> QED BY <1>2, <1>3, <2>1
<1> QED BY <1>1, <1>2, <1>3 DEF Leading, ReachablePred

\* What is reached without going through d.
Without(g, d) == [x \in 1..g.exit |-> IF x = d THEN {} ELSE g.succ[x] \ {d}]
Avoiding(g, d) == IF d = g.entry THEN {} ELSE Reached(g.entry, g.exit, Without(g, d))

\* What avoids d: nothing leads out of it but to d, and it is the least such set.
LEMMA AvoidingDef ==
  ASSUME NEW g, IsGraph(g), NEW d \in 1..g.exit
  PROVE  /\ d \notin Avoiding(g, d) /\ Avoiding(g, d) \subseteq g.reachable
         /\ d # g.entry => g.entry \in Avoiding(g, d)
         /\ d = g.entry => Avoiding(g, d) = {}
         /\ \A x \in Avoiding(g, d) : \A y \in g.succ[x] : y = d \/ y \in Avoiding(g, d)
         /\ \A S : g.entry \in S /\ (\A x \in S \cap g.reachable : \A y \in g.succ[x] : y = d \/ y \in S)
                    => Avoiding(g, d) \subseteq S
<1> DEFINE A == Avoiding(g, d)
           W == Without(g, d)
           B == 1..g.exit
<1>1. CASE d = g.entry BY <1>1 DEF Avoiding
<1>2. CASE d # g.entry
  <2>1. g.exit \in Nat /\ g.entry \in B /\ g.succ \in [B -> SUBSET B] BY DEF IsGraph
  <2>2. W \in [B -> SUBSET B] BY <2>1 DEF Without
  <2>3. \A x \in B : W[x] = IF x = d THEN {} ELSE g.succ[x] \ {d} BY DEF Without
  <2>4. A = Reached(g.entry, g.exit, W) BY <1>2 DEF Avoiding
  <2> HIDE DEF A, W
  <2>5. /\ g.entry \in A /\ A \subseteq B /\ Leading(W, A)
        /\ \A S : g.entry \in S /\ Leading(W, S \cap B) => A \subseteq S
    BY <2>1, <2>2, <2>4, ReachedDef
  <2>6. ASSUME NEW S, g.entry \in S, \A x \in S \cap B : x # d => \A y \in g.succ[x] : y = d \/ y \in S
        PROVE  A \subseteq S
    <3>1. Leading(W, (S \cap B))
      <4>1. ASSUME NEW x \in S \cap B PROVE W[x] \subseteq S \cap B BY <2>1, <2>3, <2>6
      <4> QED BY <4>1 DEF Leading
    <3> QED BY <2>5, <2>6, <3>1
  <2>7. A \subseteq g.reachable
    <3>1. /\ g.entry \in g.reachable
          /\ \A x \in g.reachable : \A y \in g.succ[x] : y \in g.reachable
      BY ReachableDef
    <3> QED BY <2>6, <3>1
  <2>8. d \notin A
    <3> DEFINE S == B \ {d}
    <3>1. g.entry \in S BY <1>2, <2>1
    <3>2. \A x \in S \cap B : x # d => \A y \in g.succ[x] : y = d \/ y \in S BY <2>1
    <3> HIDE DEF S
    <3>3. A \subseteq S BY <2>6, <3>1, <3>2
    <3> QED BY <3>3 DEF S
  <2>9. ASSUME NEW x \in A, NEW y \in g.succ[x] PROVE y = d \/ y \in A
    <3>1. x \in B /\ x # d /\ W[x] \subseteq A BY <2>5, <2>8 DEF Leading
    <3> QED BY <2>3, <2>9, <3>1
  <2>10. ASSUME NEW S, g.entry \in S, \A x \in S \cap g.reachable : \A y \in g.succ[x] : y = d \/ y \in S
         PROVE  A \subseteq S
    <3> DEFINE T == S \cap g.reachable
    <3>1. /\ g.entry \in g.reachable
          /\ \A x \in g.reachable : \A y \in g.succ[x] : y \in g.reachable
      BY ReachableDef
    <3>2. g.entry \in T BY <2>10, <3>1
    <3>3. \A x \in T \cap B : x # d => \A y \in g.succ[x] : y = d \/ y \in T BY <2>10, <3>1
    <3> HIDE DEF T
    <3>4. A \subseteq T BY <2>6, <3>2, <3>3
    <3> QED BY <3>4 DEF T
  <2> QED BY <1>2, <2>5, <2>7, <2>8, <2>9, <2>10 DEF A
<1> QED BY <1>1, <1>2

\* d dominates b: every path from the entry to b goes through d.
Above(g, d, b) == d \in g.reachable /\ b \in g.reachable /\ (d = b \/ b \notin Avoiding(g, d))

\* The entry dominates every reachable block and only the entry dominates it.
LEMMA EntryAbove ==
  ASSUME NEW g, IsGraph(g), NEW b \in g.reachable
  PROVE  /\ Above(g, g.entry, b) /\ Above(g, b, b)
         /\ \A d : Above(g, d, g.entry) => d = g.entry
<1>1. g.entry \in g.reachable /\ g.reachable \subseteq 1..g.exit BY ReachableDef
<1>2. Avoiding(g, g.entry) = {} BY <1>1, AvoidingDef
<1>3. \A d \in g.reachable : d # g.entry => g.entry \in Avoiding(g, d) BY <1>1, AvoidingDef
<1> QED BY <1>1, <1>2, <1>3 DEF Above

\* What dominates a block dominates its predecessors, unless it is the block.
LEMMA AbovePredecessor ==
  ASSUME NEW g, IsGraph(g), NEW d, NEW b, Above(g, d, b), d # b, NEW p \in g.reachable, b \in g.succ[p]
  PROVE  Above(g, d, p)
<1>1. d \in 1..g.exit BY ReachableDef DEF Above
<1>2. \A x \in Avoiding(g, d) : \A y \in g.succ[x] : y = d \/ y \in Avoiding(g, d) BY <1>1, AvoidingDef
<1> QED BY <1>2 DEF Above

\* Two blocks do not dominate each other.
LEMMA AboveAntisymmetric ==
  ASSUME NEW g, IsGraph(g), NEW c, NEW d, Above(g, c, d), Above(g, d, c)
  PROVE  c = d
<1> SUFFICES ASSUME c # d PROVE FALSE OBVIOUS
<1> DEFINE S == Avoiding(g, c) \cap Avoiding(g, d)
<1>1. c \in 1..g.exit /\ d \in 1..g.exit BY ReachableDef DEF Above
<1>2. c # g.entry /\ d # g.entry
  <2>1. c \in g.reachable /\ d \in g.reachable BY DEF Above
  <2> QED BY <2>1, EntryAbove
<1>3. g.entry \in S BY <1>1, <1>2, AvoidingDef
<1>4. d \notin Avoiding(g, c) /\ c \notin Avoiding(g, d) BY DEF Above
<1>5. /\ \A x \in Avoiding(g, c) : \A y \in g.succ[x] : y = c \/ y \in Avoiding(g, c)
      /\ \A x \in Avoiding(g, d) : \A y \in g.succ[x] : y = d \/ y \in Avoiding(g, d)
  BY <1>1, AvoidingDef
<1>6. \A x \in S \cap (1..g.exit) : \A y \in g.succ[x] : y \in S BY <1>4, <1>5
<1> HIDE DEF S
<1>7. g.reachable \subseteq S BY <1>3, <1>6, ReachableDef
<1>8. c \in S BY <1>7 DEF Above
<1> QED BY <1>4, <1>8 DEF S

\* A dominator's dominator is a dominator.
LEMMA AboveTransitive ==
  ASSUME NEW g, IsGraph(g), NEW a, NEW b, NEW c, Above(g, a, b), Above(g, b, c)
  PROVE  Above(g, a, c)
<1>1. CASE a = b \/ b = c BY <1>1
<1>2. CASE a = g.entry
  <2>1. c \in g.reachable BY DEF Above
  <2> QED BY <1>2, <2>1, EntryAbove
<1>3. CASE a # b /\ b # c /\ a # g.entry
  <2> DEFINE S == Avoiding(g, b)
  <2>1. a \in 1..g.exit /\ b \in 1..g.exit /\ b \in g.reachable BY ReachableDef DEF Above
  <2>2. b # g.entry BY <1>3, <2>1, EntryAbove
  <2>3. g.entry \in S \cap Avoiding(g, a) BY <1>3, <2>1, <2>2, AvoidingDef
  <2>4. b \notin Avoiding(g, a) BY <1>3 DEF Above
  <2>5. /\ \A x \in Avoiding(g, a) : \A y \in g.succ[x] : y = a \/ y \in Avoiding(g, a)
        /\ \A x \in Avoiding(g, b) : \A y \in g.succ[x] : y = b \/ y \in Avoiding(g, b)
    BY <2>1, AvoidingDef
  <2> DEFINE T == S \cap Avoiding(g, a)
  <2>6. \A x \in T \cap g.reachable : \A y \in g.succ[x] : y = a \/ y \in T BY <2>4, <2>5
  <2> HIDE DEF T
  <2>7. Avoiding(g, a) \subseteq T
    <3>1. g.entry \in T BY <2>3 DEF T
    <3> QED BY <2>1, <2>6, <3>1, AvoidingDef
  <2>8. c \notin Avoiding(g, b) BY <1>3 DEF Above
  <2> QED BY <2>7, <2>8 DEF T, Above
<1> QED BY <1>1, <1>2, <1>3

\* Two that dominate a block: one of them dominates the other.
LEMMA AboveChain ==
  ASSUME NEW g, IsGraph(g), NEW a, NEW b, NEW c, Above(g, a, c), Above(g, b, c)
  PROVE  Above(g, a, b) \/ Above(g, b, a)
<1> SUFFICES ASSUME ~ Above(g, a, b), ~ Above(g, b, a) PROVE FALSE OBVIOUS
<1> DEFINE S == Avoiding(g, a) \cup Avoiding(g, b)
<1>1. /\ a \in g.reachable /\ b \in g.reachable /\ c \in g.reachable
      /\ a \in 1..g.exit /\ b \in 1..g.exit
  BY ReachableDef DEF Above
<1>2. b \in Avoiding(g, a) /\ a \in Avoiding(g, b) BY <1>1 DEF Above
<1>3. /\ \A x \in Avoiding(g, a) : \A y \in g.succ[x] : y = a \/ y \in Avoiding(g, a)
      /\ \A x \in Avoiding(g, b) : \A y \in g.succ[x] : y = b \/ y \in Avoiding(g, b)
  BY <1>1, AvoidingDef
<1>4. g.entry \in S
  <2>1. a # g.entry BY <1>1, <1>2, AvoidingDef
  <2> QED BY <1>1, <2>1, AvoidingDef
<1>5. \A x \in S \cap (1..g.exit) : \A y \in g.succ[x] : y \in S BY <1>2, <1>3
<1> HIDE DEF S
<1>6. c \in S BY <1>1, <1>4, <1>5, ReachableDef
<1>7. (c = a \/ c \notin Avoiding(g, a)) /\ (c = b \/ c \notin Avoiding(g, b)) BY DEF Above
<1> QED BY <1>6, <1>7 DEF S

\* What dominates a block is finite, so there is always a closest one.
Dominating(g, b) == {d \in 1..g.exit : Above(g, d, b)}

\* A block has as many dominators as there are blocks, at the most.
LEMMA DominatingFinite ==
  ASSUME NEW g, IsGraph(g), NEW b
  PROVE  IsFiniteSet(Dominating(g, b)) /\ Cardinality(Dominating(g, b)) \in 0..g.exit
<1>1. IsFiniteSet(1..g.exit) /\ Cardinality(1..g.exit) = g.exit /\ g.exit \in Nat BY FS_Interval DEF IsGraph
<1>2. Dominating(g, b) \subseteq 1..g.exit BY DEF Dominating
<1>3. /\ IsFiniteSet(Dominating(g, b))
      /\ Cardinality(Dominating(g, b)) <= Cardinality(1..g.exit)
  BY <1>1, <1>2, FS_Subset
<1>4. Cardinality(Dominating(g, b)) \in Nat BY <1>3, FS_CardinalityType
<1> QED BY <1>1, <1>3, <1>4

\* A block has more dominators than any other that dominates it.
LEMMA AboveGrows ==
  ASSUME NEW g, IsGraph(g), NEW a, NEW b, Above(g, a, b), a # b
  PROVE  Cardinality(Dominating(g, a)) < Cardinality(Dominating(g, b))
<1>1. Dominating(g, a) \subseteq Dominating(g, b)
  <2>1. \A d : Above(g, d, a) => Above(g, d, b) BY AboveTransitive
  <2> QED BY <2>1 DEF Dominating
<1>2. b \in Dominating(g, b) /\ b \notin Dominating(g, a)
  <2>1. b \in g.reachable /\ b \in 1..g.exit BY ReachableDef DEF Above
  <2>2. Above(g, b, b) BY <2>1, EntryAbove
  <2>3. ~ Above(g, b, a) BY AboveAntisymmetric
  <2> QED BY <2>1, <2>2, <2>3 DEF Dominating
<1>3. /\ IsFiniteSet(Dominating(g, b))
      /\ Cardinality(Dominating(g, a)) \in Nat /\ Cardinality(Dominating(g, b)) \in Nat
  <2>1. g.exit \in Nat BY DEF IsGraph
  <2> QED BY <2>1, DominatingFinite
<1>4. /\ Cardinality(Dominating(g, a)) <= Cardinality(Dominating(g, b))
      /\ Cardinality(Dominating(g, b)) = Cardinality(Dominating(g, a)) => Dominating(g, b) = Dominating(g, a)
  BY <1>1, <1>3, FS_Subset
<1> QED BY <1>2, <1>3, <1>4

\* c is the immediate dominator of b.
Closest(g, c, b) == Above(g, c, b) /\ c # b /\ \A d : Above(g, d, b) /\ d # b => Above(g, d, c)

\* Every reachable block but the entry has an immediate dominator.
LEMMA ClosestExists ==
  ASSUME NEW g, IsGraph(g), NEW b \in g.reachable, b # g.entry
  PROVE  \E c : Closest(g, c, b)
<1> DEFINE Strict == {d \in 1..g.exit : Above(g, d, b) /\ d # b}
           Depth(d) == Cardinality(Dominating(g, d))
           P == {k \in Nat : \E d \in Strict : Depth(d) >= k}
<1>1. \A d : Depth(d) \in Nat /\ Depth(d) <= g.exit
  <2>1. g.exit \in Nat BY DEF IsGraph
  <2> QED BY <2>1, DominatingFinite
<1>2. g.exit \in Nat BY DEF IsGraph
<1> HIDE DEF Depth
<1>3. 0 \in P
  <2>1. Above(g, g.entry, b) BY EntryAbove
  <2>2. g.entry \in Strict BY <2>1, ReachableDef
  <2>3. Depth(g.entry) >= 0 BY <1>1
  <2> QED BY <2>2, <2>3
<1>4. g.exit + 1 \notin P
  <2>1. \A d : ~ (Depth(d) >= g.exit + 1) BY <1>1, <1>2
  <2> QED BY <2>1
<1>5. PICK n \in Nat : n \in P /\ n + 1 \notin P
  <2>1. g.exit + 1 \in Nat BY <1>2
  <2> HIDE DEF P
  <2> QED BY <1>3, <1>4, <2>1, NatSetInduction
<1>6. PICK c \in Strict : Depth(c) >= n BY <1>5
<1>7. ASSUME NEW d, Above(g, d, b), d # b PROVE Above(g, d, c)
  <2>1. d \in Strict BY <1>7, ReachableDef DEF Above
  <2>2. Above(g, d, c) \/ Above(g, c, d) BY <1>6, <1>7, AboveChain
  <2>3. CASE Above(g, c, d) /\ c # d
    <3>1. Depth(c) < Depth(d) BY <2>3, AboveGrows DEF Depth
    <3>2. Depth(d) >= n + 1 BY <1>1, <1>5, <1>6, <3>1
    <3> QED BY <1>5, <2>1, <3>2
  <2>4. CASE c = d BY <1>6, <2>4, EntryAbove DEF Above
  <2> QED BY <2>2, <2>3, <2>4
<1> QED BY <1>6, <1>7 DEF Closest

\* What strictly dominates a block is what dominates its immediate dominator, of
\* which there is one.
LEMMA ClosestDef ==
  ASSUME NEW g, IsGraph(g), NEW b, NEW c, Closest(g, c, b)
  PROVE  /\ \A d : Above(g, d, b) /\ d # b <=> Above(g, d, c)
         /\ \A d : Closest(g, d, b) => d = c
         /\ Cardinality(Dominating(g, c)) < Cardinality(Dominating(g, b))
<1>1. Above(g, c, b) /\ c # b BY DEF Closest
<1>2. ASSUME NEW d, Above(g, d, c) PROVE Above(g, d, b) /\ d # b
  <2>1. Above(g, d, b) BY <1>1, <1>2, AboveTransitive
  <2>2. d # b BY <1>1, <1>2, AboveAntisymmetric
  <2> QED BY <2>1, <2>2
<1>3. \A d : Closest(g, d, b) => Above(g, d, c) /\ Above(g, c, d) BY <1>1 DEF Closest
<1>4. \A d : Closest(g, d, b) => d = c BY <1>3, AboveAntisymmetric
<1>5. Cardinality(Dominating(g, c)) < Cardinality(Dominating(g, b)) BY <1>1, AboveGrows
<1> QED BY <1>2, <1>4, <1>5 DEF Closest

-----------------------------------------------------------------------------
(* The rounds of the dominators.                                           *)

\* PathDominators is the relation on paths.
LEMMA PathDominatorsDef ==
  ASSUME NEW g, IsGraph(g)
  PROVE  PathDominators(g) = [b \in 1..g.exit |-> Dominating(g, b)]
<1> DEFINE W(d) == [x \in 1..g.exit |-> IF x = d THEN {} ELSE g.succ[x] \ {d}]
           of == [d \in 1..g.exit |-> IF d = g.entry THEN {} ELSE Reached(g.entry, g.exit, W(d))]
           T(r) == [b \in 1..g.exit |-> {d \in g.reachable : b \in g.reachable /\ (d = b \/ b \notin r[d])}]
<1>1. g.exit \in Nat BY DEF IsGraph
<1>2. PathDominators(g) = Listed(T(Listed(of))) BY DEF PathDominators
<1>3. of = [d \in 1..g.exit |-> Avoiding(g, d)] BY DEF Avoiding, Without
<1> HIDE DEF of
<1>4. Listed(of) = of BY <1>1, <1>3, ListedIs
<1>5. Listed(T(of)) = T(of)
  <2> DEFINE f == T(of)
  <2>1. f = [b \in 1..g.exit |-> f[b]] OBVIOUS
  <2> HIDE DEF f
  <2> QED BY <1>1, <2>1, ListedIs
<1>6. \A b \in 1..g.exit : T(of)[b] = Dominating(g, b)
  <2> TAKE b \in 1..g.exit
  <2>1. g.reachable \subseteq 1..g.exit BY ReachableDef
  <2> QED BY <1>3, <2>1 DEF Dominating, Above
<1> QED BY <1>2, <1>4, <1>5, <1>6

\* The rounds stay within what they reach.
LEMMA RoundsWithin ==
  ASSUME NEW exit \in Nat, NEW entry \in 1..exit, NEW succ \in [1..exit -> SUBSET (1..exit)],
         NEW n \in 0..exit
  PROVE  Rounds(entry, exit, succ)[n] \subseteq Reached(entry, exit, succ)
<1> DEFINE w == Rounds(entry, exit, succ)
           R == Reached(entry, exit, succ)
           P == {k \in 0..exit : w[k] \subseteq R}
<1>1. w[0] = {entry} /\ \A k \in 1..exit : w[k] = w[k - 1] \cup UNION {succ[a] : a \in w[k - 1]}
  BY RoundsDef
<1>2. entry \in R /\ \A b \in R : succ[b] \subseteq R BY ReachedDef DEF Leading
<1> HIDE DEF w, R
<1>3. 0 \in P BY <1>1, <1>2
<1>4. \A k \in 1..exit : k - 1 \in P => k \in P
  <2> TAKE k \in 1..exit
  <2>1. SUFFICES ASSUME w[k - 1] \subseteq R PROVE w[k] \subseteq R OBVIOUS
  <2>2. \A a \in w[k - 1] : succ[a] \subseteq R BY <1>2, <2>1
  <2> QED BY <1>1, <2>1, <2>2
<1> HIDE DEF P
<1>5. n \in P BY <1>3, <1>4, BoundedInduction
<1> QED BY <1>5 DEF P, w, R

\* One round, and all of them.
BlockSets(g) == [1..g.exit -> SUBSET (1..g.exit)]
InitialDominators(g) ==
  [b \in 1..g.exit |-> IF b \notin g.reachable THEN {} ELSE IF b = g.entry THEN {b} ELSE g.reachable]
DominatorRounds(g) ==
  CHOOSE round : round = [k \in 0..g.exit |->
    IF k = 0 THEN Listed(InitialDominators(g))
    ELSE LET before == round[k - 1] IN DominatorRound(g, before)]

\* What one round makes of the sets.
LEMMA DominatorRoundDef ==
  ASSUME NEW g, IsGraph(g), NEW dom \in BlockSets(g)
  PROVE  /\ DominatorRound(g, dom) \in BlockSets(g)
         /\ \A b \in 1..g.exit :
              DominatorRound(g, dom)[b]
                = IF b \notin g.reachable \/ b = g.entry THEN dom[b]
                  ELSE {b} \cup {d \in g.reachable : \A p \in ReachablePred(g, b) : d \in dom[p]}
<1> DEFINE f == [b \in 1..g.exit |->
                  IF b \notin g.reachable \/ b = g.entry THEN dom[b]
                  ELSE {b} \cup {d \in g.reachable : \A p \in ReachablePred(g, b) : d \in dom[p]}]
<1>1. g.reachable \subseteq 1..g.exit BY ReachableDef
<1>2. f \in BlockSets(g) BY <1>1 DEF BlockSets
<1>3. DominatorRound(g, dom) = Listed(f) BY DEF DominatorRound
<1>4. Listed(f) = f
  <2>1. f = [b \in 1..g.exit |-> f[b]] OBVIOUS
  <2>2. g.exit \in Nat BY DEF IsGraph
  <2> HIDE DEF f
  <2> QED BY <2>1, <2>2, ListedIs
<1> QED BY <1>2, <1>3, <1>4

\* The rounds of Dominators, one from the other.
LEMMA DominatorRoundsDef ==
  ASSUME NEW g, IsGraph(g)
  PROVE  /\ \A k \in 0..g.exit : DominatorRounds(g)[k] \in BlockSets(g)
         /\ DominatorRounds(g)[0] = InitialDominators(g)
         /\ \A k \in 1..g.exit : DominatorRounds(g)[k] = DominatorRound(g, DominatorRounds(g)[k - 1])
         /\ Dominators(g) = DominatorRounds(g)[g.exit]
<1> DEFINE X == BlockSets(g)
           n == g.exit
           base == Listed(InitialDominators(g))
           step == [e \in X \X Nat |-> DominatorRound(g, e[1])]
           Rule(f) == [k \in 0..n |-> IF k = 0 THEN base ELSE DominatorRound(g, f[k - 1])]
           w == DominatorRounds(g)
<1>1. n \in Nat BY DEF IsGraph
<1>2. base = InitialDominators(g) /\ base \in X
  <2>1. InitialDominators(g) \in X BY ReachableDef DEF InitialDominators, BlockSets
  <2>2. InitialDominators(g) = [b \in 1..n |-> InitialDominators(g)[b]] BY <2>1 DEF BlockSets
  <2>3. base = InitialDominators(g) BY <1>1, <2>2, ListedIs
  <2> QED BY <2>1, <2>3
<1>3. \A S \in X : DominatorRound(g, S) \in X BY DominatorRoundDef
<1>4. w = CHOOSE f : f = Rule(f) BY DEF DominatorRounds
<1>5. Dominators(g) = w[n] BY DEF Dominators, DominatorRounds, InitialDominators
<1> HIDE DEF X, base, w, n
<1>6. StepsOn(step, X)
  <2>1. step \in [X \X Nat -> X] BY <1>3
  <2> QED BY <2>1 DEF StepsOn
<1>7. PICK f : GivenByStep(f, X, base, step, n)
  <2> HIDE DEF step
  <2> QED BY <1>1, <1>2, <1>6, FunctionByStep
<1>8. f \in [0..n -> X] /\ f[0] = base /\ \A i \in 1..n : f[i] = DominatorRound(g, f[i-1])
  <2>1. f \in [0..n -> X] /\ f[0] = base /\ \A i \in 1..n : f[i] = step[<<f[i-1], i>>]
    BY <1>7 DEF GivenByStep
  <2>2. ASSUME NEW i \in 1..n PROVE f[i] = DominatorRound(g, f[i-1])
    <3>1. i - 1 \in 0..n /\ i \in Nat BY <1>1
    <3>2. <<f[i-1], i>> \in X \X Nat BY <2>1, <3>1
    <3> QED BY <2>1, <3>2
  <2> QED BY <2>1, <2>2
<1>9. f = Rule(f)
  <2>1. \A k \in 0..n : k = 0 \/ (k # 0 /\ k \in 1..n) BY <1>1
  <2> QED BY <1>8, <2>1
<1>10. w = Rule(w)
  <2> HIDE DEF Rule
  <2> QED BY <1>4, <1>9
<1>11. w[0] = base /\ \A k \in 1..n : w[k] = DominatorRound(g, w[k - 1])
  <2>1. 0 \in 0..n /\ \A k \in 1..n : k \in 0..n /\ k # 0 BY <1>1
  <2>2. \A k \in 0..n : w[k] = IF k = 0 THEN base ELSE DominatorRound(g, w[k - 1])
    <3>1. \A k \in 0..n : w[k] = Rule(w)[k] BY <1>10, Zenon
    <3> QED BY <3>1
  <2> QED BY <2>1, <2>2
<1>12. \A k \in 0..n : w[k] \in X
  <2> DEFINE P == {k \in 0..n : w[k] \in X}
  <2>1. 0 \in P BY <1>1, <1>2, <1>11
  <2>2. \A k \in 1..n : k - 1 \in P => k \in P BY <1>1, <1>3, <1>11
  <2> HIDE DEF P
  <2>3. \A k \in 0..n : k \in P BY <1>1, <2>1, <2>2, BoundedInduction
  <2> QED BY <2>3 DEF P
<1> QED BY <1>2, <1>5, <1>11, <1>12 DEF n, w, X

\* The rounds arrive at the dominators of the paths.
LEMMA DominatorsDef ==
  ASSUME NEW g, IsGraph(g)
  PROVE  Dominators(g) = [b \in 1..g.exit |-> Dominating(g, b)]
<1> DEFINE r == DominatorRounds(g)
           n == g.exit
           B == 1..n
           w(d) == Rounds(g.entry, g.exit, Without(g, d))
<1>1. n \in Nat /\ g.entry \in B /\ g.succ \in [B -> SUBSET B] BY DEF IsGraph
<1>2. /\ \A k \in 0..n : r[k] \in [B -> SUBSET B]
      /\ r[0] = [b \in B |-> IF b \notin g.reachable THEN {} ELSE IF b = g.entry THEN {b} ELSE g.reachable]
      /\ \A k \in 1..n : r[k] = DominatorRound(g, r[k - 1])
      /\ Dominators(g) = r[n]
  BY DominatorRoundsDef DEF BlockSets, InitialDominators
<1>3. \A k \in 1..n : k - 1 \in 0..n /\ k \in 0..n BY <1>1
<1>4. ASSUME NEW k \in 1..n, NEW b \in B
      PROVE  /\ b \notin g.reachable \/ b = g.entry => r[k][b] = r[k - 1][b]
             /\ b \in g.reachable /\ b # g.entry =>
                  \A d : d \in r[k][b] <=>
                          d = b \/ (d \in g.reachable /\ \A p \in ReachablePred(g, b) : d \in r[k - 1][p])
  <2> DEFINE before == r[k - 1]
  <2>1. before \in BlockSets(g) BY <1>2, <1>3 DEF BlockSets
  <2>2. r[k] = DominatorRound(g, before) BY <1>2
  <2> HIDE DEF before
  <2>3. DominatorRound(g, before)[b]
          = IF b \notin g.reachable \/ b = g.entry THEN before[b]
            ELSE {b} \cup {d \in g.reachable : \A p \in ReachablePred(g, b) : d \in before[p]}
    BY <2>1, DominatorRoundDef
  <2>4. CASE b \notin g.reachable \/ b = g.entry BY <2>2, <2>3, <2>4 DEF before
  <2>5. CASE b \in g.reachable /\ b # g.entry
    <3>1. r[k][b] = {b} \cup {d \in g.reachable : \A p \in ReachablePred(g, b) : d \in before[p]}
      BY <2>2, <2>3, <2>5
    <3> QED BY <2>5, <3>1 DEF before
  <2> QED BY <2>4, <2>5
<1>5. /\ g.entry \in g.reachable /\ g.reachable \subseteq B
      /\ \A b \in B : ReachablePred(g, b) = {a \in g.reachable : b \in g.succ[a]}
  BY ReachableDef
<1>6. \A d \in B : Without(g, d) \in [B -> SUBSET B] BY <1>1 DEF Without
<1> HIDE DEF r, w
\* No round drops a dominator.
<1>7. ASSUME NEW b \in B PROVE Dominating(g, b) \subseteq r[n][b]
  <2> DEFINE P == {k \in 0..n : \A x \in B : Dominating(g, x) \subseteq r[k][x]}
  <2>1. 0 \in P
    <3>1. \A x \in B : Dominating(g, x) \subseteq r[0][x]
      <4> TAKE x \in B
      <4>1. x = g.entry => Dominating(g, x) \subseteq {x} BY <1>5, EntryAbove DEF Dominating
      <4>2. Dominating(g, x) \subseteq g.reachable /\ (x \notin g.reachable => Dominating(g, x) = {})
        BY DEF Dominating, Above
      <4> QED BY <1>2, <4>1, <4>2
    <3> QED BY <1>1, <3>1
  <2>2. ASSUME NEW k \in 1..n, k - 1 \in P PROVE k \in P
    <3>1. ASSUME NEW x \in B, NEW d \in Dominating(g, x) PROVE d \in r[k][x]
      <4>1. Above(g, d, x) /\ x \in g.reachable /\ d \in g.reachable BY <3>1 DEF Dominating, Above
      <4>2. CASE x = g.entry BY <1>4, <2>2, <3>1, <4>2
      <4>3. CASE x # g.entry /\ d # x
        <5>1. ASSUME NEW p \in ReachablePred(g, x) PROVE d \in r[k - 1][p]
          <6>1. p \in g.reachable /\ x \in g.succ[p] /\ p \in B BY <1>5
          <6>2. Above(g, d, p) BY <4>1, <4>3, <6>1, AbovePredecessor
          <6>3. d \in Dominating(g, p) BY <1>5, <4>1, <6>2 DEF Dominating
          <6> QED BY <2>2, <6>1, <6>3
        <5> QED BY <1>4, <4>1, <4>3, <5>1
      <4>4. CASE x # g.entry /\ d = x BY <1>4, <4>1, <4>4
      <4> QED BY <4>2, <4>3, <4>4
    <3> QED BY <1>3, <3>1
  <2> HIDE DEF P
  <2>3. n \in P
    <3>1. n \in 0..n BY <1>1
    <3> QED BY <1>1, <2>1, <2>2, <3>1, BoundedInduction
  <2> QED BY <2>3 DEF P
\* After k rounds, d is gone from where k steps lead without it.
<1>8. ASSUME NEW b \in B, NEW e \in r[n][b] PROVE Above(g, e, b)
  <2> DEFINE Left(k, x, d) ==
               d \in g.reachable /\ x \in g.reachable /\ (d = x \/ d = g.entry \/ x \notin w(d)[k])
             P == {k \in 0..n : r[k][g.entry] = {g.entry} /\ \A x \in B : \A d \in r[k][x] : Left(k, x, d)}
  <2>1. 0 \in P
    <3>1. \A d \in B : w(d)[0] = {g.entry}
      <4> TAKE d \in B
      <4>1. Without(g, d) \in [B -> SUBSET B] BY <1>6
      <4> QED BY <1>1, <4>1, RoundsDef DEF w
    <3>2. \A x \in B : \A d \in r[0][x] : Left(0, x, d) BY <1>2, <1>5, <3>1
    <3>3. r[0][g.entry] = {g.entry} BY <1>1, <1>2, <1>5
    <3> QED BY <1>1, <3>2, <3>3
  <2>2. ASSUME NEW k \in 1..n, k - 1 \in P PROVE k \in P
    <3>1. r[k][g.entry] = {g.entry} BY <1>1, <1>4, <2>2
    <3>2. ASSUME NEW x \in B, NEW d \in r[k][x] PROVE Left(k, x, d)
      <4>1. CASE x \notin g.reachable
        <5>1. d \in r[k - 1][x] BY <1>4, <3>2, <4>1
        <5>2. Left(k - 1, x, d) BY <2>2, <5>1
        <5> QED BY <4>1, <5>2
      <4>2. CASE x = g.entry BY <1>5, <3>1, <3>2, <4>2
      <4>3. CASE x \in g.reachable /\ x # g.entry
        <5>1. d = x \/ (d \in g.reachable /\ \A p \in ReachablePred(g, x) : d \in r[k - 1][p])
          BY <1>4, <3>2, <4>3
        <5>2. SUFFICES ASSUME d # x, d # g.entry, x \in w(d)[k] PROVE FALSE BY <4>3, <5>1
        <5>3. d \in B /\ Without(g, d) \in [B -> SUBSET B] BY <1>5, <1>6, <5>1, <5>2
        <5>4. PICK a \in w(d)[k - 1] : x \in Without(g, d)[a]
          BY <1>1, <4>3, <5>2, <5>3, RoundEnters DEF w
        <5>5. a \in g.reachable
          <6>1. w(d)[k - 1] \subseteq Avoiding(g, d)
            BY <1>1, <1>3, <5>2, <5>3, RoundsWithin DEF w, Avoiding
          <6> QED BY <5>3, <5>4, <6>1, AvoidingDef
        <5>6. a # d /\ x \in g.succ[a] BY <1>5, <5>4, <5>5 DEF Without
        <5>7. d \in r[k - 1][a] BY <1>5, <5>1, <5>2, <5>5, <5>6
        <5>8. Left(k - 1, a, d) BY <1>5, <2>2, <5>5, <5>7
        <5> QED BY <5>2, <5>4, <5>6, <5>8
      <4> QED BY <4>1, <4>2, <4>3
    <3> QED BY <1>3, <3>1, <3>2
  <2> HIDE DEF P
  <2>3. n \in P
    <3>1. n \in 0..n BY <1>1
    <3> QED BY <1>1, <2>1, <2>2, <3>1, BoundedInduction
  <2>4. Left(n, b, e) BY <1>8, <2>3 DEF P
  <2>5. e \in B BY <1>5, <2>4
  <2>6. CASE e = g.entry BY <2>4, <2>6, EntryAbove
  <2>7. CASE e # g.entry
    <3> DEFINE W == Without(g, e)
    <3>1. W \in [1..g.exit -> SUBSET (1..g.exit)] BY <1>6, <2>5
    <3>2. g.exit \in Nat /\ g.entry \in 1..g.exit BY <1>1
    <3> HIDE DEF W
    <3>3. Reached(g.entry, g.exit, W) = Rounds(g.entry, g.exit, W)[g.exit] BY <3>1, <3>2, RoundsDef
    <3>4. w(e)[n] = Avoiding(g, e) BY <2>7, <3>3 DEF w, Avoiding, W
    <3> QED BY <2>4, <2>7, <3>4 DEF Above
  <2> QED BY <2>6, <2>7
<1>9. r[n] \in [B -> SUBSET B]
  <2>1. n \in 0..n BY <1>1
  <2> QED BY <1>2, <2>1
<1>10. \A b \in B : r[n][b] = Dominating(g, b)
  <2> TAKE b \in B
  <2>1. r[n][b] \subseteq B BY <1>9
  <2> QED BY <1>7, <1>8, <2>1 DEF Dominating
<1> QED BY <1>2, <1>9, <1>10

-----------------------------------------------------------------------------
(* Immediate dominators and frontiers.                                     *)

DominatingSets(g) == [b \in 1..g.exit |-> Dominating(g, b)]
Immediate(g) == ImmediateDominators(g, DominatingSets(g))

\* ImmediateDominators finds the immediate dominator, if there is one.
LEMMA ImmediateDef ==
  ASSUME NEW g, IsGraph(g)
  PROVE  /\ Immediate(g) \in [1..g.exit -> 0..g.exit]
         /\ \A b, c \in 1..g.exit : Immediate(g)[b] = c <=> Closest(g, c, b)
         /\ \A b \in 1..g.exit : Immediate(g)[b] = NoBlock => \A c : ~ Closest(g, c, b)
<1> DEFINE B == 1..g.exit
           D(b) == DominatingSets(g)[b]
           Strict(b) == D(b) \ {b}
           Near(b) == {c \in Strict(b) : Strict(b) \ {c} \subseteq D(c)}
           f == [b \in B |-> IF Near(b) = {} THEN NoBlock ELSE CHOOSE c \in Near(b) : TRUE]
<1>1. g.exit \in Nat BY DEF IsGraph
<1>2. Immediate(g) = f
  <2>1. Immediate(g) = Listed(f) BY DEF Immediate, ImmediateDominators
  <2>2. f = [b \in 1..g.exit |-> f[b]] OBVIOUS
  <2> HIDE DEF f
  <2> QED BY <1>1, <2>1, <2>2, ListedIs
<1>3. ASSUME NEW b \in B PROVE Near(b) = {c \in B : Closest(g, c, b)}
  <2>1. \A x \in B : D(x) = {d \in B : Above(g, d, x)} BY DEF DominatingSets, Dominating
  <2>2. \A d, x : Above(g, d, x) => d \in B BY ReachableDef DEF Above
  <2>3. \A c \in B : Above(g, c, b) => Above(g, c, c) BY EntryAbove DEF Above
  <2> HIDE DEF D
  <2>4. ASSUME NEW c \in Near(b) PROVE c \in B /\ Closest(g, c, b)
    <3>1. c \in B /\ Above(g, c, b) /\ c # b BY <2>1, <2>4
    <3>2. ASSUME NEW d, Above(g, d, b), d # b PROVE Above(g, d, c)
      <4>1. d \in Strict(b) BY <2>1, <2>2, <3>2
      <4>2. CASE d = c BY <2>3, <3>1, <4>2
      <4>3. CASE d # c
        <5>1. d \in D(c) BY <2>4, <4>1, <4>3
        <5> QED BY <2>1, <3>1, <5>1
      <4> QED BY <4>2, <4>3
    <3> QED BY <3>1, <3>2 DEF Closest
  <2>5. ASSUME NEW c \in B, Closest(g, c, b) PROVE c \in Near(b)
    <3>1. c \in Strict(b) BY <2>1, <2>5 DEF Closest
    <3>2. \A d \in Strict(b) : d \in D(c) BY <2>1, <2>5 DEF Closest
    <3> QED BY <3>1, <3>2
  <2> QED BY <2>4, <2>5
<1> HIDE DEF Near
<1>4. \A b \in B : f[b] = IF Near(b) = {} THEN NoBlock ELSE CHOOSE c \in Near(b) : TRUE OBVIOUS
<1>5. ASSUME NEW b \in B
      PROVE  /\ f[b] \in 0..g.exit
             /\ \A c \in B : f[b] = c <=> Closest(g, c, b)
             /\ f[b] = NoBlock => \A c : ~ Closest(g, c, b)
  <2>1. \A c : Closest(g, c, b) => c \in B /\ c \in Near(b)
    <3>1. \A c : Closest(g, c, b) => c \in B BY ReachableDef DEF Closest, Above
    <3> QED BY <1>3, <3>1
  <2>2. CASE Near(b) = {}
    <3>1. f[b] = 0 BY <1>4, <2>2 DEF NoBlock
    <3>2. \A c \in B : c # 0 BY <1>1
    <3> QED BY <1>1, <2>1, <2>2, <3>1, <3>2 DEF NoBlock
  <2>3. CASE Near(b) # {}
    <3>1. f[b] \in Near(b) BY <1>4, <2>3
    <3>2. f[b] \in B /\ Closest(g, f[b], b) BY <1>3, <3>1
    <3>3. \A c \in B : Closest(g, c, b) => c = f[b] BY <3>2, ClosestDef
    <3> DEFINE fb == f[b]
    <3>4. fb # 0 /\ fb \in 0..g.exit
      <4>1. fb \in 1..g.exit BY <3>2
      <4> HIDE DEF fb
      <4> QED BY <1>1, <4>1
    <3> QED BY <3>2, <3>3, <3>4 DEF NoBlock
  <2> QED BY <2>2, <2>3
<1>6. f \in [B -> 0..g.exit]
  <2>1. f = [b \in B |-> f[b]] OBVIOUS
  <2> HIDE DEF f
  <2> QED BY <1>5, <2>1
<1> HIDE DEF f
<1> QED BY <1>2, <1>5, <1>6

\* A climb, block by block.
Runner(g, idom, start, walked, k) ==
  IF k = 1 THEN start ELSE IF walked[k - 1] = NoBlock THEN NoBlock ELSE idom[walked[k - 1]]
Met(g, idom, start, stop, walked, k) ==
  IF Runner(g, idom, start, walked, k) = stop THEN NoBlock ELSE Runner(g, idom, start, walked, k)
Climbs(g, idom, start, stop) ==
  CHOOSE climb : climb = [k \in 0..g.exit |->
    IF k = 0 THEN <<>> ELSE Append(climb[k - 1], Met(g, idom, start, stop, climb[k - 1], k))]

\* The walk of ClimbFrom, one block longer each time.
LEMMA ClimbsDef ==
  ASSUME NEW g, IsGraph(g), NEW idom \in [1..g.exit -> 0..g.exit], NEW start \in 1..g.exit,
         NEW stop \in 0..g.exit
  PROVE  LET c == Climbs(g, idom, start, stop) IN
         /\ c[0] = <<>>
         /\ \A k \in 0..g.exit : c[k] \in Seq(0..g.exit) /\ Len(c[k]) = k
         /\ \A k \in 1..g.exit : /\ Met(g, idom, start, stop, c[k - 1], k) \in 0..g.exit
                                  /\ c[k] = Append(c[k - 1], Met(g, idom, start, stop, c[k - 1], k))
         /\ ClimbFrom(g, idom, start, stop) = ToSet(c[g.exit]) \ {NoBlock}
<1> DEFINE X == Seq(0..g.exit)
           n == g.exit
           met(x, k) == Met(g, idom, start, stop, x, k)
           step == [e \in X \X Nat |-> IF Len(e[1]) = e[2] - 1 /\ e[2] \in 1..n
                                        THEN Append(e[1], met(e[1], e[2])) ELSE <<>>]
           Rule(f) == [k \in 0..n |-> IF k = 0 THEN <<>> ELSE Append(f[k - 1], met(f[k - 1], k))]
           w == Climbs(g, idom, start, stop)
<1>1. n \in Nat BY DEF IsGraph
<1>2. ASSUME NEW x \in X, NEW k \in 1..n, Len(x) = k - 1 PROVE met(x, k) \in 0..n
  <2>1. Runner(g, idom, start, x, k) \in 0..n
    <3>1. CASE k = 1 BY <1>1, <3>1 DEF Runner
    <3>2. CASE k # 1
      <4>1. x[k - 1] \in 0..n BY <1>1, <1>2, <3>2
      <4>2. x[k - 1] # 0 => x[k - 1] \in 1..n BY <1>1, <4>1
      <4> QED BY <1>1, <3>2, <4>1, <4>2 DEF Runner, NoBlock
    <3> QED BY <3>1, <3>2
  <2> QED BY <1>1, <2>1 DEF Met, NoBlock
<1>3. w = CHOOSE f : f = Rule(f) BY DEF Climbs
<1>4. ClimbFrom(g, idom, start, stop) = ToSet(w[n]) \ {NoBlock}
  BY DEF ClimbFrom, Climbs, Met, Runner
<1> HIDE DEF met, w
<1>5. StepsOn(step, X)
  <2>1. \A e \in X \X Nat : step[e] \in X
    <3> TAKE e \in X \X Nat
    <3>1. CASE Len(e[1]) = e[2] - 1 /\ e[2] \in 1..n
      <4>1. e[1] \in X /\ e[2] \in 1..n BY <3>1
      <4>2. met(e[1], e[2]) \in 0..n
        <5> HIDE DEF X
        <5> QED BY <1>2, <3>1, <4>1
      <4>3. Append(e[1], met(e[1], e[2])) \in X
        <5>1. \A s \in X, m \in 0..n : Append(s, m) \in X OBVIOUS
        <5> HIDE DEF X
        <5> QED BY <4>1, <4>2, <5>1
      <4> HIDE DEF X
      <4>4. step[e] = IF Len(e[1]) = e[2] - 1 /\ e[2] \in 1..n THEN Append(e[1], met(e[1], e[2])) ELSE <<>>
        OBVIOUS
      <4>5. step[e] = Append(e[1], met(e[1], e[2])) BY <3>1, <4>4
      <4> HIDE DEF step
      <4> QED BY <4>3, <4>5
    <3>2. CASE ~ (Len(e[1]) = e[2] - 1 /\ e[2] \in 1..n)
      <4>1. <<>> \in X OBVIOUS
      <4> HIDE DEF X
      <4>2. step[e] = IF Len(e[1]) = e[2] - 1 /\ e[2] \in 1..n THEN Append(e[1], met(e[1], e[2])) ELSE <<>>
        OBVIOUS
      <4>3. step[e] = <<>> BY <3>2, <4>2
      <4> HIDE DEF step
      <4> QED BY <4>1, <4>3
    <3> QED BY <3>1, <3>2
  <2>2. step = [e \in X \X Nat |-> step[e]] OBVIOUS
  <2> HIDE DEF step
  <2> QED BY <2>1, <2>2 DEF StepsOn
<1>6. PICK f : GivenByStep(f, X, <<>>, step, n)
  <2>1. <<>> \in X OBVIOUS
  <2> HIDE DEF step, X
  <2> QED BY <1>1, <1>5, <2>1, FunctionByStep
<1>7. f \in [0..n -> X] /\ f[0] = <<>> /\ \A i \in 1..n : f[i] = step[<<f[i-1], i>>]
  <2> HIDE DEF step, X
  <2> QED BY <1>6 DEF GivenByStep
<1>8. ASSUME NEW i \in 1..n, Len(f[i - 1]) = i - 1
      PROVE  f[i] = Append(f[i - 1], met(f[i - 1], i)) /\ met(f[i - 1], i) \in 0..n
  <2>1. f[i - 1] \in X /\ i \in Nat
    <3>1. i - 1 \in 0..n BY <1>1
    <3> QED BY <1>7, <3>1
  <2>2. step[<<f[i - 1], i>>] = Append(f[i - 1], met(f[i - 1], i)) BY <1>8, <2>1
  <2> QED BY <1>2, <1>7, <1>8, <2>1, <2>2
<1>9. \A k \in 0..n : f[k] \in X /\ Len(f[k]) = k
  <2> DEFINE P == {k \in 0..n : f[k] \in X /\ Len(f[k]) = k}
  <2>1. 0 \in P BY <1>1, <1>7
  <2>2. ASSUME NEW k \in 1..n, k - 1 \in P PROVE k \in P
    <3>1. k \in 0..n /\ f[k - 1] \in X /\ Len(f[k - 1]) = k - 1 BY <1>1, <2>2
    <3>2. f[k] = Append(f[k - 1], met(f[k - 1], k)) /\ met(f[k - 1], k) \in 0..n BY <1>8, <3>1
    <3>3. \A s \in X, m \in 0..n : Append(s, m) \in X /\ Len(Append(s, m)) = Len(s) + 1 OBVIOUS
    <3>4. f[k] \in X /\ Len(f[k]) = (k - 1) + 1
      <4> HIDE DEF X
      <4> QED BY <3>1, <3>2, <3>3
    <3>5. (k - 1) + 1 = k BY <1>1
    <3> HIDE DEF X
    <3> QED BY <3>1, <3>4, <3>5
  <2> HIDE DEF P
  <2>3. \A k \in 0..n : k \in P BY <1>1, <2>1, <2>2, BoundedInduction
  <2> QED BY <2>3 DEF P
<1> HIDE DEF step
<1>10. \A i \in 1..n : f[i] = Append(f[i - 1], met(f[i - 1], i)) /\ met(f[i - 1], i) \in 0..n
  <2> TAKE i \in 1..n
  <2>1. i - 1 \in 0..n BY <1>1
  <2> QED BY <1>8, <1>9, <2>1
<1>11. f = Rule(f)
  <2>1. \A k \in 0..n : k = 0 \/ (k # 0 /\ k \in 1..n) BY <1>1
  <2> HIDE DEF X
  <2>2. \A k \in 0..n : f[k] = IF k = 0 THEN <<>> ELSE Append(f[k - 1], met(f[k - 1], k))
    BY <1>7, <1>10, <2>1
  <2> QED BY <1>7, <2>2
<1>12. w = Rule(w)
  <2> HIDE DEF Rule
  <2> QED BY <1>3, <1>11
<1>13. w[0] = <<>> /\ \A k \in 1..n : w[k] = Append(w[k - 1], met(w[k - 1], k))
  <2>1. 0 \in 0..n /\ \A k \in 1..n : k \in 0..n /\ k # 0 BY <1>1
  <2>2. \A k \in 0..n : w[k] = IF k = 0 THEN <<>> ELSE Append(w[k - 1], met(w[k - 1], k))
    <3>1. \A k \in 0..n : w[k] = Rule(w)[k] BY <1>12, Zenon
    <3> QED BY <3>1
  <2> QED BY <2>1, <2>2
<1>14. \A k \in 0..n : w[k] = f[k]
  <2> DEFINE P == {k \in 0..n : w[k] = f[k]}
  <2>1. 0 \in P BY <1>1, <1>7, <1>13
  <2>2. ASSUME NEW k \in 1..n, k - 1 \in P PROVE k \in P
    <3>1. k \in 0..n /\ w[k - 1] = f[k - 1] BY <1>1, <2>2
    <3>2. w[k] = f[k] BY <1>10, <1>13, <3>1
    <3> QED BY <3>1, <3>2
  <2> HIDE DEF P
  <2>3. \A k \in 0..n : k \in P BY <1>1, <2>1, <2>2, BoundedInduction
  <2> QED BY <2>3 DEF P
<1>15. \A k \in 1..n : k - 1 \in 0..n BY <1>1
<1>16. \A k \in 1..n : met(w[k - 1], k) \in 0..n BY <1>10, <1>14, <1>15
<1> QED BY <1>4, <1>9, <1>13, <1>14, <1>16 DEF met, w

\* v is a climb: the blocks met one after the other, and none once it is over.
IsClimb(g, idom, start, stop, v) ==
  /\ v \in [1..g.exit -> 0..g.exit]
  /\ \A k \in 1..g.exit : v[k] = Met(g, idom, start, stop, v, k)

\* A climb meets the blocks of one sequence.
LEMMA ClimbDef ==
  ASSUME NEW g, IsGraph(g), NEW idom \in [1..g.exit -> 0..g.exit], NEW start \in 1..g.exit,
         NEW stop \in 0..g.exit
  PROVE  \E v : /\ IsClimb(g, idom, start, stop, v)
                /\ ClimbFrom(g, idom, start, stop) = {v[k] : k \in 1..g.exit} \ {NoBlock}
<1> DEFINE n == g.exit
           c == Climbs(g, idom, start, stop)
           m(k) == Met(g, idom, start, stop, c[k - 1], k)
           v == [k \in 1..n |-> m(k)]
<1>1. n \in Nat BY DEF IsGraph
<1>2. /\ c[0] = <<>>
      /\ \A k \in 0..n : c[k] \in Seq(0..n) /\ Len(c[k]) = k
      /\ \A k \in 1..n : m(k) \in 0..n /\ c[k] = Append(c[k - 1], m(k))
      /\ ClimbFrom(g, idom, start, stop) = ToSet(c[n]) \ {NoBlock}
  BY ClimbsDef
<1>3. \A k \in 1..n : v[k] = m(k) OBVIOUS
<1>4. v \in [1..n -> 0..n] BY <1>2
<1>5. \A k \in 1..n : m(k) = Met(g, idom, start, stop, c[k - 1], k) OBVIOUS
<1> HIDE DEF c, v, m
<1>6. \A k \in 0..n : \A j \in 1..k : c[k][j] = v[j]
  <2> DEFINE P == {k \in 0..n : \A j \in 1..k : c[k][j] = v[j]}
  <2>1. 0 \in P BY <1>1
  <2>2. ASSUME NEW k \in 1..n, k - 1 \in P PROVE k \in P
    <3>1. k - 1 \in 0..n /\ k \in 0..n BY <1>1
    <3>2. c[k - 1] \in Seq(0..n) /\ Len(c[k - 1]) = k - 1 BY <1>2, <3>1
    <3>3. c[k] = Append(c[k - 1], v[k]) BY <1>2, <1>3
    <3>4. ASSUME NEW j \in 1..k PROVE c[k][j] = v[j]
      <4>1. CASE j = k
        <5>1. c[k][(k - 1) + 1] = v[k] BY <3>2, <3>3
        <5>2. (k - 1) + 1 = k BY <1>1
        <5> QED BY <4>1, <5>1, <5>2
      <4>2. CASE j # k
        <5>1. j \in 1..k - 1 BY <1>1, <4>2
        <5>2. c[k - 1][j] = v[j] BY <2>2, <5>1
        <5> QED BY <3>2, <3>3, <5>1, <5>2
      <4> QED BY <4>1, <4>2
    <3> QED BY <3>1, <3>4
  <2> HIDE DEF P
  <2>3. \A k \in 0..n : k \in P BY <1>1, <2>1, <2>2, BoundedInduction
  <2> QED BY <2>3 DEF P
<1>7. ToSet(c[n]) = {v[k] : k \in 1..n}
  <2>1. n \in 0..n BY <1>1
  <2>2. DOMAIN c[n] = 1..n BY <1>2, <2>1
  <2> QED BY <1>6, <2>1, <2>2 DEF ToSet
<1>8. ASSUME NEW k \in 1..n PROVE v[k] = Met(g, idom, start, stop, v, k)
  <2>1. Runner(g, idom, start, c[k - 1], k) = Runner(g, idom, start, v, k)
    <3>1. CASE k = 1 BY <3>1 DEF Runner
    <3>2. CASE k # 1
      <4>1. k - 1 \in 0..n /\ k - 1 \in 1..k - 1 BY <1>1, <3>2
      <4>2. c[k - 1][k - 1] = v[k - 1] BY <1>6, <4>1
      <4> QED BY <3>2, <4>2 DEF Runner
    <3> QED BY <3>1, <3>2
  <2> QED BY <1>3, <1>5, <2>1 DEF Met
<1>9. IsClimb(g, idom, start, stop, v) BY <1>4, <1>8 DEF IsClimb
<1>10. ClimbFrom(g, idom, start, stop) = {v[k] : k \in 1..n} \ {NoBlock} BY <1>2, <1>7
<1> QED BY <1>9, <1>10

\* A climb from a block to one that dominates it, or to no block at all,
\* meets what dominates the first and not the second.
Passed(g, start, stop) == {b \in 1..g.exit : Above(g, b, start) /\ (stop # NoBlock => ~ Above(g, b, stop))}

\* By induction on the climb: what it has met lies between, and what it has still to
\* meet lies above the block it is at.
LEMMA ClimbMeets ==
  ASSUME NEW g, IsGraph(g), NEW start \in g.reachable,
         NEW stop \in 0..g.exit, stop # NoBlock => Above(g, stop, start)
  PROVE  ClimbFrom(g, Immediate(g), start, stop) = Passed(g, start, stop)
<1> DEFINE n == g.exit
           B == 1..n
           im == Immediate(g)
           T == Passed(g, start, stop)
           Depth(b) == Cardinality(Dominating(g, b))
<1>1. n \in Nat /\ n # 0 BY DEF IsGraph
<1>2. /\ im \in [B -> 0..n]
      /\ \A b \in B : im[b] # NoBlock => Closest(g, im[b], b)
      /\ \A b \in B : im[b] = NoBlock => \A c : ~ Closest(g, c, b)
  <2>1. \A b \in B : im[b] # NoBlock => im[b] \in B BY <1>1, ImmediateDef DEF NoBlock
  <2> QED BY <2>1, ImmediateDef
<1>3. start \in B /\ Above(g, start, start) BY ReachableDef, EntryAbove
<1>4. PICK v : IsClimb(g, im, start, stop, v) /\ ClimbFrom(g, im, start, stop) = {v[k] : k \in B} \ {NoBlock}
  BY <1>2, <1>3, ClimbDef
<1> HIDE DEF im
<1>5. v \in [B -> 0..n] /\ \A k \in B : v[k] = Met(g, im, start, stop, v, k) BY <1>4 DEF IsClimb
<1>6. \A b : Depth(b) \in 0..n BY DominatingFinite
<1>7. \A b : b \in T <=> Above(g, b, start) /\ (stop # NoBlock => ~ Above(g, b, stop))
  BY ReachableDef DEF Passed, Above
<1> HIDE DEF T, Depth
\* Up to the k-th block: what has been met, and what is left above it.
<1> DEFINE Sound(k) == v[k] # NoBlock => v[k] \in T /\ Depth(v[k]) + k <= n + 1
           Left(k, t) == v[k] # NoBlock /\ Above(g, t, v[k]) /\ t # v[k]
           Complete(k) == \A t \in T : (\E j \in 1..k : v[j] = t) \/ Left(k, t)
<1>8. Sound(1) /\ Complete(1)
  <2>1. 1 \in B BY <1>1
  <2>2. v[1] = IF start = stop THEN NoBlock ELSE start BY <1>5, <2>1 DEF Met, Runner
  <2>3. CASE start = stop
    <3>1. stop # NoBlock BY <1>1, <1>3, <2>3 DEF NoBlock
    <3>2. T = {} BY <1>7, <2>3, <3>1
    <3> QED BY <2>2, <2>3, <3>2
  <2>4. CASE start # stop
    <3>1. start \in T BY <1>3, <1>7, <2>4, AboveAntisymmetric
    <3>2. Depth(start) + 1 <= n + 1 BY <1>1, <1>6
    <3>3. \A t \in T : t = start \/ (Above(g, t, start) /\ t # start) BY <1>7
    <3>4. v[1] = start /\ start # NoBlock BY <1>1, <1>3, <2>2, <2>4 DEF NoBlock
    <3>5. Complete(1)
      <4>1. 1 \in 1..1 OBVIOUS
      <4> QED BY <3>3, <3>4, <4>1
    <3> QED BY <3>1, <3>2, <3>4, <3>5
  <2> QED BY <2>3, <2>4
<1>9. ASSUME NEW k \in 2..n, Sound(k - 1), Complete(k - 1) PROVE Sound(k) /\ Complete(k)
  <2> DEFINE last == v[k - 1]
             upper == IF last = NoBlock THEN NoBlock ELSE im[last]
  <2>1. /\ k \in B /\ k - 1 \in B /\ k # 1 /\ 1..(k - 1) \subseteq 1..k /\ k \in 1..k
        /\ k \in Nat
    BY <1>1
  <2>2. v[k] = IF upper = stop THEN NoBlock ELSE upper BY <1>5, <2>1 DEF Met, Runner
  <2>3. last \in 0..n BY <1>5, <2>1
  <2> HIDE DEF last
  <2>4. CASE last = NoBlock
    <3>1. v[k] = NoBlock BY <2>2, <2>4
    <3>2. \A t \in T : \E j \in 1..(k - 1) : v[j] = t BY <1>9, <2>4 DEF last
    <3> QED BY <2>1, <3>1, <3>2
  <2>5. CASE last # NoBlock
    <3>1. last \in T /\ Depth(last) + (k - 1) <= n + 1 BY <1>9, <2>5 DEF last
    <3>2. \A t \in T : (\E j \in 1..k : v[j] = t) \/ (Above(g, t, last) /\ t # last)
      BY <1>9, <2>1, <2>5 DEF last
    <3>3. last \in B /\ upper = im[last] BY <1>1, <2>3, <2>5 DEF NoBlock
    <3>4. Above(g, last, start) /\ last \in g.reachable BY <1>7, <3>1 DEF Above
    <3>5. CASE upper = NoBlock
      <4>1. last = g.entry BY <1>2, <3>3, <3>4, <3>5, ClosestExists
      <4>2. \A t : ~ (Above(g, t, last) /\ t # last) BY <3>4, <4>1, EntryAbove
      <4>3. v[k] = NoBlock BY <2>2, <3>5
      <4> QED BY <3>2, <4>2, <4>3
    <3>6. CASE upper # NoBlock
      <4>1. Closest(g, upper, last) BY <1>2, <3>3, <3>6
      <4> HIDE DEF upper
      <4>2. /\ \A t : Above(g, t, last) /\ t # last <=> Above(g, t, upper)
            /\ Depth(upper) < Depth(last)
        BY <4>1, ClosestDef DEF Depth
      <4>3. Above(g, upper, last) BY <4>1 DEF Closest
      <4>4. CASE upper = stop
        <5>1. v[k] = NoBlock BY <2>2, <4>4
        <5>2. \A t \in T : ~ Above(g, t, upper) BY <1>7, <3>6, <4>4
        <5> QED BY <3>2, <4>2, <5>1, <5>2
      <4>5. CASE upper # stop
        <5>1. v[k] = upper BY <2>2, <4>5
        <5>2. Above(g, upper, start) BY <3>4, <4>3, AboveTransitive
        <5>3. ASSUME stop # NoBlock, Above(g, upper, stop) PROVE FALSE
          <6>1. Above(g, stop, start) BY <5>3
          <6>2. Above(g, stop, last) \/ Above(g, last, stop) BY <3>4, <6>1, AboveChain
          <6>3. ~ Above(g, last, stop) BY <1>7, <3>1, <5>3
          <6>4. stop # last
            <7>1. Above(g, last, last) BY <3>4, EntryAbove
            <7> QED BY <6>3, <7>1
          <6>5. Above(g, stop, upper) BY <4>2, <6>2, <6>3, <6>4
          <6> QED BY <4>5, <5>3, <6>5, AboveAntisymmetric
        <5>4. upper \in T BY <1>7, <5>2, <5>3
        <5>5. Depth(upper) + k <= n + 1
          <6>1. Depth(upper) \in Nat /\ Depth(last) \in Nat BY <1>1, <1>6
          <6> QED BY <1>1, <2>1, <3>1, <4>2, <6>1
        <5>6. Complete(k)
          <6>1. \A t \in T : (\E j \in 1..k : v[j] = t) \/ Above(g, t, upper) BY <3>2, <4>2
          <6>2. v[k] = upper /\ k \in 1..k BY <2>1, <5>1
          <6> QED BY <3>6, <6>1, <6>2
        <5> QED BY <5>1, <5>4, <5>5, <5>6
      <4> QED BY <4>4, <4>5
    <3> QED BY <3>5, <3>6
  <2> QED BY <2>4, <2>5
<1>10. \A k \in B : Sound(k) /\ Complete(k)
  <2> DEFINE P == {k \in 0..n : k = 0 \/ (Sound(k) /\ Complete(k))}
  <2>1. 0 \in P BY <1>1
  <2>2. ASSUME NEW k \in 1..n, k - 1 \in P PROVE k \in P
    <3>1. k \in 0..n BY <1>1
    <3>2. CASE k = 1 BY <1>8, <3>1, <3>2
    <3>3. CASE k # 1
      <4>1. k \in 2..n /\ k - 1 # 0 BY <1>1, <3>3
      <4>2. Sound(k - 1) /\ Complete(k - 1) BY <2>2, <4>1
      <4> HIDE DEF Sound, Complete
      <4> QED BY <1>9, <3>1, <4>1, <4>2
    <3> QED BY <3>2, <3>3
  <2> HIDE DEF P
  <2>3. \A k \in 0..n : k \in P BY <1>1, <2>1, <2>2, BoundedInduction
  <2>4. \A k \in B : k \in 0..n /\ k # 0 BY <1>1
  <2> HIDE DEF Sound, Complete
  <2> QED BY <2>3, <2>4 DEF P
\* The climb is over after as many blocks as there are.
<1>11. \A t : ~ Left(n, t)
  <2>1. SUFFICES ASSUME NEW t, Left(n, t) PROVE FALSE OBVIOUS
  <2>2. n \in B BY <1>1
  <2>3. Depth(v[n]) + n <= n + 1 BY <1>10, <2>1, <2>2
  <2>4. Depth(t) < Depth(v[n]) BY <2>1, AboveGrows DEF Depth
  <2>5. Depth(t) = 0
    <3>1. Depth(t) \in Nat /\ Depth(v[n]) \in Nat BY <1>1, <1>6
    <3> QED BY <1>1, <2>3, <2>4, <3>1
  <2>6. Dominating(g, t) = {} BY <2>5, DominatingFinite, FS_EmptySet DEF Depth
  <2>7. t \in Dominating(g, t)
    <3>1. t \in g.reachable /\ t \in B BY <2>1, ReachableDef DEF Above
    <3> QED BY <3>1, EntryAbove DEF Dominating
  <2> QED BY <2>6, <2>7
<1>12. {v[k] : k \in B} \ {NoBlock} = T
  <2>1. n \in B BY <1>1
  <2>2. Complete(n) BY <1>10, <2>1
  <2>3. T \subseteq {v[k] : k \in B} BY <1>11, <2>2
  <2>4. \A k \in B : v[k] # NoBlock => v[k] \in T BY <1>10
  <2>5. NoBlock \notin T
    <3>1. NoBlock \notin B BY <1>1 DEF NoBlock
    <3> QED BY <3>1 DEF T, Passed
  <2> QED BY <2>3, <2>4, <2>5
<1> QED BY <1>4, <1>12 DEF im, T

\* b is in the frontier of what dominates a predecessor of b but does not
\* strictly dominate b.
LEMMA FrontierDef ==
  ASSUME NEW g, IsGraph(g), NEW b \in 1..g.exit, NEW c \in 1..g.exit
  PROVE  c \in DominanceFrontiers(g, Immediate(g))[b] <=>
           /\ \E p \in ReachablePred(g, c) : Above(g, b, p)
           /\ ~ (Above(g, b, c) /\ b # c)
<1> DEFINE n == g.exit
           B == 1..n
           im == Immediate(g)
           met == [x \in B |-> UNION {ClimbFrom(g, im, p, im[x]) : p \in ReachablePred(g, x)}]
           F(m) == [x \in B |-> {y \in B : x \in m[y]}]
<1>1. n \in Nat BY DEF IsGraph
<1>2. /\ im \in [B -> 0..n]
      /\ \A x \in B : im[x] # NoBlock => Closest(g, im[x], x)
      /\ \A x \in B : im[x] = NoBlock => \A y : ~ Closest(g, y, x)
  <2>1. \A x \in B : im[x] # NoBlock => im[x] \in B BY <1>1, ImmediateDef DEF NoBlock
  <2> QED BY <2>1, ImmediateDef
<1>3. Listed(met) = met
  <2>1. met = [x \in B |-> met[x]] OBVIOUS
  <2> HIDE DEF met
  <2> QED BY <1>1, <2>1, ListedIs
<1>4. DominanceFrontiers(g, im) = F(met)
  <2>1. DominanceFrontiers(g, im) = Listed(F(Listed(met))) BY DEF DominanceFrontiers
  <2> DEFINE f == F(met)
  <2>2. f = [x \in B |-> f[x]] OBVIOUS
  <2> HIDE DEF f, met
  <2>3. Listed(f) = f BY <1>1, <2>2, ListedIs
  <2> QED BY <1>3, <2>1, <2>3 DEF f
<1>5. c \in DominanceFrontiers(g, im)[b] <=> b \in met[c]
  <2> HIDE DEF met
  <2> QED BY <1>4
<1>6. met[c] = UNION {ClimbFrom(g, im, p, im[c]) : p \in ReachablePred(g, c)} OBVIOUS
<1> HIDE DEF met, im
<1>7. ASSUME NEW p \in ReachablePred(g, c)
      PROVE  b \in ClimbFrom(g, im, p, im[c]) <=> Above(g, b, p) /\ ~ (Above(g, b, c) /\ b # c)
  <2> DEFINE stop == im[c]
  <2>1. p \in g.reachable /\ c \in g.succ[p] /\ c \in g.reachable BY ReachableDef
  <2>2. stop \in 0..n BY <1>2
  <2>3. stop # NoBlock => Closest(g, stop, c) BY <1>2
  <2>4. stop = NoBlock => c = g.entry BY <1>2, <2>1, ClosestExists
  <2> HIDE DEF stop
  <2>5. stop # NoBlock => Above(g, stop, p)
    <3>1. stop # NoBlock => Above(g, stop, c) /\ stop # c BY <2>3 DEF Closest
    <3> QED BY <2>1, <3>1, AbovePredecessor
  <2>6. ClimbFrom(g, im, p, stop) = Passed(g, p, stop) BY <2>1, <2>2, <2>5, ClimbMeets DEF im
  <2>7. (stop # NoBlock => ~ Above(g, b, stop)) <=> ~ (Above(g, b, c) /\ b # c)
    <3>1. CASE stop # NoBlock BY <2>3, <3>1, ClosestDef
    <3>2. CASE stop = NoBlock
      <4>1. g.entry \in g.reachable BY ReachableDef
      <4>2. Above(g, b, g.entry) => b = g.entry BY <4>1, EntryAbove
      <4> QED BY <2>4, <3>2, <4>2
    <3> QED BY <3>1, <3>2
  <2> QED BY <2>6, <2>7 DEF Passed, stop
<1> QED BY <1>5, <1>6, <1>7 DEF im

\* In every graph, the analysis agrees with the paths.
THEOREM DominanceOfEveryGraph ==
  ASSUME NEW g, IsGraph(g)
  PROVE  DominanceIsByPaths(g, DominanceInfo(g))
<1> DEFINE B == 1..g.exit
           dom == PathDominators(g)
           info == DominanceInfo(g)
<1>1. dom = DominatingSets(g) BY PathDominatorsDef DEF DominatingSets
<1>2. Dominators(g) = DominatingSets(g) BY DominatorsDef DEF DominatingSets
<1>3. /\ info.dominators = DominatingSets(g)
      /\ info.idom = Immediate(g)
      /\ info.frontier = DominanceFrontiers(g, Immediate(g))
  BY <1>2 DEF DominanceInfo, Immediate
<1>4. \A x \in B : \A d : d \in dom[x] <=> Above(g, d, x)
  <2>1. \A x, d : Above(g, d, x) => d \in B BY ReachableDef DEF Above
  <2> QED BY <1>1, <2>1 DEF DominatingSets, Dominating
<1> HIDE DEF dom, info
<1>5. ASSUME NEW b \in B, NEW c \in B
      PROVE  /\ info.dominators[b] = dom[b]
             /\ info.idom[b] = c <=> c # b /\ c \in dom[b] /\ \A d \in dom[b] \ {b} : d \in dom[c]
             /\ c \in info.frontier[b] <=>
                  /\ \E p \in ReachablePred(g, c) : b \in dom[p]
                  /\ ~ (b \in dom[c] /\ b # c)
  <2>1. info.dominators[b] = dom[b] BY <1>1, <1>3
  <2>2. info.idom[b] = c <=> c # b /\ c \in dom[b] /\ \A d \in dom[b] \ {b} : d \in dom[c]
    <3>1. info.idom[b] = c <=> Closest(g, c, b) BY <1>3, ImmediateDef
    <3> QED BY <1>4, <3>1 DEF Closest
  <2>3. c \in info.frontier[b] <=>
          /\ \E p \in ReachablePred(g, c) : b \in dom[p]
          /\ ~ (b \in dom[c] /\ b # c)
    <3>1. \A p \in ReachablePred(g, c) : p \in B BY ReachableDef
    <3> QED BY <1>3, <1>4, <3>1, FrontierDef
  <2> QED BY <2>1, <2>2, <2>3
<1> QED BY <1>5 DEF DominanceIsByPaths, dom, info

-----------------------------------------------------------------------------
(* The graph of a stream.                                                  *)

\* A number above all of S.
LEMMA UptoAdded ==
  ASSUME NEW n \in Nat, NEW S \in SUBSET (1..n)
  PROVE  /\ IsFiniteSet(S) /\ Cardinality(S) \in Nat /\ n + 1 \notin S
         /\ Cardinality(S \cup {n + 1}) = Cardinality(S) + 1
         /\ Upto(S \cup {n + 1}, n + 1) = S \cup {n + 1}
         /\ \A j \in S : Upto(S \cup {n + 1}, j) = Upto(S, j)
<1>1. IsFiniteSet(1..n) BY FS_Interval
<1>2. IsFiniteSet(S) BY <1>1, FS_Subset
<1>3. Cardinality(S) \in Nat BY <1>2, FS_CardinalityType
<1>4. n + 1 \notin S OBVIOUS
<1>5. Cardinality(S \cup {n + 1}) = Cardinality(S) + 1 BY <1>2, <1>4, FS_AddElement
<1>6. Upto(S \cup {n + 1}, n + 1) = S \cup {n + 1}
  <2>1. \A k \in S \cup {n + 1} : k <= n + 1 OBVIOUS
  <2> QED BY <2>1 DEF Upto
<1>7. \A j \in S : Upto(S \cup {n + 1}, j) = Upto(S, j) BY DEF Upto
<1> QED BY <1>2, <1>3, <1>4, <1>5, <1>6, <1>7

\* The elements of S have the ranks up to its size.
LEMMA IthExists ==
  ASSUME NEW n \in Nat, NEW S \in SUBSET (1..n), NEW i \in 1..Cardinality(S)
  PROVE  \E j \in S : Cardinality(Upto(S, j)) = i
<1> DEFINE Has(T) == \A k \in 1..Cardinality(T) : \E j \in T : Cardinality(Upto(T, j)) = k
           Good == {m \in Nat : \A T \in SUBSET (1..m) : Has(T)}
<1>1. 0 \in Good
  <2>1. \A T \in SUBSET (1..0) : T = {} OBVIOUS
  <2>2. Has({}) BY FS_EmptySet
  <2> HIDE DEF Has
  <2> QED BY <2>1, <2>2
<1>2. ASSUME NEW m \in Nat, m \in Good PROVE m + 1 \in Good
  <2>1. ASSUME NEW T \in SUBSET (1..(m+1)) PROVE Has(T)
    <3> DEFINE P == T \ {m + 1}
    <3>1. P \in SUBSET (1..m) OBVIOUS
    <3>2. Has(P)
      <4> HIDE DEF P, Has
      <4> QED BY <1>2, <3>1
    <3>3. CASE m + 1 \notin T
      <4>1. T = P BY <3>3
      <4> HIDE DEF P, Has
      <4> QED BY <3>2, <4>1
    <3>4. CASE m + 1 \in T
      <4>1. T = P \cup {m + 1} BY <3>4
      <4> HIDE DEF P
      <4>2. /\ Cardinality(P) \in Nat /\ Cardinality(T) = Cardinality(P) + 1
            /\ Upto(T, m + 1) = T
            /\ \A j \in P : Upto(T, j) = Upto(P, j)
        BY <3>1, <4>1, UptoAdded
      <4>3. ASSUME NEW k \in 1..Cardinality(T)
            PROVE  \E j \in T : Cardinality(Upto(T, j)) = k
        <5>1. CASE k \in 1..Cardinality(P)
          <6>1. PICK j \in P : Cardinality(Upto(P, j)) = k BY <3>2, <5>1
          <6>2. j \in T /\ Upto(T, j) = Upto(P, j) BY <4>1, <4>2
          <6> QED BY <6>1, <6>2
        <5>2. CASE k = Cardinality(T) BY <3>4, <4>2, <5>2
        <5> QED BY <4>2, <5>1, <5>2
      <4> QED BY <4>3
    <3> QED BY <3>3, <3>4
  <2> HIDE DEF Has
  <2> QED BY <2>1
<1>3. Nat \subseteq Good
  <2> HIDE DEF Good
  <2> QED BY <1>1, <1>2, NatSetInduction
<1> HIDE DEF Has
<1>4. Has(S) BY <1>3
<1> QED BY <1>4 DEF Has

\* A list in order holds elements of its set, the least one first.
LEMMA InOrderDef ==
  ASSUME NEW n \in Nat, NEW S \in SUBSET (1..n)
  PROVE  /\ Cardinality(S) \in Nat
         /\ InOrder(S) \in [1..Cardinality(S) -> S] /\ Len(InOrder(S)) = Cardinality(S)
         /\ InOrder(S) \in Seq(S)
         /\ 1 \in S => /\ Cardinality(S) >= 1 /\ InOrder(S)[1] = 1
                       /\ \A k \in 2..Cardinality(S) : InOrder(S)[k] # 1
<1> DEFINE m == Cardinality(S)
           f == [i \in 1..m |-> IthOf(S, i)]
<1>1. IsFiniteSet(1..n) BY FS_Interval
<1>2. IsFiniteSet(S) BY <1>1, FS_Subset
<1>3. m \in Nat BY <1>2, FS_CardinalityType
<1>4. \A i \in 1..m : IthOf(S, i) \in S /\ Cardinality(Upto(S, IthOf(S, i))) = i
  <2> TAKE i \in 1..m
  <2> DEFINE Of(j) == Cardinality(Upto(S, j)) = i
  <2>1. \E j \in S : Of(j) BY IthExists
  <2>2. IthOf(S, i) = CHOOSE j \in S : Of(j) BY DEF IthOf
  <2> HIDE DEF Of
  <2>3. IthOf(S, i) \in S /\ Of(IthOf(S, i)) BY <2>1, <2>2
  <2> QED BY <2>3 DEF Of
<1>5. InOrder(S) = f
  <2>1. InOrder(S) = Listed(f) BY DEF InOrder
  <2>2. f = [i \in 1..m |-> f[i]] OBVIOUS
  <2> HIDE DEF f, m
  <2> QED BY <1>3, <2>1, <2>2, ListedIs
<1>6. f \in [1..m -> S] BY <1>4
<1>7. f \in Seq(S) /\ Len(f) = m
  <2> HIDE DEF f, m
  <2> QED BY <1>3, <1>6
<1>8. ASSUME 1 \in S PROVE m >= 1 /\ f[1] = 1 /\ \A k \in 2..m : f[k] # 1
  <2>1. Upto(S, 1) = {1}
    <3>1. \A j \in S : j \in Nat /\ (j <= 1 <=> j = 1) OBVIOUS
    <3> QED BY <1>8, <3>1 DEF Upto
  <2>2. Cardinality(Upto(S, 1)) = 1 BY <2>1, FS_Singleton
  <2>3. Cardinality(S) # 0 BY <1>2, <1>8, FS_EmptySet
  <2>4. m >= 1 BY <1>3, <2>3
  <2>5. \A k \in 2..m : f[k] # 1
    <3> TAKE k \in 2..m
    <3>1. k \in 1..m /\ k # 1 BY <1>3
    <3>2. f[k] = IthOf(S, k) /\ Cardinality(Upto(S, f[k])) = k BY <1>4, <3>1
    <3> QED BY <2>2, <3>1, <3>2
  <2>6. f[1] = 1
    <3>1. 1 \in 1..m BY <1>3, <2>4
    <3>2. f[1] \in S /\ Cardinality(Upto(S, f[1])) = 1 BY <1>4, <3>1
    <3>3. {1, f[1]} \subseteq Upto(S, f[1])
      <4>1. f[1] \in 1..n BY <3>2
      <4> HIDE DEF f
      <4> QED BY <1>8, <3>2, <4>1 DEF Upto
    <3>4. IsFiniteSet(Upto(S, f[1]))
      <4>1. Upto(S, f[1]) \subseteq S BY DEF Upto
      <4> QED BY <1>2, <4>1, FS_Subset
    <3> HIDE DEF f
    <3>5. PICK x : Upto(S, f[1]) = {x} BY <3>2, <3>4, FS_Singleton
    <3> QED BY <3>3, <3>5
  <2> QED BY <2>4, <2>5, <2>6
<1> QED BY <1>3, <1>5, <1>6, <1>7, <1>8

\* Blocks start inside the stream, the first one at its start.
LEMMA LeadersDef ==
  ASSUME NEW Instr, NEW stream \in Seq(Instr), TargetsInRange(stream)
  PROVE  /\ Leaders(stream) \in SUBSET (1..Len(stream))
         /\ stream # <<>> => 1 \in Leaders(stream)
         /\ stream = <<>> => Leaders(stream) = {}
<1> DEFINE n == Len(stream)
           After == {i + 1 : i \in {j \in 1..n - 1 : IsTerminator(stream[j].op)}}
           Jumps == {j \in DOMAIN stream : IsJump(stream[j].op)}
           Inside == {t \in {stream[i].at : i \in Jumps} : t <= n}
<1>1. n \in Nat /\ DOMAIN stream = 1..n /\ (stream # <<>> => n >= 1) /\ (stream = <<>> => n = 0) OBVIOUS
<1>2. Leaders(stream) = (IF stream = <<>> THEN {} ELSE {1}) \cup After \cup Inside BY DEF Leaders
<1>3. After \subseteq 1..n BY <1>1
<1>4. Inside \subseteq 1..n
  <2>1. \A i \in Jumps : stream[i].at \in 1..n + 1 BY DEF TargetsInRange
  <2>2. \A t \in 1..n + 1 : t <= n => t \in 1..n BY <1>1
  <2> HIDE DEF Jumps, n
  <2> QED BY <2>1, <2>2
<1>5. stream = <<>> => After = {} /\ Inside = {}
  <2>1. stream = <<>> => 1..n = {} BY <1>1
  <2> HIDE DEF After, Inside, n
  <2> QED BY <1>3, <1>4, <2>1
<1> HIDE DEF After, Inside, n
<1>6. stream # <<>> => 1 \in 1..n BY <1>1
<1> QED BY <1>2, <1>3, <1>4, <1>5, <1>6 DEF n

\* Every stream whose jumps lead into it or to its end has a graph.
LEMMA ControlFlowGraphDef ==
  ASSUME NEW Instr, NEW stream \in Seq(Instr), TargetsInRange(stream)
  PROVE  /\ IsGraph(ControlFlowGraph(stream))
         /\ ControlFlowGraph(stream).succ[ControlFlowGraph(stream).exit] = {}
<1> DEFINE L == Leaders(stream)
           starts == InOrder(L)
           n == Cardinality(L)
           exit == Len(starts) + 1
           past == Len(stream) + 1
           first == Append(starts, past)
           end == [b \in 1..exit |-> IF b >= exit - 1 THEN past ELSE starts[b + 1]]
           within(i) == {k \in DOMAIN starts : starts[k] <= i}
           blocks == [i \in 1..past |-> IF i = past THEN exit ELSE Cardinality(within(i))]
           blockOf == Listed(blocks)
           out == [b \in 1..exit |-> IF b = exit THEN {} ELSE Successors(stream, end[b], blockOf)]
           succ == Listed(out)
           into == [b \in 1..exit |-> {a \in 1..exit : b \in succ[a]}]
           pred == Listed(into)
<1>1. ControlFlowGraph(stream) =
        [entry |-> 1, exit |-> exit, first |-> first, end |-> Listed(end), blockOf |-> blockOf,
         succ |-> succ, pred |-> pred, reachable |-> Reached(1, exit, succ)]
  BY DEF ControlFlowGraph
<1>2. Len(stream) \in Nat /\ DOMAIN stream = 1..Len(stream) /\ (stream # <<>> => Len(stream) >= 1)
  OBVIOUS
<1>3. /\ L \in SUBSET (1..Len(stream)) /\ (stream # <<>> => 1 \in L) /\ (stream = <<>> => L = {})
  BY LeadersDef
<1> HIDE DEF L
<1>4. /\ n \in Nat /\ starts \in [1..n -> L] /\ Len(starts) = n
      /\ 1 \in L => n >= 1 /\ starts[1] = 1 /\ \A k \in 2..n : starts[k] # 1
  BY <1>2, <1>3, InOrderDef
<1>5. stream = <<>> => n = 0 BY <1>3, FS_EmptySet
<1> HIDE DEF starts, n
<1>6. exit = n + 1 /\ exit \in Nat /\ exit >= 1 /\ exit - 1 = n BY <1>4
<1>7. past \in Nat /\ past >= 1 /\ past - 1 = Len(stream) /\ \A i \in 1..past : i # past => i \in 1..Len(stream)
  BY <1>2
<1> HIDE DEF past
<1>8. blocks \in [1..past -> 1..exit]
  <2>1. ASSUME NEW i \in 1..past, i # past PROVE Cardinality(within(i)) \in 1..exit
    <3>1. stream # <<>> BY <1>2, <1>7, <2>1
    <3>2. n >= 1 /\ starts[1] = 1 BY <1>3, <1>4, <3>1
    <3>3. DOMAIN starts = 1..n BY <1>4
    <3>4. 1 \in within(i) BY <1>4, <2>1, <3>2, <3>3
    <3>5. IsFiniteSet(1..n) /\ Cardinality(1..n) = n BY <1>4, FS_Interval
    <3>6. within(i) \subseteq 1..n BY <3>3
    <3>7. IsFiniteSet(within(i)) /\ Cardinality(within(i)) <= n BY <3>5, <3>6, FS_Subset
    <3>8. Cardinality(within(i)) \in Nat /\ Cardinality(within(i)) # 0
      <4> HIDE DEF within
      <4> QED BY <3>4, <3>7, FS_CardinalityType, FS_EmptySet
    <3> HIDE DEF within, exit
    <3> QED BY <1>4, <1>6, <3>7, <3>8
  <2>2. exit \in 1..exit BY <1>6
  <2> HIDE DEF within, exit
  <2> QED BY <2>1, <2>2
<1>9. blockOf = blocks
  <2>1. blocks = [i \in 1..past |-> blocks[i]] OBVIOUS
  <2> HIDE DEF blocks
  <2> QED BY <1>7, <2>1, ListedIs
<1> HIDE DEF blocks, blockOf
<1>10. ASSUME NEW b \in 1..exit, b # exit
       PROVE  end[b] \in 1..past /\ end[b] - 1 \in 1..Len(stream)
  <2>1. b \in 1..n /\ n >= 1
    <3>1. b \in 1..exit /\ b # exit BY <1>10
    <3> HIDE DEF exit
    <3> QED BY <1>4, <1>6, <3>1
  <2>2. stream # <<>> BY <1>5, <2>1
  <2>3. Len(stream) >= 1 BY <1>2, <2>2
  <2>4. CASE b >= exit - 1
    <3>1. end[b] = past BY <2>4
    <3> QED BY <1>2, <1>7, <2>3, <3>1
  <2>5. CASE ~ (b >= exit - 1)
    <3>1. b + 1 \in 2..n /\ b + 1 \in 1..n BY <1>4, <1>6, <2>1, <2>5
    <3>2. starts[b + 1] \in 1..Len(stream) /\ starts[b + 1] # 1 BY <1>3, <1>4, <2>2, <3>1
    <3>3. end[b] = starts[b + 1] BY <2>5
    <3> HIDE DEF end
    <3> QED BY <1>2, <1>7, <3>2, <3>3
  <2> QED BY <2>4, <2>5
<1> HIDE DEF exit, end
<1>11. out \in [1..exit -> SUBSET (1..exit)]
  <2>1. ASSUME NEW b \in 1..exit, b # exit PROVE Successors(stream, end[b], blockOf) \in SUBSET (1..exit)
    <3> DEFINE last == stream[end[b] - 1]
    <3>1. blockOf[end[b]] \in 1..exit BY <1>8, <1>9, <1>10, <2>1
    <3>2. blockOf[Len(stream) + 1] \in 1..exit BY <1>7, <1>8, <1>9 DEF past
    <3>3. IsJump(last.op) => blockOf[last.at] \in 1..exit
      <4>1. IsJump(last.op) => last.at \in 1..past BY <1>2, <1>10, <2>1 DEF TargetsInRange, past
      <4> QED BY <1>8, <1>9, <4>1
    <3> HIDE DEF last
    <3>4. Successors(stream, end[b], blockOf) =
            CASE last.op = "Jump"       -> {blockOf[last.at]}
              [] IsConditional(last.op) -> {blockOf[end[b]], blockOf[last.at]}
              [] last.op = "Return"     -> {blockOf[Len(stream) + 1]}
              [] OTHER                  -> {blockOf[end[b]]}
      BY DEF Successors, last
    <3>5. CASE last.op = "Jump" BY <3>3, <3>4, <3>5 DEF IsJump, IsConditional
    <3>6. CASE IsConditional(last.op) BY <3>1, <3>3, <3>4, <3>6 DEF IsJump, IsConditional
    <3>7. CASE last.op = "Return" BY <3>2, <3>4, <3>7 DEF IsConditional
    <3>8. CASE ~ (last.op = "Jump" \/ IsConditional(last.op) \/ last.op = "Return")
      BY <3>1, <3>4, <3>8
    <3> QED BY <3>5, <3>6, <3>7, <3>8
  <2> QED BY <2>1
<1>12. succ = out
  <2>1. out = [b \in 1..exit |-> out[b]] OBVIOUS
  <2> HIDE DEF out
  <2> QED BY <1>6, <2>1, ListedIs
<1>13. pred = into
  <2>1. into = [b \in 1..exit |-> into[b]] OBVIOUS
  <2> HIDE DEF into
  <2> QED BY <1>6, <2>1, ListedIs
<1>14. 1 \in 1..exit /\ exit \in 1..exit BY <1>6
<1>15. succ[exit] = {} BY <1>12, <1>14
<1> HIDE DEF out, succ, pred
<1> QED BY <1>1, <1>6, <1>11, <1>12, <1>13, <1>14, <1>15 DEF IsGraph

\* Ranks: the listed elements stand in their order, each at its rank.
LEMMA RanksDef ==
  ASSUME NEW n \in Nat, NEW S \in SUBSET (1..n)
  PROVE  LET m == Cardinality(S) f == InOrder(S) R(i) == Cardinality(Upto(S, i)) IN
         /\ \A i \in Int : R(i) \in 0..m
         /\ \A k \in 1..m : f[k] \in S /\ R(f[k]) = k
         /\ \A x \in S : R(x) \in 1..m /\ f[R(x)] = x
         /\ \A i \in Int : \A k \in 1..m : f[k] <= i <=> k <= R(i)
<1> DEFINE m == Cardinality(S)
           f == InOrder(S)
           R(i) == Cardinality(Upto(S, i))
<1>1. IsFiniteSet(S) /\ m \in Nat
  <2>1. IsFiniteSet(1..n) BY FS_Interval
  <2>2. IsFiniteSet(S) BY <2>1, FS_Subset
  <2> QED BY <2>2, FS_CardinalityType
<1>2. \A i : IsFiniteSet(Upto(S, i)) /\ R(i) \in Nat /\ R(i) <= m
  <2> TAKE i
  <2>1. Upto(S, i) \subseteq S BY DEF Upto
  <2>2. IsFiniteSet(Upto(S, i)) /\ R(i) <= m BY <1>1, <2>1, FS_Subset
  <2> QED BY <2>2, FS_CardinalityType
<1>3. \A k \in 1..m : f[k] \in S /\ R(f[k]) = k
  <2> TAKE k \in 1..m
  <2> DEFINE Of(j) == R(j) = k
             g == [i \in 1..m |-> IthOf(S, i)]
  <2>1. \E j \in S : Of(j) BY IthExists
  <2>2. IthOf(S, k) = CHOOSE j \in S : Of(j) BY DEF IthOf
  <2> HIDE DEF Of
  <2>3. IthOf(S, k) \in S /\ Of(IthOf(S, k)) BY <2>1, <2>2
  <2>4. f = g
    <3>1. InOrder(S) = Listed(g) BY DEF InOrder
    <3>2. g = [i \in 1..m |-> g[i]] OBVIOUS
    <3> HIDE DEF g, m
    <3> QED BY <1>1, <3>1, <3>2, ListedIs
  <2>5. f[k] = IthOf(S, k) BY <2>4
  <2> QED BY <2>3, <2>5 DEF Of
<1>4. ASSUME NEW i \in Int, NEW j \in Int, i <= j PROVE R(i) <= R(j)
  <2>1. Upto(S, i) \subseteq Upto(S, j)
    <3>1. \A x \in S : x <= i => x <= j BY <1>4
    <3> QED BY <3>1 DEF Upto
  <2> QED BY <1>2, <2>1, FS_Subset
<1>5. ASSUME NEW i \in Int, NEW x \in S, i < x PROVE R(i) < R(x)
  <2>1. Upto(S, i) \subseteq Upto(S, x) /\ x \in Upto(S, x) /\ x \notin Upto(S, i)
    <3>1. x \in Int /\ x <= x /\ ~ (x <= i) BY <1>5
    <3>2. \A y \in S : y <= i => y <= x BY <1>5
    <3> QED BY <3>1, <3>2 DEF Upto
  <2>2. R(i) <= R(x) /\ (R(x) = R(i) => Upto(S, x) = Upto(S, i)) BY <1>2, <2>1, FS_Subset
  <2>3. R(i) \in Nat /\ R(x) \in Nat BY <1>2
  <2> HIDE DEF R
  <2> QED BY <2>1, <2>2, <2>3
<1>6. \A x \in S : x \in Int OBVIOUS
<1> HIDE DEF m, f, R
<1>7. ASSUME NEW i \in Int, NEW k \in 1..m PROVE f[k] <= i <=> k <= R(i)
  <2>1. f[k] \in S /\ f[k] \in Int /\ R(f[k]) = k BY <1>3, <1>6
  <2>2. f[k] <= i => k <= R(i) BY <1>4, <2>1
  <2>3. i < f[k] => R(i) < k BY <1>5, <2>1
  <2>4. R(i) \in Nat /\ k \in Nat BY <1>2
  <2> QED BY <2>1, <2>2, <2>3, <2>4
<1>8. ASSUME NEW x \in S PROVE R(x) \in 1..m /\ f[R(x)] = x
  <2>1. R(x) \in Nat /\ R(x) <= m /\ R(x) # 0
    <3>1. x \in Upto(S, x) BY <1>6 DEF Upto
    <3>2. R(x) # 0 BY <1>2, <3>1, FS_EmptySet DEF R
    <3> QED BY <1>2, <3>2
  <2>2. R(x) \in 1..m BY <1>1, <2>1
  <2>3. f[R(x)] \in S /\ R(f[R(x)]) = R(x) BY <1>3, <2>2
  <2>4. x \in Int /\ f[R(x)] \in Int BY <1>6, <2>3
  <2>5. ~ (x < f[R(x)]) BY <1>5, <2>1, <2>3, <2>4
  <2>6. ~ (f[R(x)] < x) BY <1>5, <2>1, <2>3, <2>4
  <2> QED BY <2>2, <2>4, <2>5, <2>6
<1>9. \A i \in Int : R(i) \in 0..m BY <1>1, <1>2
<1> QED BY <1>3, <1>7, <1>8, <1>9 DEF m, f, R

\* The blocks of a graph, by the leaders of its stream and their ranks.
LEMMA BlocksDef ==
  ASSUME NEW Instr, NEW stream \in Seq(Instr), TargetsInRange(stream)
  PROVE  LET g == ControlFlowGraph(stream) f == InOrder(Leaders(stream))
             m == Cardinality(Leaders(stream)) past == Len(stream) + 1 IN
         /\ m \in Nat /\ f \in [1..m -> 1..Len(stream)]
         /\ g.entry = 1 /\ g.exit = m + 1
         /\ \A b \in 1..m : g.first[b] = f[b]
         /\ g.first[m + 1] = past
         /\ \A b \in 1..m + 1 : g.end[b] = IF b >= m THEN past ELSE f[b + 1]
         /\ \A i \in 1..Len(stream) : g.blockOf[i] = Cardinality(Upto(Leaders(stream), i))
         /\ g.blockOf[past] = m + 1
<1> DEFINE g == ControlFlowGraph(stream)
           L == Leaders(stream)
           f == InOrder(L)
           m == Cardinality(L)
           exit == Len(f) + 1
           past == Len(stream) + 1
           ends == [b \in 1..exit |-> IF b >= exit - 1 THEN past ELSE f[b + 1]]
           blocks == [i \in 1..past |-> IF i = past THEN exit ELSE Cardinality({k \in DOMAIN f : f[k] <= i})]
<1>1. g.entry = 1 /\ g.exit = exit /\ g.first = Append(f, past) /\ g.end = Listed(ends) /\ g.blockOf = Listed(blocks)
  BY DEF ControlFlowGraph
<1>2. Len(stream) \in Nat OBVIOUS
<1>3. L \in SUBSET (1..Len(stream)) BY LeadersDef
<1> HIDE DEF g, L
<1>4. m \in Nat /\ f \in [1..m -> L] /\ Len(f) = m /\ f \in Seq(L) BY <1>2, <1>3, InOrderDef
<1>5. \A i \in Int : \A k \in 1..m : f[k] <= i <=> k <= Cardinality(Upto(L, i)) BY <1>2, <1>3, RanksDef
<1>6. \A i \in Int : Cardinality(Upto(L, i)) \in 0..m BY <1>2, <1>3, RanksDef
<1> HIDE DEF f, m
<1>7. Listed(ends) = ends
  <2>1. ends = [b \in 1..exit |-> ends[b]] OBVIOUS
  <2>2. exit \in Nat BY <1>4
  <2> HIDE DEF ends, exit
  <2> QED BY <2>1, <2>2, ListedIs
<1>8. Listed(blocks) = blocks
  <2>1. blocks = [i \in 1..past |-> blocks[i]] OBVIOUS
  <2>2. past \in Nat BY <1>2
  <2> HIDE DEF blocks, past
  <2> QED BY <2>1, <2>2, ListedIs
<1>9. ASSUME NEW i \in 1..Len(stream) PROVE blocks[i] = Cardinality(Upto(L, i))
  <2> DEFINE R == Cardinality(Upto(L, i))
  <2>1. i \in Int /\ i # past /\ i \in 1..past BY <1>2
  <2>2. R \in 0..m /\ \A k \in 1..m : f[k] <= i <=> k <= R BY <1>5, <1>6, <2>1
  <2>3. blocks[i] = Cardinality({k \in DOMAIN f : f[k] <= i}) BY <2>1
  <2> HIDE DEF R
  <2>4. {k \in DOMAIN f : f[k] <= i} = 1..R
    <3>1. DOMAIN f = 1..m BY <1>4
    <3>2. \A k \in 1..R : k \in 1..m /\ k <= R BY <1>4, <2>2
    <3>3. \A k \in 1..m : k <= R => k \in 1..R BY <1>4, <2>2
    <3> QED BY <2>2, <3>1, <3>2, <3>3
  <2>5. Cardinality(1..R) = R
    <3>1. R \in Nat BY <1>4, <2>2
    <3> QED BY <3>1, FS_Interval
  <2> QED BY <2>3, <2>4, <2>5 DEF R
<1>10. blocks[past] = m + 1 BY <1>2, <1>4
<1>11. \A b \in 1..m + 1 : ends[b] = IF b >= m THEN past ELSE f[b + 1] BY <1>4
<1>12. /\ \A b \in 1..m : Append(f, past)[b] = f[b]
       /\ Append(f, past)[m + 1] = past
  <2>1. f \in Seq(Int) /\ past \in Int
    <3>1. f \in [1..m -> Int]
      <4>1. L \subseteq Int BY <1>3
      <4> QED BY <1>4, <4>1
    <3>2. f \in Seq(Int) BY <1>4, <3>1
    <3> QED BY <1>2, <3>2
  <2> QED BY <1>4, <2>1
<1>13. f \in [1..m -> 1..Len(stream)] BY <1>3, <1>4
<1> HIDE DEF blocks, ends
<1> QED BY <1>1, <1>4, <1>7, <1>8, <1>9, <1>10, <1>11, <1>12, <1>13 DEF f, m, L, g

\* Every stream's graph passes the check that the code makes of it, and its
\* blocks are entered at their first instruction and left at their last.
THEOREM GraphOfEveryStream ==
  ASSUME NEW Instr, NEW stream \in Seq(Instr), TargetsInRange(stream)
  PROVE  /\ GraphVerified(stream, ControlFlowGraph(stream))
         /\ BlocksAreStraight(stream, ControlFlowGraph(stream))
<1> DEFINE g == ControlFlowGraph(stream)
           L == Leaders(stream)
           f == InOrder(L)
           m == Cardinality(L)
           past == Len(stream) + 1
           R(i) == Cardinality(Upto(L, i))
<1>1. Len(stream) \in Nat /\ DOMAIN stream = 1..Len(stream) /\ (stream = <<>> <=> Len(stream) = 0) OBVIOUS
<1>2. /\ m \in Nat /\ f \in [1..m -> 1..Len(stream)]
      /\ g.entry = 1 /\ g.exit = m + 1
      /\ \A b \in 1..m : g.first[b] = f[b]
      /\ g.first[m + 1] = past
      /\ \A b \in 1..m + 1 : g.end[b] = IF b >= m THEN past ELSE f[b + 1]
      /\ \A i \in 1..Len(stream) : g.blockOf[i] = R(i)
      /\ g.blockOf[past] = m + 1
  BY BlocksDef
<1>3. L \in SUBSET (1..Len(stream)) /\ (stream # <<>> => 1 \in L) /\ (stream = <<>> => L = {}) BY LeadersDef
<1>4. /\ \A i \in Int : R(i) \in 0..m
      /\ \A k \in 1..m : f[k] \in L /\ R(f[k]) = k
      /\ \A x \in L : R(x) \in 1..m /\ f[R(x)] = x
      /\ \A i \in Int : \A k \in 1..m : f[k] <= i <=> k <= R(i)
  BY <1>1, <1>3, RanksDef
<1>5. 1 \in L => m >= 1 /\ f[1] = 1 BY <1>1, <1>3, InOrderDef
<1>6. stream = <<>> => m = 0 BY <1>3, FS_EmptySet
<1>7. IsGraph(g) BY ControlFlowGraphDef
<1>8. \A i \in 1..Len(stream) - 1 : IsTerminator(stream[i].op) => i + 1 \in L BY DEF Leaders
<1>9. \A i \in DOMAIN stream : IsJump(stream[i].op) /\ stream[i].at <= Len(stream) => stream[i].at \in L
  BY DEF Leaders
<1> HIDE DEF g, L, f, m, R
<1>10. \A k \in 1..m : f[k] \in Nat /\ f[k] >= 1 /\ f[k] <= Len(stream) BY <1>1, <1>2
<1>11. ASSUME NEW b \in 1..m
       PROVE  /\ g.first[b] = f[b] /\ g.first[b] < g.end[b] /\ g.end[b] = g.first[b + 1]
              /\ g.end[b] = IF b = m THEN past ELSE f[b + 1]
              /\ g.end[b] \in Nat
  <2>1. b \in Nat /\ b \in 1..m + 1 /\ f[b] \in Nat /\ f[b] < past BY <1>1, <1>2, <1>10
  <2>2. CASE b = m
    <3>1. b >= m BY <1>2, <2>2
    <3> QED BY <1>1, <1>2, <2>1, <2>2, <3>1
  <2>3. CASE b # m
    <3>1. b + 1 \in 1..m /\ ~ (b >= m) BY <1>2, <2>1, <2>3
    <3>2. g.end[b] = f[b + 1] /\ g.first[b + 1] = f[b + 1] BY <1>2, <2>1, <3>1
    <3>3. ~ (f[b + 1] <= f[b])
      <4>1. R(f[b]) = b BY <1>4
      <4>2. ~ (b + 1 <= R(f[b])) BY <2>1, <4>1
      <4>3. f[b] \in Int BY <2>1
      <4>4. f[b + 1] <= f[b] <=> b + 1 <= R(f[b]) BY <1>4, <3>1, <4>3
      <4> QED BY <4>2, <4>4
    <3>4. f[b + 1] \in Nat BY <1>10, <3>1
    <3> QED BY <1>2, <2>1, <2>3, <3>2, <3>3, <3>4
  <2> QED BY <2>2, <2>3
<1>12. ASSUME NEW i \in 1..Len(stream)
       PROVE  g.blockOf[i] \in 1..m /\ i \in g.first[g.blockOf[i]]..g.end[g.blockOf[i]] - 1
  <2> DEFINE b == R(i)
  <2>1. i \in Int /\ i < past /\ i >= 1 /\ stream # <<>> BY <1>1
  <2>2. b \in 0..m BY <1>4, <2>1
  <2> HIDE DEF b
  <2>3. b \in 1..m
    <3>1. m >= 1 /\ f[1] = 1 BY <1>3, <1>5, <2>1
    <3>2. 1 \in 1..m BY <1>2, <3>1
    <3>3. 1 <= b BY <1>4, <2>1, <3>1, <3>2 DEF b
    <3> QED BY <1>2, <2>2, <3>3
  <2>4. f[b] <= i
    <3>1. b <= R(i) BY <1>2, <2>2 DEF b
    <3> QED BY <1>4, <2>1, <2>3, <3>1
  <2>5. i < g.end[b]
    <3>1. CASE b = m BY <1>11, <2>1, <2>3, <3>1
    <3>2. CASE b # m
      <4>1. b + 1 \in 1..m /\ ~ (b + 1 <= b) BY <1>2, <2>3, <3>2
      <4>2. ~ (f[b + 1] <= i) BY <1>4, <2>1, <4>1 DEF b
      <4>3. g.end[b] = f[b + 1] /\ f[b + 1] \in Nat BY <1>10, <1>11, <2>3, <3>2, <4>1
      <4> QED BY <2>1, <4>2, <4>3
    <3> QED BY <3>1, <3>2
  <2>6. g.first[b] = f[b] /\ g.end[b] \in Nat /\ f[b] \in Nat BY <1>10, <1>11, <2>3
  <2>7. g.blockOf[i] = b BY <1>2 DEF b
  <2>8. i \in f[b]..g.end[b] - 1 BY <2>1, <2>4, <2>5, <2>6
  <2> QED BY <2>3, <2>6, <2>7, <2>8
<1>13. GraphVerified(stream, g)
  <2>1. g.entry \in 1..g.exit /\ g.exit - 1 = m BY <1>2
  <2>2. g.first[1] = 1
    <3>1. CASE stream = <<>> BY <1>1, <1>2, <1>6, <3>1
    <3>2. CASE stream # <<>>
      <4>1. 1 \in 1..m /\ f[1] = 1 BY <1>2, <1>3, <1>5, <3>2
      <4> QED BY <1>2, <4>1
    <3> QED BY <3>1, <3>2
  <2>3. g.first[g.exit] = past /\ g.end[g.exit] = past
    <3>1. m + 1 \in 1..m + 1 /\ m + 1 >= m BY <1>2
    <3> QED BY <1>2, <3>1
  <2>4. /\ \A a, b \in 1..g.exit : b \in g.succ[a] <=> a \in g.pred[b]
        /\ \A b \in 1..g.exit : g.succ[b] \cup g.pred[b] \subseteq 1..g.exit
        /\ g.reachable = Reached(g.entry, g.exit, g.succ)
    BY <1>7 DEF IsGraph
  <2>5. g.succ[g.exit] = {} BY ControlFlowGraphDef DEF g
  <2> QED BY <1>11, <1>12, <2>1, <2>2, <2>3, <2>4, <2>5 DEF GraphVerified
<1>14. BlocksAreStraight(stream, g)
  <2>1. ASSUME NEW b \in 1..g.exit - 1, NEW i \in g.first[b]..g.end[b] - 1, IsTerminator(stream[i].op)
        PROVE  i = g.end[b] - 1
    <3>1. b \in 1..m BY <1>2
    <3>2. /\ g.first[b] = f[b] /\ f[b] \in Nat /\ g.end[b] \in Nat
          /\ g.end[b] = IF b = m THEN past ELSE f[b + 1]
      BY <1>10, <1>11, <3>1
    <3>3. SUFFICES ASSUME i # g.end[b] - 1 PROVE FALSE OBVIOUS
    <3>4. i \in Int /\ f[b] <= i /\ i + 1 < g.end[b] BY <2>1, <3>2, <3>3
    <3>5. g.end[b] <= past
      <4>1. CASE b = m BY <1>1, <3>2, <4>1
      <4>2. CASE b # m
        <5>1. b + 1 \in 1..m BY <1>2, <3>1, <4>2
        <5> QED BY <1>1, <1>10, <3>2, <4>2, <5>1
      <4> QED BY <4>1, <4>2
    <3>6. i \in 1..Len(stream) - 1 BY <1>1, <1>10, <3>1, <3>2, <3>4, <3>5
    <3>7. i + 1 \in L BY <1>8, <2>1, <3>6
    <3> DEFINE k == R(i + 1)
    <3>8. k \in 1..m /\ f[k] = i + 1 BY <1>4, <3>7
    <3> HIDE DEF k
    <3>9. ~ (k <= b)
      <4>1. R(f[b]) = b BY <1>4, <3>1
      <4>2. ~ (f[k] <= f[b]) BY <3>2, <3>4, <3>8
      <4>3. f[b] \in Int BY <3>2
      <4>4. f[k] <= f[b] <=> k <= R(f[b]) BY <1>4, <3>8, <4>3
      <4> QED BY <4>1, <4>2, <4>4
    <3>10. b # m /\ b + 1 \in 1..m /\ b + 1 <= k BY <1>2, <3>1, <3>8, <3>9
    <3>11. f[b + 1] <= i + 1
      <4>1. i + 1 \in Int BY <3>4
      <4> QED BY <1>4, <3>10, <4>1 DEF k
    <3>12. f[b + 1] \in Nat BY <1>10, <3>10
    <3> QED BY <3>2, <3>4, <3>10, <3>11, <3>12
  <2>2. ASSUME NEW i \in DOMAIN stream, IsJump(stream[i].op)
        PROVE  g.first[g.blockOf[stream[i].at]] = stream[i].at
    <3> DEFINE at == stream[i].at
    <3>1. at \in 1..Len(stream) + 1 BY <2>2 DEF TargetsInRange
    <3>2. at <= Len(stream) => at \in L BY <1>9, <2>2
    <3> HIDE DEF at
    <3>3. CASE at = past BY <1>2, <3>3 DEF at
    <3>4. CASE at # past
      <4>1. at \in 1..Len(stream) BY <1>1, <3>1, <3>4
      <4>2. at \in L BY <3>2, <4>1
      <4>3. R(at) \in 1..m /\ f[R(at)] = at BY <1>4, <4>2
      <4>4. g.blockOf[at] = R(at) /\ g.first[R(at)] = f[R(at)] BY <1>2, <4>1, <4>3
      <4> QED BY <4>3, <4>4 DEF at
    <3> QED BY <3>3, <3>4
  <2> QED BY <2>1, <2>2 DEF BlocksAreStraight
<1> QED BY <1>13, <1>14 DEF g

\* What the optimizer asks of every stream it is given: dominators, immediate
\* dominators and frontiers are those of the paths of its graph.
THEOREM DominanceOfEveryStream ==
  ASSUME NEW Instr, NEW stream \in Seq(Instr), TargetsInRange(stream)
  PROVE  DominanceIsByPaths(ControlFlowGraph(stream), DominanceInfo(ControlFlowGraph(stream)))
BY ControlFlowGraphDef, DominanceOfEveryGraph
=============================================================================
