---------------------------- MODULE LinkerProofs ----------------------------
(***************************************************************************)
(* What holds of the linker for every list of products and every bound on  *)
(* the registers: its verdict is the one the products deserve, and what it *)
(* puts together keeps the order of the dependencies and what every        *)
(* instruction names.                                                      *)
(***************************************************************************)
EXTENDS Linker, WellFoundedInduction, FiniteSetTheorems, SequenceTheorems, TLAPS

-----------------------------------------------------------------------------
(* The invariant.                                                          *)

Maps == UNION {[S -> Nat] : S \in SUBSET Nat}
Frames == [id : STRING, local : Nat, dep : Nat, globals : Maps]
Contexts == [consts : Nat, names : Nat, funs : Nat, sources : Nat, regs : Nat]
Programs ==
  [consts : Seq(Values), names : Seq(STRING), sources : Seq(STRING), funs : Seq(Bodies), main : Bodies]

CanGoOn == {"reading", "linking", "linked"}

\* The products read so far are valid, and each is found under its identity.
ModulesOK(n) ==
  /\ \A k \in 1..n : /\ input.products[k].id \in DOMAIN modules
                     /\ modules[input.products[k].id] = input.products[k]
                     /\ ProgramValid(input.products[k]) /\ EnvelopeValid(input.products[k])
  /\ \A id \in DOMAIN modules : \E k \in 1..n : input.products[k].id = id
  /\ \A j, k \in 1..n : input.products[j].id = input.products[k].id => j = k

ReadOK ==
  /\ given \in Seq(ModuleArtifacts)
  /\ Len(given) <= Len(input.products)
  /\ LET n == Len(input.products) - Len(given) IN
     /\ \A k \in DOMAIN given : given[k] = input.products[n + k]
     /\ ModulesOK(n)
  /\ verdict = "reading" =>
       /\ stack = <<>> /\ expanded = {} /\ order = <<>> /\ bases = <<>>
       /\ linked = NothingLinked

\* The modules being expanded: each waits for the one above it, and has
\* emitted its instructions up to where it stands.
FrameOK(k) ==
  LET f == stack[k]
      m == modules[f.id]
  IN /\ f.id \in DOMAIN modules
     /\ f.local \in 1..Len(m.main.code) + 1 /\ f.dep \in 1..Len(m.deps) + 1
     /\ f.dep <= Len(m.deps) => f.local <= m.deps[f.dep].at
     /\ \A j \in 1..f.dep - 1 :
          /\ m.deps[j].at <= f.local
          /\ m.deps[j].module \in expanded \/ (j = f.dep - 1 /\ k < Len(stack))
     /\ k < Len(stack) => f.dep > 1 /\ m.deps[f.dep - 1].module = stack[k + 1].id

StackOK ==
  /\ stack \in Seq(Frames)
  /\ \A k \in DOMAIN stack : FrameOK(k)
  /\ \A j, k \in DOMAIN stack : stack[j].id = stack[k].id => j = k
  /\ Visiting \cap expanded = {}

\* What has been reached, and that an expanded module does not need itself.
GraphOK ==
  /\ DOMAIN bases = Visiting \cup expanded
  /\ order \in Seq(STRING) /\ ToSet(order) = DOMAIN bases /\ IsInjective(order)
  /\ DOMAIN bases \subseteq Needed
  /\ \A id \in expanded : /\ Named(modules[id]) \subseteq expanded
                          /\ id \notin NeededBy(Named(modules[id]))
  /\ \A j, k \in DOMAIN stack : j < k => stack[k].id \in NeededBy(Named(modules[stack[j].id]))
  /\ entries \in Seq(EntryIds) /\ EntryIds \subseteq ToSet(entries) \cup DOMAIN bases

\* The functions of a module, moved to its context.
MovedFunctions(m, b) ==
  [f \in DOMAIN m.funs |-> [m.funs[f] EXCEPT !.code = [k \in DOMAIN @ |-> InTables(@[k], b)]]]

\* A module's part of the tables of a program.
PartIn(p, m, b) ==
  /\ b \in Contexts
  /\ b.consts + Len(m.consts) <= Len(p.consts)
  /\ \A k \in DOMAIN m.consts : p.consts[b.consts + k] = m.consts[k]
  /\ b.names + Len(m.names) <= Len(p.names)
  /\ \A k \in DOMAIN m.names : p.names[b.names + k] = m.names[k]
  /\ b.sources + Len(m.sources) <= Len(p.sources)
  /\ b.regs + m.main.regs <= p.main.regs
  /\ b.funs + Len(m.funs) <= Len(p.funs)
  /\ \A f \in DOMAIN m.funs : p.funs[b.funs + f] = MovedFunctions(m, b)[f]

PartOK(id) == PartIn(linked, modules[id], bases[id])

Apart(a, b) ==
  /\ \/ bases[a].sources + Len(modules[a].sources) <= bases[b].sources
     \/ bases[b].sources + Len(modules[b].sources) <= bases[a].sources
  /\ \/ bases[a].regs + modules[a].main.regs <= bases[b].regs
     \/ bases[b].regs + modules[b].main.regs <= bases[a].regs

TablesOK ==
  /\ linked \in Programs
  /\ \A id \in DOMAIN bases : PartOK(id)
  /\ \A a, b \in DOMAIN bases : a # b => Apart(a, b)
  /\ \A f \in DOMAIN linked.funs : \E id \in DOMAIN bases :
        f - bases[id].funs \in DOMAIN modules[id].funs
  /\ linked.main.regs = RegistersIn(DOMAIN bases)
  /\ linked.main.regs <= MaxIndex

\* The instruction of a module that stands at g, and what it has become.
Origin(g) == modules[Homes[g]].main.code[linked.main.code[g].line]

PlacedOK(g) ==
  LET i == linked.main.code[g] IN
  /\ Homes[g] \in DOMAIN bases
  /\ i.line \in DOMAIN modules[Homes[g]].main.code
  /\ i.source = Origin(g).source + bases[Homes[g]].sources
  /\ \A k \in DOMAIN stack : stack[k].id = Homes[g] => i.line < stack[k].local

MappedOK(g) ==
  LET i == linked.main.code[g]
      o == Origin(g)
      b == bases[Homes[g]]
  IN /\ <<i.op, i.imm>> = <<o.op, o.imm>>
     /\ i.const = Shifted(o.const, b.consts) /\ i.name = Shifted(o.name, b.names)
     /\ i.fun = Shifted(o.fun, b.funs) /\ i.dest = Shifted(o.dest, b.regs)
     /\ i.args = [k \in DOMAIN o.args |-> o.args[k] + b.regs]
     /\ IsJump(o.op) => i.at \in 1..Len(linked.main.code) + 1 /\ JumpKept(g, o)

\* Every instruction of an expanded module stands in the program.
Complete ==
  \A id \in expanded : \A l \in DOMAIN modules[id].main.code :
     \E g \in DOMAIN linked.main.code : Homes[g] = id /\ linked.main.code[g].line = l

\* A module being expanded remembers where its instructions stand.
GlobalsOK(k) ==
  \A l \in 1..stack[k].local - 1 :
     LET g == stack[k].globals[l] IN
     /\ l \in DOMAIN stack[k].globals
     /\ g \in DOMAIN linked.main.code
     /\ Homes[g] = stack[k].id /\ linked.main.code[g].line = l

CodeOK ==
  /\ \A g \in DOMAIN linked.main.code : PlacedOK(g) /\ (Homes[g] \in expanded => MappedOK(g))
  /\ Complete
  /\ \A k \in DOMAIN stack : GlobalsOK(k)

Linking ==
  /\ given = <<>>
  /\ WellFormed
  /\ StackOK
  /\ GraphOK
  /\ TablesOK
  /\ CodeOK

LinkerInv ==
  /\ input \in Links
  /\ TypeOK
  /\ DependenciesFirst
  /\ verdict \in CanGoOn => ReadOK
  /\ verdict \in {"linking", "linked"} => Linking
  /\ verdict = "linked" => stack = <<>> /\ NamesKept
  /\ VerdictExact
-----------------------------------------------------------------------------
(* Induction, and the tables of the linker.                                *)

\* Induction over the natural numbers, stated with a set.
LEMMA NatSetInduction ==
  ASSUME NEW P, 0 \in P, \A n \in Nat : n \in P => n + 1 \in P
  PROVE  Nat \subseteq P
<1> DEFINE Below == OpToRel(<, Nat)
           Rest == Nat \ P
<1>1. IsWellFoundedOn(Below, Nat) BY NatLessThanWellFounded
<1>2. \A n \in Rest : n - 1 \in Rest /\ <<n - 1, n>> \in Below BY DEF OpToRel
<1> HIDE DEF Below
<1> QED BY <1>1, <1>2, WFMin

\* A function with one more entry, which takes precedence.
LEMMA PutDef ==
  ASSUME NEW f, NEW x, NEW v
  PROVE  /\ DOMAIN Put(f, x, v) = {x} \cup DOMAIN f
         /\ Put(f, x, v)[x] = v
         /\ \A y \in DOMAIN f : y # x => Put(f, x, v)[y] = f[y]
BY DEF Put

\* The empty sequence as a function.
LEMMA EmptyFunction == DOMAIN <<>> = {}
OBVIOUS

-----------------------------------------------------------------------------
(* The registers of a set of modules.                                      *)

\* The sums up to each place, for the modules in ids.
Sums(ids) ==
  CHOOSE upTo : upTo = [k \in 0..Len(input.products) |->
    IF k = 0 THEN 0
    ELSE upTo[k - 1] + IF input.products[k].id \in ids THEN input.products[k].main.regs ELSE 0]

\* The sums of RegistersIn exist and are numbers.
LEMMA SumsDef ==
  ASSUME input \in Links, NEW ids
  PROVE  /\ Len(input.products) \in Nat
         /\ Sums(ids) \in [0..Len(input.products) -> Nat]
         /\ Sums(ids)[0] = 0
         /\ \A k \in 1..Len(input.products) :
              Sums(ids)[k] = Sums(ids)[k - 1]
                + IF input.products[k].id \in ids THEN input.products[k].main.regs ELSE 0
         /\ RegistersIn(ids) = Sums(ids)[Len(input.products)]
<1> DEFINE ps == input.products
           own(k) == IF ps[k].id \in ids THEN ps[k].main.regs ELSE 0
           Rule(f, n) == [k \in 0..n |-> IF k = 0 THEN 0 ELSE f[k - 1] + own(k)]
           Good == {n \in Nat : n <= Len(ps) => \E f \in [0..n -> Nat] : f = Rule(f, n)}
<1>1. ps \in Seq(ModuleArtifacts) BY LinksAssumption
<1>2. Len(ps) \in Nat BY <1>1
<1>3. \A k \in 1..Len(ps) : own(k) \in Nat
  <2> TAKE k \in 1..Len(ps)
  <2>1. ps[k] \in ModuleArtifacts BY <1>1
  <2> QED BY <2>1 DEF ModuleArtifacts, Bodies
<1> HIDE DEF own, ps
<1>4. 0 \in Good
  <2>1. [k \in 0..0 |-> 0] \in [0..0 -> Nat] OBVIOUS
  <2>2. [k \in 0..0 |-> 0] = Rule([k \in 0..0 |-> 0], 0) OBVIOUS
  <2> QED BY <2>1, <2>2
<1>5. ASSUME NEW n \in Nat, n \in Good PROVE n + 1 \in Good
  <2>1. SUFFICES ASSUME n + 1 <= Len(ps) PROVE \E f \in [0..(n+1) -> Nat] : f = Rule(f, n + 1)
    OBVIOUS
  <2>0. n <= Len(ps) BY <1>2, <2>1
  <2>2. PICK f \in [0..n -> Nat] : f = Rule(f, n)
    <3> HIDE DEF Rule
    <3> QED BY <1>5, <2>0
  <2> DEFINE g == [k \in 0..(n+1) |-> IF k = n + 1 THEN f[n] + own(n + 1) ELSE f[k]]
  <2>3. own(n + 1) \in Nat BY <1>3, <2>1
  <2>4. g \in [0..(n+1) -> Nat] BY <2>3
  <2>5. \A k \in 0..(n+1) : g[k] = Rule(g, n + 1)[k]
    <3> TAKE k \in 0..(n+1)
    <3>1. CASE k = n + 1 BY <3>1
    <3>2. CASE k \in 0..n
      <4>1. f[k] = IF k = 0 THEN 0 ELSE f[k - 1] + own(k) BY <2>2, <3>2
      <4>2. k # n + 1 /\ (k # 0 => k - 1 \in 0..n /\ k - 1 # n + 1) BY <3>2
      <4> QED BY <4>1, <4>2
    <3> QED BY <3>1, <3>2
  <2> HIDE DEF g
  <2>6. g = Rule(g, n + 1) BY <2>4, <2>5
  <2> QED BY <2>4, <2>6
<1>6. Len(ps) \in Good
  <2> HIDE DEF Good
  <2> QED BY <1>2, <1>4, <1>5, NatSetInduction
<1>7. PICK f \in [0..Len(ps) -> Nat] : f = Rule(f, Len(ps)) BY <1>2, <1>6
<1>8. Sums(ids) = Rule(Sums(ids), Len(ps)) BY <1>7 DEF Sums, ps, own
<1>9. \A k \in 0..Len(ps) : Sums(ids)[k] = IF k = 0 THEN 0 ELSE Sums(ids)[k - 1] + own(k)
  BY <1>8
<1> DEFINE Typed == {n \in Nat : n <= Len(ps) => Sums(ids)[n] \in Nat}
<1>10. Len(ps) \in Nat /\ \A n \in 0..Len(ps) : Sums(ids)[n] \in Nat
  <2>1. 0 \in Typed BY <1>2, <1>9
  <2>2. ASSUME NEW n \in Nat, n \in Typed PROVE n + 1 \in Typed
    <3>1. SUFFICES ASSUME n + 1 <= Len(ps) PROVE Sums(ids)[n + 1] \in Nat OBVIOUS
    <3>2. Sums(ids)[n] \in Nat BY <1>2, <2>2, <3>1
    <3>3. Sums(ids)[n + 1] = Sums(ids)[n] + own(n + 1) BY <1>2, <1>9, <3>1
    <3> QED BY <1>3, <3>1, <3>2, <3>3
  <2> HIDE DEF Typed
  <2>3. Nat \subseteq Typed BY <2>1, <2>2, NatSetInduction
  <2> QED BY <1>2, <2>3 DEF Typed
<1>11. RegistersIn(ids) = Sums(ids)[Len(ps)] BY DEF RegistersIn, Sums, ps
<1> HIDE DEF Rule
<1>12. Sums(ids) \in [0..Len(ps) -> Nat]
  <2>1. Sums(ids) = [k \in 0..Len(ps) |-> Sums(ids)[k]] BY <1>8 DEF Rule
  <2> QED BY <1>10, <2>1
<1> QED BY <1>2, <1>9, <1>11, <1>12 DEF ps, own

\* A sum over more modules is at least as large.
LEMMA RegistersGrow ==
  ASSUME input \in Links, NEW S, NEW T, S \subseteq T
  PROVE  RegistersIn(S) \in Nat /\ RegistersIn(S) <= RegistersIn(T)
<1> DEFINE n == Len(input.products)
           own(k) == input.products[k].main.regs
           P == {k \in Nat : k <= n => Sums(S)[k] <= Sums(T)[k]}
<1>1. n \in Nat /\ \A k \in 1..n : own(k) \in Nat
  <2>1. input.products \in Seq(ModuleArtifacts) BY LinksAssumption
  <2>2. n \in Nat BY <2>1
  <2>3. ASSUME NEW k \in 1..n PROVE own(k) \in Nat
    <3>1. input.products[k] \in ModuleArtifacts BY <2>1
    <3> QED BY <3>1 DEF ModuleArtifacts, Bodies
  <2> QED BY <2>2, <2>3
<1>2. /\ Sums(S) \in [0..n -> Nat] /\ Sums(S)[0] = 0 /\ RegistersIn(S) = Sums(S)[n]
      /\ \A k \in 1..n : Sums(S)[k] = Sums(S)[k - 1] + IF input.products[k].id \in S THEN own(k) ELSE 0
  BY SumsDef
<1>3. /\ Sums(T) \in [0..n -> Nat] /\ Sums(T)[0] = 0 /\ RegistersIn(T) = Sums(T)[n]
      /\ \A k \in 1..n : Sums(T)[k] = Sums(T)[k - 1] + IF input.products[k].id \in T THEN own(k) ELSE 0
  BY SumsDef
<1> HIDE DEF n, own
<1>4. 0 \in P BY <1>2, <1>3
<1>5. ASSUME NEW k \in Nat, k \in P PROVE k + 1 \in P
  <2>1. SUFFICES ASSUME k + 1 <= n PROVE Sums(S)[k + 1] <= Sums(T)[k + 1] OBVIOUS
  <2>2. k \in 0..n /\ k + 1 \in 1..n /\ own(k + 1) \in Nat BY <1>1, <2>1
  <2>3. Sums(S)[k] <= Sums(T)[k] /\ Sums(S)[k] \in Nat /\ Sums(T)[k] \in Nat
    BY <1>1, <1>2, <1>3, <1>5, <2>2
  <2>4. Sums(S)[k + 1] = Sums(S)[k] + IF input.products[k + 1].id \in S THEN own(k + 1) ELSE 0
    BY <1>2, <2>2
  <2>5. Sums(T)[k + 1] = Sums(T)[k] + IF input.products[k + 1].id \in T THEN own(k + 1) ELSE 0
    BY <1>3, <2>2
  <2> QED BY <2>2, <2>3, <2>4, <2>5
<1>6. Nat \subseteq P
  <2> HIDE DEF P
  <2> QED BY <1>4, <1>5, NatSetInduction
<1> QED BY <1>1, <1>2, <1>3, <1>6

\* No modules need no registers.
LEMMA RegistersOfNone ==
  ASSUME input \in Links
  PROVE  RegistersIn({}) = 0
<1> DEFINE n == Len(input.products)
           P == {k \in Nat : k <= n => Sums({})[k] = 0}
<1>1. /\ n \in Nat /\ Sums({})[0] = 0 /\ RegistersIn({}) = Sums({})[n]
      /\ \A k \in 1..n : Sums({})[k] = Sums({})[k - 1] + 0
  BY SumsDef
<1> HIDE DEF n
<1>2. 0 \in P BY <1>1
<1>3. ASSUME NEW k \in Nat, k \in P PROVE k + 1 \in P
  <2>1. SUFFICES ASSUME k + 1 <= n PROVE Sums({})[k + 1] = 0 OBVIOUS
  <2>2. k + 1 \in 1..n /\ Sums({})[k] = 0 BY <1>1, <1>3, <2>1
  <2>3. Sums({})[k + 1] = Sums({})[k] + 0 BY <1>1, <2>2
  <2> QED BY <2>2, <2>3
<1>4. Nat \subseteq P
  <2> HIDE DEF P
  <2> QED BY <1>2, <1>3, NatSetInduction
<1> QED BY <1>1, <1>4

\* One module more adds its registers.
LEMMA RegistersOfOneMore ==
  ASSUME input \in Links, NEW S, NEW j \in 1..Len(input.products),
         input.products[j].id \notin S,
         \A k \in 1..Len(input.products) : input.products[k].id = input.products[j].id => k = j
  PROVE  RegistersIn(S \cup {input.products[j].id}) = RegistersIn(S) + input.products[j].main.regs
<1> DEFINE n == Len(input.products)
           own(k) == input.products[k].main.regs
           id(k) == input.products[k].id
           T == S \cup {id(j)}
           P == {k \in Nat : k <= n => Sums(T)[k] = Sums(S)[k] + IF j <= k THEN own(j) ELSE 0}
<1>1. n \in Nat /\ \A k \in 1..n : own(k) \in Nat
  <2>1. input.products \in Seq(ModuleArtifacts) BY LinksAssumption
  <2>2. n \in Nat BY <2>1
  <2>3. ASSUME NEW k \in 1..n PROVE own(k) \in Nat
    <3>1. input.products[k] \in ModuleArtifacts BY <2>1
    <3> QED BY <3>1 DEF ModuleArtifacts, Bodies
  <2> QED BY <2>2, <2>3
<1>2. /\ Sums(S) \in [0..n -> Nat] /\ Sums(S)[0] = 0 /\ RegistersIn(S) = Sums(S)[n]
      /\ \A k \in 1..n : Sums(S)[k] = Sums(S)[k - 1] + IF id(k) \in S THEN own(k) ELSE 0
  BY SumsDef
<1>3. /\ Sums(T) \in [0..n -> Nat] /\ Sums(T)[0] = 0 /\ RegistersIn(T) = Sums(T)[n]
      /\ \A k \in 1..n : Sums(T)[k] = Sums(T)[k - 1] + IF id(k) \in T THEN own(k) ELSE 0
  BY SumsDef
<1>4. j \in 1..n /\ id(j) \notin S /\ \A k \in 1..n : id(k) = id(j) => k = j OBVIOUS
<1>5. \A k \in 1..n : id(k) \in T <=> id(k) \in S \/ k = j BY <1>4
<1> HIDE DEF n, own, id, T
<1>6. 0 \in P BY <1>1, <1>2, <1>3, <1>4
<1>7. ASSUME NEW k \in Nat, k \in P PROVE k + 1 \in P
  <2>1. SUFFICES ASSUME k + 1 <= n
                 PROVE  Sums(T)[k + 1] = Sums(S)[k + 1] + IF j <= k + 1 THEN own(j) ELSE 0
    OBVIOUS
  <2>2. k \in 0..n /\ k + 1 \in 1..n /\ own(k + 1) \in Nat /\ own(j) \in Nat BY <1>1, <1>4, <2>1
  <2>3. /\ Sums(T)[k] = Sums(S)[k] + IF j <= k THEN own(j) ELSE 0
        /\ Sums(S)[k] \in Nat /\ Sums(T)[k] \in Nat
    BY <1>1, <1>2, <1>3, <1>7, <2>2
  <2>4. Sums(S)[k + 1] = Sums(S)[k] + IF id(k + 1) \in S THEN own(k + 1) ELSE 0
    BY <1>2, <2>2
  <2>5. Sums(T)[k + 1] = Sums(T)[k] + IF id(k + 1) \in T THEN own(k + 1) ELSE 0
    BY <1>3, <2>2
  <2>6. id(k + 1) \in T <=> id(k + 1) \in S \/ k + 1 = j BY <1>5, <2>2
  <2>7. CASE k + 1 = j
    <3>1. id(k + 1) \notin S /\ own(k + 1) = own(j) /\ ~(j <= k) /\ j <= k + 1 BY <1>4, <2>7
    <3> QED BY <2>2, <2>3, <2>4, <2>5, <2>6, <2>7, <3>1
  <2>8. CASE k + 1 # j
    <3>1. j <= k <=> j <= k + 1 BY <1>4, <2>8
    <3> QED BY <2>2, <2>3, <2>4, <2>5, <2>6, <2>8, <3>1
  <2> QED BY <2>7, <2>8
<1>8. Nat \subseteq P
  <2> HIDE DEF P
  <2> QED BY <1>6, <1>7, NatSetInduction
<1>9. Sums(T)[n] = Sums(S)[n] + own(j) BY <1>1, <1>4, <1>8
<1> QED BY <1>2, <1>3, <1>9 DEF T, own, id

-----------------------------------------------------------------------------
(* What the modules reach.                                                 *)

\* A module is reached from itself.
LEMMA NeededContains ==
  ASSUME NEW ids, ids \subseteq Identities
  PROVE  ids \subseteq NeededBy(ids)
BY DEF NeededBy

\* A closed set with the modules in it has all they reach.
LEMMA NeededLeast ==
  ASSUME NEW ids, NEW S, S \subseteq Identities, ids \subseteq S, Closed(S)
  PROVE  NeededBy(ids) \subseteq S
BY DEF NeededBy

\* What is reached is closed: with a module, all it names is reached.
LEMMA NeededClosed ==
  ASSUME \A m \in Given : Named(m) \subseteq Identities, NEW ids, NEW id \in NeededBy(ids)
  PROVE  Named(Product1(id)) \subseteq NeededBy(ids)
<1>1. id \in Identities BY DEF NeededBy
<1>2. Product1(id) \in Given BY <1>1 DEF Identities, Product1
<1> SUFFICES ASSUME NEW x \in Named(Product1(id)) PROVE x \in NeededBy(ids) OBVIOUS
<1>3. x \in Identities BY <1>2
<1>4. ASSUME NEW S \in SUBSET Identities, ids \subseteq S, Closed(S) PROVE x \in S
  <2>1. id \in S BY <1>4 DEF NeededBy
  <2> QED BY <1>4, <2>1 DEF Closed
<1> QED BY <1>3, <1>4 DEF NeededBy

\* What is reached from modules that are reached is reached.
LEMMA NeededTransitive ==
  ASSUME NEW ids, NEW more, more \subseteq NeededBy(ids)
  PROVE  NeededBy(more) \subseteq NeededBy(ids)
<1> SUFFICES ASSUME NEW x \in NeededBy(more) PROVE x \in NeededBy(ids) OBVIOUS
<1>1. x \in Identities BY DEF NeededBy
<1>2. ASSUME NEW S \in SUBSET Identities, ids \subseteq S, Closed(S) PROVE x \in S
  <2>1. more \subseteq S BY <1>2 DEF NeededBy
  <2> QED BY <1>2, <2>1 DEF NeededBy
<1> QED BY <1>1, <1>2 DEF NeededBy

-----------------------------------------------------------------------------
(* The products.                                                           *)

\* What a product is made of.
LEMMA ProductTypes ==
  ASSUME NEW m \in ModuleArtifacts
  PROVE  /\ m.id \in STRING /\ m.order \in Nat
         /\ m.deps \in Seq([module : STRING, at : Nat])
         /\ m.consts \in Seq(Values) /\ m.names \in Seq(STRING) /\ m.sources \in Seq(STRING)
         /\ m.main \in Bodies /\ m.funs \in Seq(Bodies)
         /\ m.main.code \in Seq(ProductInstructions) /\ m.main.regs \in Nat
         /\ \A k \in DOMAIN m.deps : m.deps[k].module \in STRING /\ m.deps[k].at \in Nat
         /\ \A f \in DOMAIN m.funs : m.funs[f] \in Bodies
<1>1. /\ m.id \in STRING /\ m.order \in Nat
      /\ m.deps \in Seq([module : STRING, at : Nat])
      /\ m.consts \in Seq(Values) /\ m.names \in Seq(STRING) /\ m.sources \in Seq(STRING)
      /\ m.main \in Bodies /\ m.funs \in Seq(Bodies)
  BY DEF ModuleArtifacts
<1>2. m.main.code \in Seq(ProductInstructions) /\ m.main.regs \in Nat BY <1>1 DEF Bodies
<1>3. ASSUME NEW k \in DOMAIN m.deps PROVE m.deps[k].module \in STRING /\ m.deps[k].at \in Nat
  <2>1. m.deps[k] \in [module : STRING, at : Nat]
    <3>1. k \in 1..Len(m.deps) BY <1>1, LenProperties
    <3> QED BY <1>1, <3>1, ElementOfSeq
  <2> QED BY <2>1
<1>4. \A f \in DOMAIN m.funs : m.funs[f] \in Bodies BY <1>1
<1> QED BY <1>1, <1>2, <1>3, <1>4

\* What an instruction is made of.
LEMMA InstructionTypes ==
  ASSUME NEW i \in ProductInstructions
  PROVE  /\ i.op \in STRING /\ i.dest \in Nat /\ i.args \in Seq(Nat) /\ i.at \in Nat
         /\ i.imm \in Values /\ i.const \in Nat /\ i.name \in Nat /\ i.fun \in Nat
         /\ i.source \in Nat /\ i.line \in Nat
         /\ i = [op |-> i.op, dest |-> i.dest, args |-> i.args, at |-> i.at, imm |-> i.imm,
                 const |-> i.const, name |-> i.name, fun |-> i.fun, source |-> i.source,
                 line |-> i.line]
BY DEF ProductInstructions

\* The products by identity are the products that were given.
LEMMA ModuleFacts ==
  ASSUME input \in Links, ModulesOK(Len(input.products))
  PROVE  /\ input.products \in Seq(ModuleArtifacts)
         /\ DOMAIN modules = Identities
         /\ \A id \in DOMAIN modules :
              /\ modules[id] \in ModuleArtifacts /\ modules[id] \in Given
              /\ modules[id].id = id /\ modules[id] = Product1(id)
              /\ ProgramValid(modules[id]) /\ EnvelopeValid(modules[id])
              /\ \A k \in DOMAIN modules[id].main.code : modules[id].main.code[k].line = k
              /\ \E k \in 1..Len(input.products) : modules[id] = input.products[k]
         /\ \A m \in Given : m.id \in DOMAIN modules /\ modules[m.id] = m
<1> DEFINE ps == input.products
<1>1. ps \in Seq(ModuleArtifacts) BY LinksAssumption
<1>2. DOMAIN ps = 1..Len(ps) /\ Given = {ps[k] : k \in 1..Len(ps)} BY <1>1 DEF Given, ToSet
<1>3. \A m \in Given : m \in ModuleArtifacts BY <1>1, <1>2
<1>4. \A m \in Given : m.id \in DOMAIN modules /\ modules[m.id] = m BY <1>2 DEF ModulesOK
<1>5. \A id \in DOMAIN modules : \E k \in 1..Len(ps) : ps[k].id = id BY DEF ModulesOK
<1>6. DOMAIN modules = Identities
  <2>1. ASSUME NEW id \in DOMAIN modules PROVE id \in Identities
    <3>1. PICK k \in 1..Len(ps) : ps[k].id = id BY <1>5
    <3>2. ps[k] \in Given BY <1>2
    <3> QED BY <3>1, <3>2 DEF Identities
  <2>2. Identities \subseteq DOMAIN modules BY <1>4 DEF Identities
  <2> QED BY <2>1, <2>2
<1>7. ASSUME NEW id \in DOMAIN modules
      PROVE  /\ modules[id] \in Given /\ modules[id].id = id /\ modules[id] = Product1(id)
             /\ ProgramValid(modules[id]) /\ EnvelopeValid(modules[id])
             /\ \E k \in 1..Len(input.products) : modules[id] = input.products[k]
  <2>1. PICK k \in 1..Len(ps) : ps[k].id = id BY <1>5
  <2>2. modules[id] = ps[k] /\ ProgramValid(ps[k]) /\ EnvelopeValid(ps[k])
    BY <2>1 DEF ModulesOK
  <2>3. modules[id] \in Given BY <1>2, <2>2
  <2>4. \A m \in Given : m.id = id => m = modules[id] BY <1>4
  <2>5. Product1(id) \in Given /\ Product1(id).id = id BY <2>1, <2>2, <2>3 DEF Product1
  <2> QED BY <2>1, <2>2, <2>3, <2>4, <2>5
<1>8. \A id \in DOMAIN modules :
         \A k \in DOMAIN modules[id].main.code : modules[id].main.code[k].line = k
  BY <1>7, LinksAssumption DEF Given
<1> HIDE DEF ps
<1> QED BY <1>1, <1>3, <1>4, <1>6, <1>7, <1>8 DEF ps

-----------------------------------------------------------------------------
(* The entries in their order.                                             *)

\* A set of numbers has a smallest.
LEMMA Smallest ==
  ASSUME NEW N \in SUBSET Nat, N # {}
  PROVE  \E n \in N : \A k \in N : n <= k
<1> DEFINE Below == OpToRel(<, Nat)
<1>1. IsWellFoundedOn(Below, Nat) BY NatLessThanWellFounded
<1>2. \E n \in N : \A k \in N : ~ (<<k, n>> \in Below)
  <2> HIDE DEF Below
  <2> QED BY <1>1, WFMin
<1>3. PICK n \in N : \A k \in N : ~ (<<k, n>> \in Below) BY <1>2
<1>4. ASSUME NEW k \in N PROVE n <= k
  <2>1. k < n => <<k, n>> \in Below BY DEF OpToRel
  <2>2. ~ (k < n)
    <3> HIDE DEF Below
    <3> QED BY <1>3, <2>1
  <2> QED BY <2>2
<1> QED BY <1>4

\* A sequence that never falls and takes the values 1 to its length counts.
LEMMA SortedOnto ==
  ASSUME NEW n \in Nat, NEW f \in [1..n -> Nat],
         \A j, k \in 1..n : j < k => f[j] <= f[k],
         \A v \in 1..n : \E k \in 1..n : f[k] = v,
         \A k \in 1..n : f[k] \in 1..n
  PROVE  \A k \in 1..n : f[k] = k
<1> DEFINE Up == {k \in Nat : \A j \in 1..n : j <= k => f[j] <= j}
           Down == {k \in Nat : \A j \in 1..n : n - j < k => f[j] = j}
<1>1. 0 \in Up OBVIOUS
<1>2. ASSUME NEW k \in Nat, k \in Up PROVE k + 1 \in Up
  <2>1. SUFFICES ASSUME NEW i \in 1..n, i <= k + 1 PROVE f[i] <= i OBVIOUS
  <2>2. \A j \in 1..n : j <= k => f[j] <= j BY <1>2
  <2>3. CASE i <= k BY <2>2, <2>3
  <2>4. CASE i = k + 1
    <3>1. PICK j \in 1..n : f[j] = i OBVIOUS
    <3>2. j >= i BY <2>2, <2>4, <3>1
    <3>3. f[i] <= f[j] BY <3>2
    <3> QED BY <3>1, <3>3
  <2> QED BY <2>1, <2>3, <2>4
<1>3. Nat \subseteq Up
  <2> HIDE DEF Up
  <2> QED BY <1>1, <1>2, NatSetInduction
<1>4. ASSUME NEW j \in 1..n PROVE f[j] <= j
  <2>1. n \in Up BY <1>3
  <2> QED BY <2>1
<1>5. 0 \in Down OBVIOUS
<1>6. ASSUME NEW k \in Nat, k \in Down PROVE k + 1 \in Down
  <2>1. SUFFICES ASSUME NEW i \in 1..n, n - i < k + 1 PROVE f[i] = i OBVIOUS
  <2>2. \A j \in 1..n : n - j < k => f[j] = j BY <1>6
  <2>3. PICK j \in 1..n : f[j] = i OBVIOUS
  <2>4. i <= j BY <1>4, <2>3
  <2>5. j > i => n - j < k BY <2>1
  <2>6. j > i => f[j] = j BY <2>2, <2>5
  <2>7. j = i BY <2>3, <2>4, <2>6
  <2> QED BY <2>3, <2>7
<1>7. Nat \subseteq Down
  <2> HIDE DEF Down
  <2> QED BY <1>5, <1>6, NatSetInduction
<1>8. ASSUME NEW k \in 1..n PROVE f[k] = k
  <2>1. n + 1 \in Down
    <3> HIDE DEF Down
    <3> QED BY <1>7
  <2> QED BY <2>1
<1> QED BY <1>8

\* A finite set can be sorted.
LEMMA SortedEnumeration ==
  ASSUME NEW S, IsFiniteSet(S), NEW key \in [S -> Nat]
  PROVE  \E s \in [1..Cardinality(S) -> S] :
            /\ ToSet(s) = S
            /\ \A j, k \in DOMAIN s : j < k => key[s[j]] <= key[s[k]]
<1> DEFINE Sorted(s, T) == ToSet(s) = T /\ \A j, k \in DOMAIN s : j < k => key[s[j]] <= key[s[k]]
           P == {n \in Nat : \A T \in SUBSET S : Cardinality(T) = n => \E s \in [1..n -> T] : Sorted(s, T)}
<1>1. 0 \in P
  <2>1. SUFFICES ASSUME NEW T \in SUBSET S, Cardinality(T) = 0
                 PROVE  \E s \in [1..0 -> T] : Sorted(s, T) OBVIOUS
  <2>2. T = {} BY <2>1, FS_Subset, FS_EmptySet
  <2>3. [k \in 1..0 |-> 0] \in [1..0 -> T] /\ ToSet([k \in 1..0 |-> 0]) = {} BY DEF ToSet
  <2> QED BY <2>2, <2>3
<1>2. ASSUME NEW n \in Nat, n \in P PROVE n + 1 \in P
  <2>1. SUFFICES ASSUME NEW T \in SUBSET S, Cardinality(T) = n + 1
                 PROVE  \E s \in [1..(n + 1) -> T] : Sorted(s, T) OBVIOUS
  <2>2. IsFiniteSet(T) /\ T # {} BY <2>1, FS_Subset, FS_EmptySet
  <2>3. PICK x \in T : \A y \in T : key[x] <= key[y]
    <3> DEFINE N == {key[y] : y \in T}
    <3>1. N \in SUBSET Nat /\ N # {} BY <2>2
    <3>2. PICK v \in N : \A k \in N : v <= k BY <3>1, Smallest
    <3> QED BY <3>2
  <2>4. Cardinality(T \ {x}) = n
    <3>1. Cardinality(T \ {x}) = Cardinality(T) - 1 BY <2>2, FS_RemoveElement
    <3> QED BY <2>1, <3>1
  <2>5. PICK s \in [1..n -> T \ {x}] : Sorted(s, T \ {x})
    <3> HIDE DEF Sorted
    <3> QED BY <1>2, <2>4
  <2> DEFINE t == [k \in 1..(n + 1) |-> IF k = 1 THEN x ELSE s[k - 1]]
  <2>6. /\ t[1] = x
        /\ \A k \in 1..n : t[k + 1] = s[k] /\ s[k] \in T
        /\ \A k \in 1..(n + 1) : k # 1 => k - 1 \in 1..n /\ t[k] = s[k - 1]
        /\ DOMAIN t = 1..(n + 1)
    OBVIOUS
  <2> HIDE DEF t
  <2>7. t \in [1..(n + 1) -> T] BY <2>6 DEF t
  <2>8. ToSet(t) = T
    <3>1. ASSUME NEW y \in T PROVE y \in ToSet(t)
      <4>1. CASE y = x BY <2>6, <4>1 DEF ToSet
      <4>2. CASE y # x
        <5>1. PICK k \in 1..n : s[k] = y BY <2>5, <4>2 DEF ToSet
        <5>2. k + 1 \in DOMAIN t /\ t[k + 1] = y BY <2>6, <5>1
        <5> QED BY <5>2 DEF ToSet
      <4> QED BY <4>1, <4>2
    <3> QED BY <2>6, <2>7, <3>1 DEF ToSet
  <2>9. ASSUME NEW j \in 1..(n + 1), NEW k \in 1..(n + 1), j < k PROVE key[t[j]] <= key[t[k]]
    <3>1. CASE j = 1 BY <2>3, <2>6, <2>7, <3>1
    <3>2. CASE j # 1 BY <2>5, <2>6, <2>9, <3>2
    <3> QED BY <3>1, <3>2
  <2> QED BY <2>6, <2>7, <2>8, <2>9
<1>3. Nat \subseteq P
  <2> HIDE DEF P
  <2> QED BY <1>1, <1>2, NatSetInduction
<1>4. Cardinality(S) \in Nat BY FS_CardinalityType
<1> QED BY <1>3, <1>4

\* The entry modules are found in their order.
LEMMA EntryOrder ==
  ASSUME IsFiniteSet(EntryIds), \A id \in EntryIds : modules[id].order \in Nat
  PROVE  LET s == InEntryOrder(EntryIds) IN
         /\ s \in [1..Cardinality(EntryIds) -> EntryIds]
         /\ ToSet(s) = EntryIds
         /\ \A j, k \in DOMAIN s : j < k => modules[s[j]].order <= modules[s[k]].order
<1> DEFINE key == [id \in EntryIds |-> modules[id].order]
<1>1. key \in [EntryIds -> Nat] OBVIOUS
<1>2. \E s \in [1..Cardinality(EntryIds) -> EntryIds] :
        /\ ToSet(s) = EntryIds
        /\ \A j, k \in DOMAIN s : j < k => key[s[j]] <= key[s[k]]
  <2> HIDE DEF key
  <2> QED BY <1>1, SortedEnumeration
<1>3. \E s \in [1..Cardinality(EntryIds) -> EntryIds] :
        /\ ToSet(s) = EntryIds
        /\ \A j, k \in DOMAIN s : j < k => modules[s[j]].order <= modules[s[k]].order
  <2>1. PICK s \in [1..Cardinality(EntryIds) -> EntryIds] :
          /\ ToSet(s) = EntryIds
          /\ \A j, k \in DOMAIN s : j < k => key[s[j]] <= key[s[k]]
    BY <1>2
  <2>2. \A j \in DOMAIN s : s[j] \in EntryIds /\ key[s[j]] = modules[s[j]].order OBVIOUS
  <2> HIDE DEF key
  <2>3. \A j, k \in DOMAIN s : j < k => modules[s[j]].order <= modules[s[k]].order
    BY <2>1, <2>2
  <2> QED BY <2>1, <2>3
<1> QED BY <1>3 DEF InEntryOrder

\* The identities are as many as the products, unless two share one.
LEMMA IdentityCount ==
  ASSUME input \in Links
  PROVE  /\ IsFiniteSet(Identities)
         /\ Cardinality(Identities) \in Nat
         /\ Cardinality(Identities) <= Len(input.products)
         /\ Cardinality(Identities) = Len(input.products) <=>
              \A j, k \in 1..Len(input.products) : input.products[j].id = input.products[k].id => j = k
<1> DEFINE n == Len(input.products)
           f == [k \in 1..n |-> input.products[k].id]
<1>1. input.products \in Seq(ModuleArtifacts) BY LinksAssumption
<1>2. n \in Nat /\ DOMAIN input.products = 1..n BY <1>1
<1>3. Identities = {f[k] : k \in 1..n}
  <2>1. Given = {input.products[k] : k \in 1..n} BY <1>2 DEF Given, ToSet
  <2> QED BY <2>1 DEF Identities
<1>4. f \in Surjection(1..n, Identities) BY <1>3 DEF Surjection
<1>5. IsFiniteSet(1..n) /\ Cardinality(1..n) = n BY <1>2, FS_Interval
<1>6. f \in Injection(1..n, Identities) <=>
        \A j, k \in 1..n : input.products[j].id = input.products[k].id => j = k
  BY <1>4 DEF Surjection, Injection, IsInjective
<1>7. /\ IsFiniteSet(Identities) /\ Cardinality(Identities) <= n
      /\ Cardinality(Identities) = n <=> f \in Injection(1..n, Identities)
  <2> HIDE DEF f, n
  <2> QED BY <1>4, <1>5, FS_Surjection
<1>8. Cardinality(Identities) \in Nat BY <1>7, FS_CardinalityType
<1> QED BY <1>6, <1>7, <1>8

\* The entry modules among the products, and their identities.
LEMMA EntryFacts ==
  ASSUME input \in Links, ModulesOK(Len(input.products))
  PROVE  LET C == {m \in Given : m.order # NotEntry} IN
         /\ EntryIds = {m.id : m \in C}
         /\ EntryIds \subseteq Identities
         /\ IsFiniteSet(EntryIds) /\ Cardinality(EntryIds) \in Nat
         /\ Cardinality(EntryIds) <= Len(input.products)
         /\ Cardinality(C) = Cardinality(EntryIds)
         /\ {m.order : m \in Given} \ {NotEntry} = {modules[id].order : id \in EntryIds}
         /\ \A id \in EntryIds : modules[id].order \in Nat /\ modules[id].order # NotEntry
<1> DEFINE C == {m \in Given : m.order # NotEntry}
           f == [id \in EntryIds |-> modules[id]]
<1>1. /\ input.products \in Seq(ModuleArtifacts)
      /\ DOMAIN modules = Identities
      /\ \A id \in DOMAIN modules :
            modules[id] \in ModuleArtifacts /\ modules[id] \in Given /\ modules[id].id = id
      /\ \A m \in Given : m.id \in DOMAIN modules /\ modules[m.id] = m
  BY ModuleFacts
<1>2. EntryIds = {m.id : m \in C}
  <2>1. ASSUME NEW id \in EntryIds PROVE id \in {m.id : m \in C}
    <3>1. modules[id] \in C /\ modules[id].id = id BY <1>1 DEF EntryIds
    <3> QED BY <3>1
  <2>2. ASSUME NEW m \in C PROVE m.id \in EntryIds BY <1>1 DEF EntryIds
  <2> QED BY <2>1, <2>2
<1>3. EntryIds \subseteq Identities BY <1>1 DEF EntryIds
<1>4. /\ IsFiniteSet(Identities) /\ Cardinality(Identities) \in Nat
      /\ Cardinality(Identities) <= Len(input.products)
  BY IdentityCount
<1>5. IsFiniteSet(EntryIds) /\ Cardinality(EntryIds) <= Cardinality(Identities)
  BY <1>3, <1>4, FS_Subset
<1>6. Cardinality(EntryIds) \in Nat BY <1>5, FS_CardinalityType
<1>7. f \in Bijection(EntryIds, C)
  <2>1. f \in [EntryIds -> C] BY <1>1 DEF EntryIds
  <2>2. \A a, b \in EntryIds : f[a] = f[b] => a = b BY <1>1 DEF EntryIds
  <2>3. ASSUME NEW m \in C PROVE \E id \in EntryIds : f[id] = m
    <3>1. m.id \in EntryIds /\ modules[m.id] = m BY <1>1, <1>2
    <3> QED BY <3>1
  <2> HIDE DEF f, C
  <2> QED BY <2>1, <2>2, <2>3 DEF Bijection, Injection, Surjection, IsInjective
<1>8. Cardinality(C) = Cardinality(EntryIds)
  <2> HIDE DEF f, C
  <2> QED BY <1>5, <1>7, FS_Bijection DEF ExistsBijection
<1>9. {m.order : m \in Given} \ {NotEntry} = {modules[id].order : id \in EntryIds}
  <2>1. ASSUME NEW m \in Given, m.order # NotEntry
        PROVE  m.order \in {modules[id].order : id \in EntryIds}
    <3>1. m.id \in EntryIds /\ modules[m.id] = m BY <1>1, <2>1 DEF EntryIds
    <3> QED BY <3>1
  <2>2. ASSUME NEW id \in EntryIds
        PROVE  modules[id].order \in {m.order : m \in Given} \ {NotEntry}
    <3>1. modules[id] \in Given /\ modules[id].order # NotEntry BY <1>1 DEF EntryIds
    <3> QED BY <3>1
  <2> QED BY <2>1, <2>2
<1>10. \A id \in EntryIds : modules[id].order \in Nat /\ modules[id].order # NotEntry
  <2> TAKE id \in EntryIds
  <2>1. modules[id] \in ModuleArtifacts /\ modules[id].order # NotEntry BY <1>1 DEF EntryIds
  <2> QED BY <2>1, ProductTypes
<1> QED BY <1>1, <1>2, <1>3, <1>4, <1>5, <1>6, <1>8, <1>9, <1>10, LenProperties

\* The verdict on the set is the one it deserves.
LEMMA SetVerdictExact ==
  ASSUME input \in Links, ModulesOK(Len(input.products))
  PROVE  LET s == InEntryOrder(EntryIds) IN
         /\ s \in Seq(EntryIds) /\ ToSet(s) = EntryIds
         /\ SetVerdict(s) \in {"emptySet", "missingEntry", "invalidEntryOrder",
                               "missingDependency", "linking"}
         /\ SetVerdict(s) = "linking" <=> WellFormed
<1> DEFINE s == InEntryOrder(EntryIds)
           n == Cardinality(EntryIds)
           C == {m \in Given : m.order # NotEntry}
           orders == {m.order : m \in Given} \ {NotEntry}
           key(k) == modules[s[k]].order
           named == \A m \in Given : Named(m) \subseteq Identities
           counted == \E l \in 1..Len(input.products) : orders = 1..l /\ Cardinality(C) = l
<1>1. /\ DOMAIN modules = Identities
      /\ \A id \in DOMAIN modules : modules[id] \in Given /\ modules[id].id = id
                                    /\ ProgramValid(modules[id]) /\ EnvelopeValid(modules[id])
      /\ \A m \in Given : m.id \in DOMAIN modules /\ modules[m.id] = m
  BY ModuleFacts
<1>2. /\ EntryIds \subseteq Identities
      /\ IsFiniteSet(EntryIds) /\ n \in Nat /\ n <= Len(input.products)
      /\ Cardinality(C) = n
      /\ orders = {modules[id].order : id \in EntryIds}
      /\ \A id \in EntryIds : modules[id].order \in Nat /\ modules[id].order # NotEntry
  BY EntryFacts
<1>3. /\ s \in [1..n -> EntryIds] /\ ToSet(s) = EntryIds
      /\ \A j, k \in DOMAIN s : j < k => key(j) <= key(k)
  BY <1>2, EntryOrder
<1>4. s \in Seq(EntryIds) BY <1>2, <1>3
<1>5. DOMAIN s = 1..n /\ (s = <<>> <=> n = 0) BY <1>2, <1>3, <1>4
<1>6. \A m \in Given : ProgramValid(m) /\ EnvelopeValid(m) BY <1>1
<1>7. Cardinality(Identities) = Len(input.products) BY IdentityCount DEF ModulesOK
<1>8. WellFormed <=> counted /\ named BY <1>6, <1>7 DEF WellFormed
<1>9. named <=> ~ \E id \in DOMAIN modules : \E k \in DOMAIN modules[id].deps :
                    modules[id].deps[k].module \notin DOMAIN modules
  <2>1. named <=> \A id \in DOMAIN modules : Named(modules[id]) \subseteq DOMAIN modules
    BY <1>1
  <2> QED BY <2>1 DEF Named
<1>10. orders = {key(k) : k \in 1..n}
  <2>1. EntryIds = {s[k] : k \in 1..n} BY <1>3, <1>5 DEF ToSet
  <2> HIDE DEF orders, s
  <2> QED BY <1>2, <2>1
<1> HIDE DEF s, n, C, orders
<1>11. counted => n # 0
  <2>1. SUFFICES ASSUME NEW l \in 1..Len(input.products), Cardinality(C) = l PROVE n # 0
    OBVIOUS
  <2> QED BY <1>2, <2>1
<1>12. counted => \A k \in 1..n : key(k) = k
  <2>1. SUFFICES ASSUME orders = 1..n PROVE \A k \in 1..n : key(k) = k BY <1>2
  <2> DEFINE f == [k \in 1..n |-> key(k)]
  <2>2. \A k \in 1..n : key(k) \in Nat BY <1>2, <1>3
  <2>3. f \in [1..n -> Nat] BY <2>2
  <2>4. \A v \in 1..n : \E k \in 1..n : f[k] = v BY <1>10, <2>1
  <2>5. \A k \in 1..n : f[k] \in 1..n BY <1>10, <2>1
  <2>6. \A j, k \in 1..n : j < k => f[j] <= f[k] BY <1>3, <1>5
  <2>7. n \in Nat BY <1>2
  <2>8. \A k \in 1..n : f[k] = k
    <3> HIDE DEF f
    <3> QED BY <2>7, <2>3, <2>4, <2>5, <2>6, SortedOnto
  <2> QED BY <2>8
<1>13. n # 0 /\ (\A k \in 1..n : key(k) = k) => counted
  <2>1. SUFFICES ASSUME n # 0, \A k \in 1..n : key(k) = k PROVE counted OBVIOUS
  <2>2. orders = 1..n BY <1>10, <2>1
  <2>3. n \in 1..Len(input.products) BY <1>2, <2>1
  <2> QED BY <1>2, <2>2, <2>3
<1>14. counted <=> s # <<>> /\ \A k \in DOMAIN s : modules[s[k]].order = k
  BY <1>5, <1>11, <1>12, <1>13
<1>15. s # <<>> => DOMAIN modules # {} BY <1>1, <1>2, <1>3, <1>5
<1> HIDE DEF counted, named
<1>16. SetVerdict(s) \in {"emptySet", "missingEntry", "invalidEntryOrder",
                          "missingDependency", "linking"}
  BY DEF SetVerdict
<1>17. SetVerdict(s) = "linking" <=> counted /\ named
  BY <1>9, <1>14, <1>15 DEF SetVerdict
<1> QED BY <1>3, <1>4, <1>8, <1>16, <1>17 DEF s

-----------------------------------------------------------------------------
(* Reading.                                                                *)

\* What depends on the input alone stays.
LEMMA InputKept ==
  ASSUME input' = input
  PROVE  /\ Given' = Given /\ Identities' = Identities
         /\ \A id : Product1(id)' = Product1(id)
         /\ \A ids : NeededBy(ids)' = NeededBy(ids)
         /\ Needed' = Needed
         /\ WellFormed' <=> WellFormed
         /\ Cyclic' <=> Cyclic
         /\ \A ids : RegistersIn(ids)' = RegistersIn(ids)
<1>1. Given' = Given BY DEF Given
<1>2. Identities' = Identities BY <1>1 DEF Identities
<1>3. \A id : Product1(id)' = Product1(id) BY <1>1 DEF Product1
<1>4. \A S : Closed(S)' <=> Closed(S) BY <1>3 DEF Closed
<1>5. \A ids : NeededBy(ids)' = NeededBy(ids) BY <1>2, <1>4 DEF NeededBy
<1>6. Needed' = Needed BY <1>1, <1>5 DEF Needed
<1>7. WellFormed' <=> WellFormed BY <1>1, <1>2 DEF WellFormed
<1>8. Cyclic' <=> Cyclic BY <1>3, <1>5, <1>6 DEF Cyclic
<1>9. \A ids : RegistersIn(ids)' = RegistersIn(ids) BY DEF RegistersIn
<1> QED BY <1>1, <1>2, <1>3, <1>5, <1>6, <1>7, <1>8, <1>9

\* Nothing is linked while the products are read: the rest of the invariant.
LEMMA NothingYet ==
  ASSUME stack' = <<>>, expanded' = {}, order' = <<>>, bases' = <<>>, linked' = NothingLinked,
         verdict' \in Refusals \cup {"reading", "linking"}
  PROVE  (TypeOK /\ DependenciesFirst)'
<1>1. /\ DOMAIN stack' = {} /\ DOMAIN bases' = {} /\ DOMAIN order' = {}
      /\ DOMAIN linked'.main.code = {}
  BY DEF NothingLinked
<1>2. Visiting' = {} BY <1>1 DEF Visiting
<1>3. TypeOK' BY <1>1, <1>2 DEF TypeOK, IsInjective
<1>4. DependenciesFirst' BY <1>1 DEF DependenciesFirst
<1> QED BY <1>3, <1>4

\* Nothing has been read.
LEMMA InitKeeps ==
  ASSUME Init
  PROVE  LinkerInv
<1>1. input.products \in Seq(ModuleArtifacts) BY LinksAssumption DEF Init
<1>2. Len(input.products) \in Nat /\ DOMAIN input.products = 1..Len(input.products) BY <1>1
<1>3. DOMAIN modules = {} BY DEF Init
<1>4. ModulesOK(0) BY <1>3 DEF ModulesOK
<1>5. ReadOK BY <1>1, <1>2, <1>4 DEF Init, ReadOK
<1>6. /\ DOMAIN stack = {} /\ DOMAIN bases = {} /\ DOMAIN order = {} /\ expanded = {}
      /\ DOMAIN linked.main.code = {}
  BY DEF Init, NothingLinked
<1>7. Visiting = {} BY <1>6 DEF Visiting
<1>8. TypeOK BY <1>6, <1>7 DEF TypeOK, IsInjective, Init
<1>9. DependenciesFirst BY <1>6 DEF DependenciesFirst
<1>10. VerdictExact BY DEF Init, VerdictExact, Refusals
<1> QED BY <1>5, <1>8, <1>9, <1>10 DEF LinkerInv, Init, CanGoOn

\* A product is admitted if it is valid and the first of its identity.
LEMMA AdmitKeeps ==
  ASSUME LinkerInv, Admit
  PROVE  LinkerInv'
<1> DEFINE ps == input.products
           n == Len(ps) - Len(given)
           m == Head(given)
<1>1. /\ input \in Links /\ input' = input /\ verdict = "reading"
      /\ given # <<>> /\ given' = Tail(given)
      /\ UNCHANGED <<stack, expanded, order, linked, bases>>
  BY DEF LinkerInv, Admit
<1>2. ReadOK BY <1>1 DEF LinkerInv, CanGoOn
<1>3. /\ given \in Seq(ModuleArtifacts) /\ ps \in Seq(ModuleArtifacts)
      /\ Len(given) <= Len(ps) /\ ModulesOK(n)
      /\ \A k \in DOMAIN given : given[k] = ps[n + k]
      /\ stack = <<>> /\ expanded = {} /\ order = <<>> /\ bases = <<>> /\ linked = NothingLinked
  BY <1>1, <1>2, LinksAssumption DEF ReadOK
<1>4. /\ Len(ps) \in Nat /\ Len(given) \in Nat \ {0} /\ n \in Nat /\ n + 1 \in 1..Len(ps)
  BY <1>1, <1>3, EmptySeq, LenProperties
<1>5. m = ps[n + 1] /\ m \in Given
  <2>1. 1 \in DOMAIN given /\ m = given[1] BY <1>3, <1>4
  <2>2. m = ps[n + 1] BY <1>3, <2>1
  <2>3. n + 1 \in DOMAIN ps BY <1>3, <1>4
  <2> QED BY <2>2, <2>3 DEF Given, ToSet
<1>6. /\ given' \in Seq(ModuleArtifacts) /\ Len(given') = Len(given) - 1
      /\ \A k \in 1..Len(given') : given'[k] = given[k + 1]
  BY <1>1, <1>3, HeadTailProperties
<1>7. DOMAIN given' = 1..Len(given') /\ DOMAIN given = 1..Len(given) BY <1>3, <1>6
<1>8. verdict' = Refusal(m) BY DEF Admit
<1>9. /\ verdict' \in {"reading", "invalidModule", "duplicateIdentity"}
      /\ verdict' = "invalidModule" <=> ~ (ProgramValid(m) /\ EnvelopeValid(m))
      /\ verdict' = "duplicateIdentity" <=>
           ProgramValid(m) /\ EnvelopeValid(m) /\ m.id \in DOMAIN modules
  BY <1>8 DEF Refusal
<1> HIDE DEF m, n, ps
<1>10. (TypeOK /\ DependenciesFirst)'
  <2>1. verdict' \in Refusals \cup {"reading", "linking"} BY <1>9 DEF Refusals
  <2> QED BY <1>1, <1>3, <2>1, NothingYet
<1>11. ASSUME verdict' = "reading" PROVE ReadOK'
  <2>1. modules' = Put(modules, m.id, m) BY <1>11 DEF Admit, m
  <2>2. m.id \notin DOMAIN modules /\ ProgramValid(m) /\ EnvelopeValid(m) BY <1>9, <1>11
  <2>3. /\ DOMAIN modules' = {m.id} \cup DOMAIN modules /\ modules'[m.id] = m
        /\ \A y \in DOMAIN modules : y # m.id => modules'[y] = modules[y]
    BY <2>1 DEF Put
  <2>4. /\ \A k \in 1..n : /\ ps[k].id \in DOMAIN modules
                           /\ modules[ps[k].id] = ps[k]
                           /\ ProgramValid(ps[k]) /\ EnvelopeValid(ps[k])
        /\ \A id \in DOMAIN modules : \E k \in 1..n : ps[k].id = id
        /\ \A j, k \in 1..n : ps[j].id = ps[k].id => j = k
    BY <1>3 DEF ModulesOK, ps
  <2>5. \A k \in 1..(n + 1) : k \in 1..n \/ k = n + 1 BY <1>4
  <2>6. \A k \in 1..n : k \in 1..(n + 1) BY <1>4
  <2>7. n + 1 \in 1..(n + 1) BY <1>4
  <2>8. \A k \in 1..(n + 1) : /\ ps[k].id \in DOMAIN modules' /\ modules'[ps[k].id] = ps[k]
                              /\ ProgramValid(ps[k]) /\ EnvelopeValid(ps[k])
    BY <1>5, <2>2, <2>3, <2>4, <2>5
  <2>9. \A id \in DOMAIN modules' : \E k \in 1..(n + 1) : ps[k].id = id
    BY <1>5, <2>3, <2>4, <2>6, <2>7
  <2>10. \A j, k \in 1..(n + 1) : ps[j].id = ps[k].id => j = k
    BY <1>5, <2>2, <2>4, <2>5
  <2>11. \A c : c = n + 1 => ModulesOK(c)' BY <1>1, <2>8, <2>9, <2>10 DEF ModulesOK, ps
  <2>12. Len(ps) - Len(given') = n + 1 BY <1>3, <1>4, <1>6 DEF n
  <2>13. \A k \in DOMAIN given' : given'[k] = ps[n + 1 + k]
    <3> TAKE k \in DOMAIN given'
    <3>1. k + 1 \in DOMAIN given /\ given'[k] = given[k + 1] BY <1>4, <1>6, <1>7
    <3>2. given[k + 1] = ps[n + (k + 1)] BY <1>3, <3>1
    <3>3. n + (k + 1) = n + 1 + k BY <1>4, <1>7, <1>6
    <3> QED BY <3>1, <3>2, <3>3
  <2> QED BY <1>1, <1>3, <1>4, <1>6, <2>11, <2>12, <2>13 DEF ReadOK, ps
<1>12. VerdictExact'
  <2>1. verdict' = "invalidModule" => ~ WellFormed BY <1>5, <1>9 DEF WellFormed
  <2>2. verdict' = "duplicateIdentity" => ~ WellFormed
    <3>1. SUFFICES ASSUME m.id \in DOMAIN modules PROVE ~ WellFormed BY <1>9
    <3>2. PICK k \in 1..n : ps[k].id = m.id BY <1>3, <3>1 DEF ModulesOK, ps
    <3>3. k \in 1..Len(ps) /\ k # n + 1 BY <1>4
    <3>4. Cardinality(Identities) # Len(ps) BY <1>1, <1>4, <1>5, <3>2, <3>3, IdentityCount DEF ps
    <3> QED BY <3>4 DEF WellFormed, ps
  <2>3. WellFormed' <=> WellFormed BY <1>1, InputKept
  <2> QED BY <1>9, <2>1, <2>2, <2>3 DEF VerdictExact, Refusals
<1> QED BY <1>1, <1>9, <1>10, <1>11, <1>12 DEF LinkerInv, CanGoOn

\* The set is checked: nothing is linked yet, and everything can be.
LEMMA CheckSetKeeps ==
  ASSUME LinkerInv, CheckSet
  PROVE  LinkerInv'
<1>1. /\ input \in Links /\ input' = input /\ verdict = "reading" /\ given = <<>>
      /\ UNCHANGED <<given, modules, stack, expanded, order, linked, bases>>
      /\ entries' = InEntryOrder(EntryIds) /\ verdict' = SetVerdict(entries')
  BY DEF LinkerInv, CheckSet
<1>2. ReadOK BY <1>1 DEF LinkerInv, CanGoOn
<1>3. /\ stack = <<>> /\ expanded = {} /\ order = <<>> /\ bases = <<>> /\ linked = NothingLinked
  BY <1>1, <1>2 DEF ReadOK
<1>4. ModulesOK(Len(input.products))
  <2>1. Len(given) = 0 /\ Len(input.products) \in Nat BY <1>1, LinksAssumption, LenProperties
  <2>2. Len(input.products) - Len(given) = Len(input.products) BY <2>1
  <2> QED BY <1>2, <2>2 DEF ReadOK
<1>5. /\ entries' \in Seq(EntryIds) /\ ToSet(entries') = EntryIds
      /\ verdict' \in {"emptySet", "missingEntry", "invalidEntryOrder",
                       "missingDependency", "linking"}
      /\ verdict' = "linking" <=> WellFormed
  BY <1>1, <1>4, SetVerdictExact
<1>6. verdict' \in Refusals \cup {"reading", "linking"} BY <1>5 DEF Refusals
<1>7. (TypeOK /\ DependenciesFirst)' BY <1>1, <1>3, <1>6, NothingYet
<1>8. WellFormed' <=> WellFormed BY <1>1, InputKept
<1>9. VerdictExact' BY <1>5, <1>8 DEF VerdictExact, Refusals
<1>10. ASSUME verdict' = "linking" PROVE ReadOK' /\ Linking'
  <2>1. ReadOK'
    <3>1. ModulesOK(Len(input.products) - Len(given))'
      BY <1>1, <1>2 DEF ReadOK, ModulesOK
    <3> QED BY <1>1, <1>2, <1>10, <3>1 DEF ReadOK
  <2>2. /\ DOMAIN stack' = {} /\ DOMAIN bases' = {} /\ DOMAIN order' = {}
        /\ DOMAIN linked'.main.code = {} /\ DOMAIN linked'.funs = {}
        /\ linked'.main.regs = 0 /\ stack' \in Seq(Frames) /\ order' \in Seq(STRING)
        /\ expanded' = {}
    BY <1>1, <1>3 DEF NothingLinked
  <2>3. Visiting' = {} BY <2>2 DEF Visiting
  <2>4. StackOK' BY <2>2, <2>3 DEF StackOK
  <2>5. EntryIds' = EntryIds BY <1>1 DEF EntryIds
  <2>6. GraphOK'
    <3>1. ToSet(order') = {} /\ IsInjective(order') BY <2>2 DEF ToSet, IsInjective
    <3> QED BY <1>5, <2>2, <2>3, <2>5, <3>1 DEF GraphOK
  <2>7. TablesOK'
    <3>1. linked' \in Programs
      <4>1. NothingLinked \in Programs BY DEF NothingLinked, Programs, Bodies
      <4> QED BY <1>1, <1>3, <4>1
    <3>2. RegistersIn(DOMAIN bases)' = 0
      <4>1. RegistersIn(DOMAIN bases') = 0 BY <1>1, <2>2, RegistersOfNone
      <4> QED BY <1>1, <4>1 DEF RegistersIn
    <3>3. 0 <= MaxIndex BY MaxIndexAssumption
    <3> QED BY <2>2, <3>1, <3>2, <3>3 DEF TablesOK
  <2>8. CodeOK' BY <2>2 DEF CodeOK, Complete
  <2> QED BY <1>1, <1>5, <1>8, <1>10, <2>1, <2>4, <2>6, <2>7, <2>8 DEF Linking
<1> QED BY <1>1, <1>5, <1>7, <1>9, <1>10 DEF LinkerInv, CanGoOn

-----------------------------------------------------------------------------
(* What is known while modules are expanded.                               *)

\* The parts of the sources are apart, so that a source has one home.
LEMMA OneHome ==
  ASSUME NEW B, NEW M, NEW i, i.source \in Nat, NEW id \in DOMAIN B,
         \A a \in DOMAIN B : B[a].sources \in Nat /\ M[a].sources \in Seq(STRING),
         \A a, b \in DOMAIN B : a # b =>
            \/ B[a].sources + Len(M[a].sources) <= B[b].sources
            \/ B[b].sources + Len(M[b].sources) <= B[a].sources,
         i.source - B[id].sources \in DOMAIN M[id].sources
  PROVE  HomeAmong(B, M, i) = id
<1> DEFINE s == i.source
<1>1. ASSUME NEW x \in DOMAIN B, s - B[x].sources \in DOMAIN M[x].sources PROVE x = id
  <2>1. /\ B[x].sources \in Nat /\ B[id].sources \in Nat
        /\ Len(M[x].sources) \in Nat /\ DOMAIN M[x].sources = 1..Len(M[x].sources)
        /\ Len(M[id].sources) \in Nat /\ DOMAIN M[id].sources = 1..Len(M[id].sources)
    BY LenProperties
  <2>2. /\ B[x].sources < s /\ s <= B[x].sources + Len(M[x].sources)
        /\ B[id].sources < s /\ s <= B[id].sources + Len(M[id].sources)
    <3>1. s - B[x].sources \in 1..Len(M[x].sources) BY <1>1, <2>1
    <3>2. s - B[id].sources \in 1..Len(M[id].sources) BY <2>1
    <3> QED BY <2>1, <3>1, <3>2
  <2> DEFINE a == B[x].sources
             b == B[id].sources
             m == Len(M[x].sources)
             n == Len(M[id].sources)
  <2>3. x # id => a + m <= b \/ b + n <= a OBVIOUS
  <2>4. a \in Nat /\ b \in Nat /\ m \in Nat /\ n \in Nat /\ s \in Nat BY <2>1
  <2>5. a < s /\ s <= a + m /\ b < s /\ s <= b + n BY <2>2
  <2> HIDE DEF a, b, m, n, s
  <2> QED BY <2>3, <2>4, <2>5
<1> QED BY <1>1 DEF HomeAmong

\* The parts of the invariant, and what they say of the modules.
LEMMA LinkingFacts ==
  ASSUME LinkerInv, verdict \in {"linking", "linked"}
  PROVE  /\ input \in Links /\ input.products \in Seq(ModuleArtifacts) /\ given = <<>>
         /\ ModulesOK(Len(input.products))
         /\ ReadOK /\ WellFormed /\ StackOK /\ GraphOK /\ TablesOK /\ CodeOK
         /\ TypeOK /\ DependenciesFirst
         /\ DOMAIN modules = Identities
         /\ DOMAIN bases \subseteq DOMAIN modules
         /\ \A m \in Given : Named(m) \subseteq DOMAIN modules
         /\ \A id \in DOMAIN modules :
              /\ modules[id] \in ModuleArtifacts /\ modules[id] \in Given
              /\ modules[id].id = id /\ modules[id] = Product1(id)
              /\ ProgramValid(modules[id]) /\ EnvelopeValid(modules[id])
              /\ \A k \in DOMAIN modules[id].main.code : modules[id].main.code[k].line = k
              /\ \E k \in 1..Len(input.products) : modules[id] = input.products[k]
<1>1. input \in Links /\ ReadOK /\ Linking /\ TypeOK /\ DependenciesFirst
  BY DEF LinkerInv, CanGoOn
<1>2. given = <<>> /\ WellFormed /\ StackOK /\ GraphOK /\ TablesOK /\ CodeOK
  BY <1>1 DEF Linking
<1>3. ModulesOK(Len(input.products))
  <2>1. Len(given) = 0 /\ Len(input.products) \in Nat BY <1>1, <1>2, LinksAssumption, LenProperties
  <2>2. Len(input.products) - Len(given) = Len(input.products) BY <2>1
  <2> QED BY <1>1, <2>2 DEF ReadOK
<1>4. /\ input.products \in Seq(ModuleArtifacts)
      /\ DOMAIN modules = Identities
      /\ \A id \in DOMAIN modules :
           /\ modules[id] \in ModuleArtifacts /\ modules[id] \in Given
           /\ modules[id].id = id /\ modules[id] = Product1(id)
           /\ ProgramValid(modules[id]) /\ EnvelopeValid(modules[id])
           /\ \A k \in DOMAIN modules[id].main.code : modules[id].main.code[k].line = k
           /\ \E k \in 1..Len(input.products) : modules[id] = input.products[k]
  BY <1>1, <1>3, ModuleFacts
<1>5. \A m \in Given : Named(m) \subseteq DOMAIN modules BY <1>2, <1>4 DEF WellFormed
<1>6. DOMAIN bases \subseteq DOMAIN modules
  <2>1. Needed \subseteq Identities BY DEF Needed, NeededBy
  <2> QED BY <1>2, <1>4, <2>1 DEF GraphOK
<1> QED BY <1>1, <1>2, <1>3, <1>4, <1>5, <1>6

\* An instruction is at home where its source is.
LEMMA HomeOf ==
  ASSUME LinkerInv, verdict \in {"linking", "linked"}, NEW i, i.source \in Nat,
         NEW id \in DOMAIN bases, i.source - bases[id].sources \in DOMAIN modules[id].sources
  PROVE  HomeAmong(bases, modules, i) = id
<1>1. TablesOK /\ DOMAIN bases \subseteq DOMAIN modules
      /\ \A a \in DOMAIN modules : modules[a] \in ModuleArtifacts
  BY LinkingFacts
<1>2. \A a \in DOMAIN bases : bases[a].sources \in Nat /\ modules[a].sources \in Seq(STRING)
  BY <1>1, ProductTypes DEF TablesOK, PartOK, PartIn, Contexts
<1>3. \A a, b \in DOMAIN bases : a # b =>
            \/ bases[a].sources + Len(modules[a].sources) <= bases[b].sources
            \/ bases[b].sources + Len(modules[b].sources) <= bases[a].sources
  BY <1>1 DEF TablesOK, Apart
<1> QED BY <1>2, <1>3, OneHome

\* Each instruction that stands in the program comes from a module, where
\* it is valid.
LEMMA Placed ==
  ASSUME LinkerInv, verdict \in {"linking", "linked"}, NEW g \in DOMAIN linked.main.code
  PROVE  LET i  == linked.main.code[g]
             id == Homes[g]
             o  == modules[id].main.code[i.line]
         IN /\ i \in ProductInstructions /\ i.source \in Nat /\ i.line \in Nat
            /\ id \in DOMAIN bases /\ id \in DOMAIN modules
            /\ i.line \in DOMAIN modules[id].main.code
            /\ o = Origin(g) /\ o \in ProductInstructions
            /\ InstructionValid(o, modules[id].main.regs, Len(modules[id].main.code), modules[id])
            /\ o.source \in DOMAIN modules[id].sources
            /\ bases[id].sources \in Nat
            /\ i.source = o.source + bases[id].sources
            /\ i.source - bases[id].sources \in DOMAIN modules[id].sources
            /\ \A k \in DOMAIN stack : stack[k].id = id => i.line < stack[k].local
            /\ id \in expanded => MappedOK(g)
<1> DEFINE i == linked.main.code[g]
           id == Homes[g]
           o == modules[id].main.code[i.line]
<1>1. /\ TablesOK /\ CodeOK /\ DOMAIN bases \subseteq DOMAIN modules
      /\ \A a \in DOMAIN modules : modules[a] \in ModuleArtifacts /\ ProgramValid(modules[a])
  BY LinkingFacts
<1>2. i \in ProductInstructions
  <2>1. linked.main.code \in Seq(ProductInstructions) BY <1>1 DEF TablesOK, Programs, Bodies
  <2> QED BY <2>1
<1>3. i.source \in Nat /\ i.line \in Nat BY <1>2, InstructionTypes
<1>4. /\ id \in DOMAIN bases /\ i.line \in DOMAIN modules[id].main.code
      /\ o = Origin(g) /\ i.source = o.source + bases[id].sources
      /\ \A k \in DOMAIN stack : stack[k].id = id => i.line < stack[k].local
      /\ id \in expanded => MappedOK(g)
  BY <1>1 DEF CodeOK, PlacedOK, Origin
<1>5. bases[id].sources \in Nat BY <1>1, <1>4 DEF TablesOK, PartOK, PartIn, Contexts
<1>6. id \in DOMAIN modules BY <1>1, <1>4
<1>7. BodyValid(modules[id].main, modules[id]) BY <1>1, <1>6 DEF ProgramValid
<1>8. /\ InstructionValid(o, modules[id].main.regs, Len(modules[id].main.code), modules[id])
      /\ o.source \in DOMAIN modules[id].sources
  BY <1>4, <1>7 DEF BodyValid
<1>9. o \in ProductInstructions /\ modules[id].sources \in Seq(STRING)
  <2>1. modules[id].main.code \in Seq(ProductInstructions) /\ modules[id].sources \in Seq(STRING)
    BY <1>1, <1>6, ProductTypes
  <2> QED BY <1>4, <2>1
<1>10. i.source - bases[id].sources \in DOMAIN modules[id].sources
  <2>1. o.source \in Nat BY <1>9, InstructionTypes
  <2>2. i.source - bases[id].sources = o.source BY <1>4, <1>5, <2>1
  <2> QED BY <1>8, <2>2
<1> QED BY <1>2, <1>3, <1>4, <1>5, <1>6, <1>8, <1>9, <1>10

\* The main stream of the program is a sequence of instructions.
LEMMA CodeIsSequence ==
  ASSUME LinkerInv, verdict \in {"linking", "linked"}
  PROVE  /\ linked.main.code \in Seq(ProductInstructions)
         /\ DOMAIN linked.main.code = 1..Len(linked.main.code) /\ Len(linked.main.code) \in Nat
<1>1. TablesOK BY LinkingFacts
<1>2. linked.main.code \in Seq(ProductInstructions) BY <1>1 DEF TablesOK, Programs, Bodies
<1> QED BY <1>2, LenProperties

-----------------------------------------------------------------------------
(* What stands in the program stays as it is when the tables only grow.    *)

\* Where DependenciesFirst holds, in a stream with its homes.
StandsInOrder(code, homes, products, g) ==
  LET m == products[homes[g]] IN
  /\ code[g].line \in DOMAIN m.main.code
  /\ \A h \in 1..g - 1 : homes[h] = homes[g] => code[h].line < code[g].line
  /\ \A k \in DOMAIN m.deps : m.deps[k].at <= code[g].line =>
       \A l \in DOMAIN products[m.deps[k].module].main.code :
          \E h \in 1..g - 1 : homes[h] = m.deps[k].module /\ code[h].line = l

\* The order stays with the stream and its homes.
LEMMA OrderStays ==
  ASSUME DependenciesFirst, modules' = modules, Homes' = Homes,
         linked'.main.code = linked.main.code
  PROVE  DependenciesFirst'
<1>1. \A g \in DOMAIN linked.main.code : StandsInOrder(linked.main.code, Homes, modules, g)
  BY DEF DependenciesFirst, StandsInOrder
<1>2. \A g \in DOMAIN linked'.main.code : StandsInOrder(linked'.main.code, Homes', modules', g) BY <1>1
<1> QED BY <1>2 DEF DependenciesFirst, StandsInOrder

\* So do the jumps.
LEMMA JumpsStay ==
  ASSUME NEW g, Homes' = Homes, linked'.main.code = linked.main.code
  PROVE  \A o : JumpKept(g, o)' <=> JumpKept(g, o)
BY DEF JumpKept

\* A module being expanded stands where it stood, and remembers as much.
SameFrame(f, e) ==
  /\ f.id = e.id /\ f.local = e.local
  /\ \A l \in DOMAIN e.globals : l \in DOMAIN f.globals
  /\ \A l \in 1..e.local - 1 : f.globals[l] = e.globals[l]

\* What stands in the program is what it was, for the modules still there.
LEMMA CodeStays ==
  ASSUME CodeOK, modules' = modules, expanded' = expanded, Homes' = Homes,
         linked'.main.code = linked.main.code,
         \A id \in DOMAIN bases : id \in DOMAIN bases' /\ bases'[id] = bases[id],
         \A k \in DOMAIN stack' :
            \/ stack'[k].local = 1 /\ stack'[k].id \notin DOMAIN bases
            \/ k \in DOMAIN stack /\ SameFrame(stack'[k], stack[k])
  PROVE  CodeOK'
<1> DEFINE code == linked.main.code
<1>1. ASSUME NEW g \in DOMAIN code PROVE PlacedOK(g)' /\ (Homes[g] \in expanded => MappedOK(g)')
  <2>1. PlacedOK(g) /\ (Homes[g] \in expanded => MappedOK(g)) BY DEF CodeOK
  <2>2. Homes[g] \in DOMAIN bases BY <2>1 DEF PlacedOK
  <2>3. Homes[g] \in DOMAIN bases' /\ bases'[Homes[g]] = bases[Homes[g]] BY <2>2
  <2>4. Origin(g)' = Origin(g) BY DEF Origin
  <2>5. \A k \in DOMAIN stack' : stack'[k].id = Homes[g] => code[g].line < stack'[k].local
    <3> SUFFICES ASSUME NEW k \in DOMAIN stack', stack'[k].id = Homes[g]
                 PROVE  code[g].line < stack'[k].local
      OBVIOUS
    <3>1. k \in DOMAIN stack /\ stack'[k].id = stack[k].id /\ stack'[k].local = stack[k].local
      BY <2>2 DEF SameFrame
    <3> QED BY <2>1, <3>1 DEF PlacedOK
  <2>6. PlacedOK(g)' BY <2>1, <2>3, <2>4, <2>5 DEF PlacedOK
  <2>7. ASSUME MappedOK(g) PROVE MappedOK(g)'
    <3>1. \A o : JumpKept(g, o)' <=> JumpKept(g, o) BY JumpsStay
    <3> QED BY <2>3, <2>4, <2>7, <3>1 DEF MappedOK
  <2> QED BY <2>1, <2>6, <2>7
<1>2. Complete' BY DEF CodeOK, Complete
<1>3. ASSUME NEW k \in DOMAIN stack' PROVE GlobalsOK(k)'
  <2>1. CASE stack'[k].local = 1 BY <2>1 DEF GlobalsOK
  <2>2. CASE stack'[k].local # 1
    <3>1. k \in DOMAIN stack /\ SameFrame(stack'[k], stack[k]) BY <2>2
    <3>2. GlobalsOK(k) BY <3>1 DEF CodeOK
    <3> QED BY <3>1, <3>2 DEF GlobalsOK, SameFrame
  <2> QED BY <2>1, <2>2
<1> QED BY <1>1, <1>2, <1>3 DEF CodeOK

-----------------------------------------------------------------------------
(* What a step of the expansion has to show.                               *)

\* The types follow from the stack and what has been reached.
LEMMA TypesFollow ==
  ASSUME StackOK', GraphOK', verdict' \in {"linking", "linked"}
  PROVE  TypeOK'
<1>1. \A k \in DOMAIN stack' :
         stack'[k].local \in 1..Len(modules'[stack'[k].id].main.code) + 1
  BY DEF StackOK, FrameOK
<1>2. /\ DOMAIN bases' = (Visiting \cup expanded)' /\ DOMAIN bases' \subseteq ToSet(order)'
      /\ IsInjective(order)' /\ (Visiting \cap expanded = {})'
  BY DEF StackOK, GraphOK
<1> QED BY <1>1, <1>2 DEF TypeOK, Refusals

\* The invariant is kept if its parts are and the linker goes on.
LEMMA GoesOn ==
  ASSUME LinkerInv, verdict = "linking", verdict' = "linking",
         input' = input, given' = given, modules' = modules,
         StackOK', GraphOK', TablesOK', CodeOK', DependenciesFirst'
  PROVE  LinkerInv'
<1>1. input \in Links /\ given = <<>> /\ ReadOK /\ WellFormed BY LinkingFacts
<1>2. TypeOK' BY TypesFollow
<1>3. ReadOK' BY <1>1 DEF ReadOK, ModulesOK
<1>4. WellFormed' BY <1>1, InputKept
<1>5. Linking' BY <1>1, <1>4 DEF Linking
<1>6. VerdictExact' BY DEF VerdictExact, Refusals
<1> QED BY <1>1, <1>2, <1>3, <1>5, <1>6 DEF LinkerInv, CanGoOn

\* The invariant is kept if the linker refuses with good reason.
LEMMA Refuses ==
  ASSUME LinkerInv, verdict = "linking", verdict' \in {"cycle", "overflow"},
         input' = input, modules' = modules, bases' = bases, linked' = linked,
         TypeOK',
         verdict' = "cycle" => Cyclic,
         verdict' = "overflow" => RegistersIn(Needed) > MaxIndex
  PROVE  LinkerInv'
<1>1. input \in Links /\ WellFormed /\ DependenciesFirst BY LinkingFacts
<1>2. Homes' = Homes BY DEF Homes
<1>3. DependenciesFirst' BY <1>1, <1>2, OrderStays
<1>4. /\ WellFormed' /\ (Cyclic' <=> Cyclic) /\ Needed' = Needed
      /\ \A ids : RegistersIn(ids)' = RegistersIn(ids)
  BY <1>1, InputKept
<1>5. RegistersIn(Needed)' = RegistersIn(Needed)
  <2>1. RegistersIn(Needed)' = RegistersIn(Needed') BY DEF RegistersIn
  <2> QED BY <1>4, <2>1
<1>6. VerdictExact' BY <1>4, <1>5 DEF VerdictExact, Refusals
<1> QED BY <1>1, <1>3, <1>6 DEF LinkerInv, CanGoOn

-----------------------------------------------------------------------------
(* Entering a module.                                                      *)

\* The stack below a module that is entered: the module on top of it has
\* just passed the dependency on it.
BelowOK(id, below) ==
  /\ id \in DOMAIN modules /\ id \in Needed
  /\ below \in Seq(Frames) /\ Len(below) = Len(stack)
  /\ \A k \in DOMAIN stack :
       LET f == below[k]
           m == modules[f.id]
       IN /\ SameFrame(f, stack[k])
          /\ f.dep \in 2..Len(m.deps) + 1
          /\ f.dep <= Len(m.deps) => f.local <= m.deps[f.dep].at
          /\ \A j \in 1..f.dep - 1 : /\ m.deps[j].at <= f.local
                                     /\ m.deps[j].module \in expanded \/ j = f.dep - 1
          /\ m.deps[f.dep - 1].module = IF k = Len(stack) THEN id ELSE stack[k + 1].id
          /\ id \in NeededBy(Named(m))

\* Nothing else is on the stack than before.
LEMMA BelowSame ==
  ASSUME StackOK, NEW id, NEW below, BelowOK(id, below)
  PROVE  /\ DOMAIN below = DOMAIN stack /\ DOMAIN stack = 1..Len(stack) /\ Len(stack) \in Nat
         /\ {below[k].id : k \in DOMAIN below} = Visiting
<1>1. stack \in Seq(Frames) /\ below \in Seq(Frames) /\ Len(below) = Len(stack)
  BY DEF StackOK, BelowOK
<1>2. DOMAIN below = DOMAIN stack /\ DOMAIN stack = 1..Len(stack) /\ Len(stack) \in Nat
  BY <1>1, LenProperties
<1>3. \A k \in DOMAIN stack : below[k].id = stack[k].id BY DEF BelowOK, SameFrame
<1> QED BY <1>2, <1>3 DEF Visiting

\* The tables are the same.
LEMMA TablesStay ==
  ASSUME TablesOK, input' = input, modules' = modules, linked' = linked, bases' = bases
  PROVE  TablesOK'
<1>1. \A id : PartOK(id)' <=> PartOK(id) BY DEF PartOK
<1>2. \A a, b : Apart(a, b)' <=> Apart(a, b) BY DEF Apart
<1>3. RegistersIn(DOMAIN bases)' = RegistersIn(DOMAIN bases) BY DEF RegistersIn
<1> QED BY <1>1, <1>2, <1>3 DEF TablesOK

\* A module that is expanded is passed over.
LEMMA PassesOver ==
  ASSUME LinkerInv, verdict = "linking", NEW id, NEW below, BelowOK(id, below),
         id \in expanded, stack' = below,
         UNCHANGED <<input, given, modules, expanded, order, linked, bases, verdict>>,
         entries' \in Seq(EntryIds), EntryIds \subseteq ToSet(entries') \cup DOMAIN bases
  PROVE  LinkerInv'
<1>1. StackOK /\ GraphOK /\ TablesOK /\ CodeOK /\ DependenciesFirst BY LinkingFacts
<1>2. /\ DOMAIN stack' = DOMAIN stack /\ DOMAIN stack = 1..Len(stack) /\ Len(stack) \in Nat
      /\ Visiting' = Visiting
  <2>1. /\ DOMAIN below = DOMAIN stack /\ DOMAIN stack = 1..Len(stack) /\ Len(stack) \in Nat
        /\ {below[k].id : k \in DOMAIN below} = Visiting
    BY <1>1, BelowSame
  <2>2. Visiting' = {below[k].id : k \in DOMAIN below} BY DEF Visiting
  <2> QED BY <2>1, <2>2
<1>3. Len(stack') = Len(stack) /\ stack' \in Seq(Frames) BY DEF BelowOK
<1>4. ASSUME NEW k \in DOMAIN stack' PROVE FrameOK(k)'
  <2>1. FrameOK(k) BY <1>1, <1>2 DEF StackOK
  <2>2. k \in 1..Len(stack) BY <1>2
  <2>3. stack'[k].id = stack[k].id /\ stack'[k].local = stack[k].local BY <1>2 DEF BelowOK, SameFrame
  <2>4. k < Len(stack) => stack'[k + 1].id = stack[k + 1].id BY <1>2, <2>2 DEF BelowOK, SameFrame
  <2> DEFINE f == below[k]
             m == modules[f.id]
  <2>5. /\ f.dep \in 2..Len(m.deps) + 1
        /\ f.dep <= Len(m.deps) => f.local <= m.deps[f.dep].at
        /\ \A j \in 1..f.dep - 1 : /\ m.deps[j].at <= f.local
                                   /\ m.deps[j].module \in expanded \/ j = f.dep - 1
        /\ m.deps[f.dep - 1].module = IF k = Len(stack) THEN id ELSE stack[k + 1].id
    BY <1>2 DEF BelowOK
  <2>6. f.id \in DOMAIN modules /\ f.local \in 1..Len(m.main.code) + 1 BY <2>1, <2>3 DEF FrameOK
  <2>7. ASSUME NEW j \in 1..f.dep - 1
        PROVE  m.deps[j].module \in expanded \/ (j = f.dep - 1 /\ k < Len(stack))
    <3>1. m.deps[j].module \in expanded \/ j = f.dep - 1 BY <2>5
    <3>2. k = Len(stack) => m.deps[f.dep - 1].module = id BY <2>5
    <3>3. k = Len(stack) \/ k < Len(stack) BY <1>2, <2>2
    <3> HIDE DEF f, m
    <3> QED BY <3>1, <3>2, <3>3
  <2>8. f.dep \in 1..Len(m.deps) + 1 /\ (k < Len(stack) => f.dep > 1) BY <2>5
  <2>9. k < Len(stack) => m.deps[f.dep - 1].module = below[k + 1].id BY <2>2, <2>4, <2>5
  <2> HIDE DEF f, m
  <2> QED BY <1>3, <2>5, <2>6, <2>7, <2>8, <2>9 DEF FrameOK, f, m
<1>5. StackOK'
  <2>1. \A k \in DOMAIN stack : stack'[k].id = stack[k].id BY DEF BelowOK, SameFrame
  <2> QED BY <1>1, <1>2, <1>3, <1>4, <2>1 DEF StackOK
<1>6. GraphOK'
  <2>1. \A k \in DOMAIN stack : stack'[k].id = stack[k].id BY DEF BelowOK, SameFrame
  <2>2. Needed' = Needed /\ (\A ids : NeededBy(ids)' = NeededBy(ids)) BY InputKept
  <2>3. EntryIds' = EntryIds BY DEF EntryIds
  <2> QED BY <1>1, <1>2, <2>1, <2>2, <2>3 DEF GraphOK
<1>7. TablesOK' BY <1>1, TablesStay
<1>8. Homes' = Homes BY DEF Homes
<1>9. CodeOK'
  <2>1. \A k \in DOMAIN stack' : k \in DOMAIN stack /\ SameFrame(stack'[k], stack[k])
    BY <1>2 DEF BelowOK
  <2>2. \A a \in DOMAIN bases : a \in DOMAIN bases' /\ bases'[a] = bases[a] OBVIOUS
  <2>3. modules' = modules /\ expanded' = expanded /\ linked'.main.code = linked.main.code OBVIOUS
  <2> QED BY <1>1, <1>8, <2>1, <2>2, <2>3, CodeStays
<1>10. DependenciesFirst' BY <1>1, <1>8, OrderStays
<1> QED BY <1>5, <1>6, <1>7, <1>9, <1>10, GoesOn

\* A sequence without repetition and with one more element.
LEMMA AppendApart ==
  ASSUME NEW S, NEW s \in Seq(S), NEW x \in S, x \notin ToSet(s), IsInjective(s)
  PROVE  ToSet(Append(s, x)) = ToSet(s) \cup {x} /\ IsInjective(Append(s, x))
<1>1. /\ Len(s) \in Nat /\ DOMAIN s = 1..Len(s) /\ DOMAIN Append(s, x) = 1..Len(s) + 1
      /\ \A k \in 1..Len(s) : Append(s, x)[k] = s[k]
      /\ Append(s, x)[Len(s) + 1] = x
  BY AppendProperties, LenProperties
<1> DEFINE t == Append(s, x)
           n == Len(s)
<1> HIDE DEF t, n
<1>2. n \in Nat /\ DOMAIN t = 1..n + 1 /\ (\A k \in 1..n : t[k] = s[k]) /\ t[n + 1] = x
      /\ DOMAIN s = 1..n
  BY <1>1 DEF t, n
<1>3. \A k \in 1..n + 1 : k \in 1..n \/ k = n + 1 BY <1>2
<1>4. n + 1 \in 1..n + 1 /\ \A k \in 1..n : k \in 1..n + 1 BY <1>2
<1>5. ToSet(t) = ToSet(s) \cup {x}
  <2>1. ASSUME NEW y \in ToSet(t) PROVE y \in ToSet(s) \cup {x}
    <3>1. PICK k \in 1..n + 1 : y = t[k] BY <1>2 DEF ToSet
    <3> QED BY <1>2, <1>3, <3>1 DEF ToSet
  <2>2. ASSUME NEW y \in ToSet(s) PROVE y \in ToSet(t)
    <3>1. PICK k \in 1..n : y = s[k] BY <1>2 DEF ToSet
    <3>2. k \in DOMAIN t /\ t[k] = y BY <1>2, <1>4, <3>1
    <3> QED BY <3>2 DEF ToSet
  <2>3. x \in ToSet(t) BY <1>2, <1>4 DEF ToSet
  <2> QED BY <2>1, <2>2, <2>3
<1>6. IsInjective(t)
  <2>1. \A k \in 1..n : s[k] # x BY <1>2 DEF ToSet
  <2>2. \A j, k \in 1..n : s[j] = s[k] => j = k BY <1>2 DEF IsInjective
  <2>3. ASSUME NEW j \in 1..n + 1, NEW k \in 1..n + 1, t[j] = t[k] PROVE j = k
    BY <1>2, <1>3, <2>1, <2>2, <2>3
  <2> QED BY <1>2, <2>3 DEF IsInjective
<1> QED BY <1>5, <1>6 DEF t

\* A module that is not passed over gets the next place in the order.
LEMMA NewInOrder ==
  ASSUME LinkerInv, verdict = "linking", NEW id \in DOMAIN modules, id \notin expanded \cup Visiting
  PROVE  /\ order \in Seq(STRING) /\ id \in STRING
         /\ Append(order, id) \in Seq(STRING)
         /\ ToSet(Append(order, id)) = DOMAIN bases \cup {id} /\ IsInjective(Append(order, id))
<1>1. GraphOK /\ modules[id] \in ModuleArtifacts /\ modules[id].id = id BY LinkingFacts
<1>2. /\ order \in Seq(STRING) /\ ToSet(order) = DOMAIN bases /\ IsInjective(order)
      /\ id \notin DOMAIN bases
  BY <1>1 DEF GraphOK
<1>3. id \in STRING BY <1>1, ProductTypes
<1> QED BY <1>2, <1>3, AppendApart, AppendProperties

\* The types when the linker refuses.
LEMMA RefusalTypes ==
  ASSUME LinkerInv, verdict = "linking", NEW id, NEW below, BelowOK(id, below),
         stack' = below, modules' = modules, expanded' = expanded, bases' = bases,
         IsInjective(order'), DOMAIN bases \subseteq ToSet(order'),
         verdict' \in {"cycle", "overflow"}
  PROVE  TypeOK'
<1>1. StackOK /\ TypeOK BY LinkingFacts
<1>2. /\ DOMAIN below = DOMAIN stack /\ {below[k].id : k \in DOMAIN below} = Visiting
  BY <1>1, BelowSame
<1>3. Visiting' = Visiting
  <2>1. Visiting' = {below[k].id : k \in DOMAIN below} BY DEF Visiting
  <2> QED BY <1>2, <2>1
<1>4. \A k \in DOMAIN stack' : stack'[k].id = stack[k].id /\ stack'[k].local = stack[k].local
  BY <1>2 DEF BelowOK, SameFrame
<1>5. \A k \in DOMAIN stack' :
         stack'[k].local \in 1..Len(modules'[stack'[k].id].main.code) + 1
  BY <1>1, <1>2, <1>4 DEF TypeOK
<1>6. ToSet(order)' = ToSet(order') BY DEF ToSet
<1>7. IsInjective(order)' BY DEF IsInjective
<1> QED BY <1>1, <1>3, <1>5, <1>6, <1>7 DEF TypeOK, Refusals

\* A module that is being expanded is on a cycle.
LEMMA FindsCycle ==
  ASSUME LinkerInv, verdict = "linking", NEW id, NEW below, BelowOK(id, below),
         id \in Visiting, stack' = below, verdict' = "cycle",
         UNCHANGED <<input, given, modules, expanded, order, linked, bases>>
  PROVE  LinkerInv'
<1>1. /\ StackOK /\ GraphOK /\ \A a \in DOMAIN modules : modules[a] = Product1(a)
  BY LinkingFacts
<1>2. PICK k \in DOMAIN stack : stack[k].id = id BY DEF Visiting
<1>3. /\ id \in DOMAIN modules /\ id \in Needed /\ below[k].id = id
      /\ id \in NeededBy(Named(modules[id]))
  BY <1>2 DEF BelowOK, SameFrame
<1>4. Cyclic BY <1>1, <1>3 DEF Cyclic
<1>5. IsInjective(order') /\ DOMAIN bases \subseteq ToSet(order') BY <1>1 DEF GraphOK
<1>6. TypeOK' BY <1>5, RefusalTypes
<1> QED BY <1>4, <1>6, Refuses

\* The registers of the modules entered, and of one more.
LEMMA RegistersWith ==
  ASSUME LinkerInv, verdict = "linking", NEW id \in DOMAIN modules, id \notin expanded \cup Visiting
  PROVE  /\ id \notin DOMAIN bases
         /\ modules[id].main.regs \in Nat /\ linked.main.regs \in Nat
         /\ RegistersIn(DOMAIN bases \cup {id}) = linked.main.regs + modules[id].main.regs
<1>1. /\ input \in Links /\ input.products \in Seq(ModuleArtifacts)
      /\ ModulesOK(Len(input.products)) /\ GraphOK /\ TablesOK
      /\ modules[id] \in ModuleArtifacts /\ modules[id].id = id
      /\ \E k \in 1..Len(input.products) : modules[id] = input.products[k]
  BY LinkingFacts
<1>2. PICK j \in 1..Len(input.products) : modules[id] = input.products[j] BY <1>1
<1>3. input.products[j].id = id BY <1>1, <1>2
<1>4. id \notin DOMAIN bases BY <1>1 DEF GraphOK
<1>5. \A k \in 1..Len(input.products) : input.products[k].id = input.products[j].id => k = j
  BY <1>1 DEF ModulesOK
<1>6. RegistersIn(DOMAIN bases \cup {id}) = RegistersIn(DOMAIN bases) + modules[id].main.regs
  BY <1>1, <1>2, <1>3, <1>4, <1>5, RegistersOfOneMore
<1>7. linked.main.regs = RegistersIn(DOMAIN bases) BY <1>1 DEF TablesOK
<1>8. linked.main.regs \in Nat BY <1>1 DEF TablesOK, Programs, Bodies
<1>9. modules[id].main.regs \in Nat BY <1>1, ProductTypes
<1> QED BY <1>4, <1>6, <1>7, <1>8, <1>9

\* A module whose registers do not fit: what is needed does not fit.
LEMMA Overflows ==
  ASSUME LinkerInv, verdict = "linking", NEW id, NEW below, BelowOK(id, below),
         id \notin expanded \cup Visiting, order' = Append(order, id),
         linked.main.regs + modules[id].main.regs > MaxIndex,
         stack' = below, verdict' = "overflow",
         UNCHANGED <<input, given, modules, expanded, linked, bases>>
  PROVE  LinkerInv'
<1>1. id \in DOMAIN modules /\ id \in Needed BY DEF BelowOK
<1>2. input \in Links /\ GraphOK BY LinkingFacts
<1>3. /\ RegistersIn(DOMAIN bases \cup {id}) = linked.main.regs + modules[id].main.regs
      /\ modules[id].main.regs \in Nat /\ linked.main.regs \in Nat
  BY <1>1, RegistersWith
<1>4. DOMAIN bases \cup {id} \subseteq Needed BY <1>1, <1>2 DEF GraphOK
<1>5. /\ RegistersIn(DOMAIN bases \cup {id}) <= RegistersIn(Needed)
      /\ RegistersIn(Needed) \in Nat
  BY <1>2, <1>4, RegistersGrow
<1>6. RegistersIn(Needed) > MaxIndex BY <1>3, <1>5, MaxIndexAssumption
<1>7. IsInjective(order') /\ DOMAIN bases \subseteq ToSet(order') BY <1>1, NewInOrder
<1>8. TypeOK' BY <1>7, RefusalTypes
<1> QED BY <1>6, <1>8, Refuses

-----------------------------------------------------------------------------
(* A module's part of the tables.                                          *)

\* An instruction moved to a context.
LEMMA InTablesFields ==
  ASSUME NEW i \in ProductInstructions, NEW b \in Contexts
  PROVE  /\ InTables(i, b) \in ProductInstructions
         /\ InTables(i, b).op = i.op /\ InTables(i, b).dest = i.dest
         /\ InTables(i, b).args = i.args /\ InTables(i, b).at = i.at
         /\ InTables(i, b).imm = i.imm /\ InTables(i, b).line = i.line
         /\ InTables(i, b).const = Shifted(i.const, b.consts)
         /\ InTables(i, b).name = Shifted(i.name, b.names)
         /\ InTables(i, b).fun = Shifted(i.fun, b.funs)
         /\ InTables(i, b).source = i.source + b.sources
<1>1. /\ i.op \in STRING /\ i.dest \in Nat /\ i.args \in Seq(Nat) /\ i.at \in Nat
      /\ i.imm \in Values /\ i.const \in Nat /\ i.name \in Nat /\ i.fun \in Nat
      /\ i.source \in Nat /\ i.line \in Nat
      /\ i = [op |-> i.op, dest |-> i.dest, args |-> i.args, at |-> i.at, imm |-> i.imm,
              const |-> i.const, name |-> i.name, fun |-> i.fun, source |-> i.source,
              line |-> i.line]
  BY InstructionTypes
<1>2. /\ Shifted(i.const, b.consts) \in Nat /\ Shifted(i.name, b.names) \in Nat
      /\ Shifted(i.fun, b.funs) \in Nat /\ i.source + b.sources \in Nat
  <2>1. b.consts \in Nat /\ b.names \in Nat /\ b.funs \in Nat /\ b.sources \in Nat BY DEF Contexts
  <2>2. \A k, c \in Nat : Shifted(k, c) \in Nat /\ k + c \in Nat BY DEF Shifted
  <2> QED BY <1>1, <2>1, <2>2
<1>3. DOMAIN i = {"op", "dest", "args", "at", "imm", "const", "name", "fun", "source", "line"}
  BY DEF ProductInstructions
<1>4. /\ InTables(i, b).op = i.op /\ InTables(i, b).dest = i.dest
      /\ InTables(i, b).args = i.args /\ InTables(i, b).at = i.at
      /\ InTables(i, b).imm = i.imm /\ InTables(i, b).line = i.line
  BY <1>3 DEF InTables
<1>5. /\ InTables(i, b).const = Shifted(i.const, b.consts)
      /\ InTables(i, b).name = Shifted(i.name, b.names)
      /\ InTables(i, b).fun = Shifted(i.fun, b.funs)
      /\ InTables(i, b).source = i.source + b.sources
  BY <1>3 DEF InTables
<1>6. InTables(i, b) \in ProductInstructions
  BY <1>2 DEF InTables, ProductInstructions
<1> QED BY <1>4, <1>5, <1>6

\* A stream of instructions moved to a context.
LEMMA FunctionsMoved ==
  ASSUME NEW m \in ModuleArtifacts, NEW b \in Contexts
  PROVE  /\ MovedFunctions(m, b) \in Seq(Bodies)
         /\ Len(MovedFunctions(m, b)) = Len(m.funs)
         /\ DOMAIN MovedFunctions(m, b) = DOMAIN m.funs
         /\ \A f \in DOMAIN m.funs :
              /\ MovedFunctions(m, b)[f].regs = m.funs[f].regs
              /\ MovedFunctions(m, b)[f].code =
                   [k \in DOMAIN m.funs[f].code |-> InTables(m.funs[f].code[k], b)]
<1>1. m.funs \in Seq(Bodies) /\ DOMAIN m.funs = 1..Len(m.funs) /\ Len(m.funs) \in Nat
  BY ProductTypes, LenProperties
<1>2. ASSUME NEW f \in DOMAIN m.funs
      PROVE  /\ MovedFunctions(m, b)[f] \in Bodies
             /\ MovedFunctions(m, b)[f].regs = m.funs[f].regs
             /\ MovedFunctions(m, b)[f].code =
                  [k \in DOMAIN m.funs[f].code |-> InTables(m.funs[f].code[k], b)]
  <2> DEFINE body == m.funs[f]
             code == [k \in DOMAIN body.code |-> InTables(body.code[k], b)]
  <2>1. body \in Bodies BY <1>1
  <2>2. body.code \in Seq(ProductInstructions) /\ body.regs \in Nat
        /\ body = [code |-> body.code, regs |-> body.regs]
    BY <2>1 DEF Bodies
  <2>3. code \in Seq(ProductInstructions)
    <3>1. DOMAIN body.code = 1..Len(body.code) /\ Len(body.code) \in Nat BY <2>2, LenProperties
    <3>2. \A k \in 1..Len(body.code) : InTables(body.code[k], b) \in ProductInstructions
      BY <2>2, <3>1, InTablesFields
    <3> HIDE DEF body
    <3> QED BY <3>1, <3>2
  <2>4. MovedFunctions(m, b)[f] = [body EXCEPT !.code = code] BY DEF MovedFunctions
  <2>5. [body EXCEPT !.code = code] = [code |-> code, regs |-> body.regs]
    <3> HIDE DEF code, body
    <3> QED BY <2>2
  <2>6. [code |-> code, regs |-> body.regs] \in Bodies
    <3> HIDE DEF code, body
    <3> QED BY <2>2, <2>3 DEF Bodies
  <2>7. MovedFunctions(m, b)[f] = [code |-> code, regs |-> body.regs] BY <2>4, <2>5
  <2> HIDE DEF code
  <2>8. MovedFunctions(m, b)[f].code = code /\ MovedFunctions(m, b)[f].regs = body.regs BY <2>7
  <2> QED BY <2>6, <2>7, <2>8 DEF code
<1>3. DOMAIN MovedFunctions(m, b) = 1..Len(m.funs) BY <1>1 DEF MovedFunctions
<1>4. MovedFunctions(m, b) \in [1..Len(m.funs) -> Bodies]
  <2>1. \A f \in 1..Len(m.funs) : MovedFunctions(m, b)[f] \in Bodies BY <1>1, <1>2
  <2> QED BY <1>1, <2>1 DEF MovedFunctions
<1>5. MovedFunctions(m, b) \in Seq(Bodies) /\ Len(MovedFunctions(m, b)) = Len(m.funs)
  <2> DEFINE F == MovedFunctions(m, b)
  <2> HIDE DEF F
  <2> QED BY <1>1, <1>4 DEF F
<1> QED BY <1>1, <1>2, <1>3, <1>5

\* A table that begins with another.
StartsWith(t, s) == Len(s) <= Len(t) /\ \A k \in 1..Len(s) : t[k] = s[k]

\* A program whose tables begin with those of another.
Grows(q, p) ==
  /\ StartsWith(q.consts, p.consts) /\ StartsWith(q.names, p.names)
  /\ StartsWith(q.funs, p.funs) /\ Len(p.sources) <= Len(q.sources)
  /\ p.main.regs <= q.main.regs

\* A part that lies in a table lies in a larger one.
LEMMA PartFits ==
  ASSUME NEW a \in Nat, NEW n \in Nat, NEW c \in Nat, NEW d \in Nat, a + n <= c, c <= d
  PROVE  a + n <= d /\ \A k \in 1..n : a + k \in 1..c
OBVIOUS

\* Where a module's part is, it stays.
LEMMA PartGrows ==
  ASSUME NEW p \in Programs, NEW q \in Programs, NEW m \in ModuleArtifacts, NEW b,
         Grows(q, p), PartIn(p, m, b)
  PROVE  PartIn(q, m, b)
<1>1. /\ m.consts \in Seq(Values) /\ m.names \in Seq(STRING) /\ m.sources \in Seq(STRING)
      /\ m.funs \in Seq(Bodies) /\ m.main.regs \in Nat
  BY ProductTypes
<1>2. /\ b.consts \in Nat /\ b.names \in Nat /\ b.sources \in Nat /\ b.funs \in Nat /\ b.regs \in Nat
  BY DEF PartIn, Contexts
<1>3. /\ Len(p.consts) \in Nat /\ Len(p.names) \in Nat /\ Len(p.sources) \in Nat
      /\ Len(p.funs) \in Nat /\ p.main.regs \in Nat
      /\ Len(q.consts) \in Nat /\ Len(q.names) \in Nat /\ Len(q.sources) \in Nat
      /\ Len(q.funs) \in Nat /\ q.main.regs \in Nat
  BY LenProperties DEF Programs, Bodies
<1>4. /\ DOMAIN m.consts = 1..Len(m.consts) /\ Len(m.consts) \in Nat
      /\ DOMAIN m.names = 1..Len(m.names) /\ Len(m.names) \in Nat
      /\ DOMAIN m.funs = 1..Len(m.funs) /\ Len(m.funs) \in Nat
      /\ Len(m.sources) \in Nat
  BY <1>1, LenProperties
<1>5. /\ b.consts + Len(m.consts) <= Len(p.consts) /\ b.names + Len(m.names) <= Len(p.names)
      /\ b.sources + Len(m.sources) <= Len(p.sources) /\ b.funs + Len(m.funs) <= Len(p.funs)
      /\ b.regs + m.main.regs <= p.main.regs
  BY DEF PartIn
<1>6. /\ Len(p.consts) <= Len(q.consts) /\ Len(p.names) <= Len(q.names)
      /\ Len(p.funs) <= Len(q.funs) /\ Len(p.sources) <= Len(q.sources)
      /\ p.main.regs <= q.main.regs
  BY DEF Grows, StartsWith
<1>7. /\ b.consts + Len(m.consts) <= Len(q.consts)
      /\ \A k \in 1..Len(m.consts) : b.consts + k \in 1..Len(p.consts)
  BY <1>2, <1>3, <1>4, <1>5, <1>6, PartFits
<1>8. /\ b.names + Len(m.names) <= Len(q.names)
      /\ \A k \in 1..Len(m.names) : b.names + k \in 1..Len(p.names)
  BY <1>2, <1>3, <1>4, <1>5, <1>6, PartFits
<1>9. /\ b.sources + Len(m.sources) <= Len(q.sources)
      /\ \A k \in 1..Len(m.sources) : b.sources + k \in 1..Len(p.sources)
  BY <1>2, <1>3, <1>4, <1>5, <1>6, PartFits
<1>10. /\ b.funs + Len(m.funs) <= Len(q.funs)
      /\ \A k \in 1..Len(m.funs) : b.funs + k \in 1..Len(p.funs)
  BY <1>2, <1>3, <1>4, <1>5, <1>6, PartFits
<1>11. b.regs + m.main.regs <= q.main.regs BY <1>1, <1>2, <1>3, <1>5, <1>6, PartFits
<1>12. \A k \in DOMAIN m.consts : q.consts[b.consts + k] = m.consts[k]
  <2> TAKE k \in DOMAIN m.consts
  <2>1. b.consts + k \in 1..Len(p.consts) BY <1>4, <1>7
  <2> QED BY <2>1 DEF PartIn, Grows, StartsWith
<1>13. \A k \in DOMAIN m.names : q.names[b.names + k] = m.names[k]
  <2> TAKE k \in DOMAIN m.names
  <2>1. b.names + k \in 1..Len(p.names) BY <1>4, <1>8
  <2> QED BY <2>1 DEF PartIn, Grows, StartsWith
<1>14. \A f \in DOMAIN m.funs : q.funs[b.funs + f] = MovedFunctions(m, b)[f]
  <2> TAKE f \in DOMAIN m.funs
  <2>1. b.funs + f \in 1..Len(p.funs) BY <1>4, <1>10
  <2> QED BY <2>1 DEF PartIn, Grows, StartsWith
<1> QED BY <1>7, <1>8, <1>9, <1>10, <1>11, <1>12, <1>13, <1>14 DEF PartIn

\* A table u with t behind s.
IsBehind(u, s, t) ==
  /\ Len(u) = Len(s) + Len(t)
  /\ Len(s) <= Len(u)
  /\ \A k \in DOMAIN u : k \in DOMAIN s \/ k - Len(s) \in DOMAIN t
  /\ StartsWith(u, s)
  /\ \A k \in DOMAIN t : u[Len(s) + k] = t[k]

\* Tables are put behind each other by concatenation.
LEMMA Behind ==
  ASSUME NEW S, NEW s \in Seq(S), NEW t \in Seq(S), NEW u, u = s \o t
  PROVE  IsBehind(u, s, t)
<1>1. /\ u \in Seq(S) /\ Len(s) \in Nat /\ Len(t) \in Nat /\ Len(u) = Len(s) + Len(t)
      /\ DOMAIN t = 1..Len(t) /\ DOMAIN s = 1..Len(s)
      /\ \A i \in 1..Len(s) + Len(t) : u[i] = IF i <= Len(s) THEN s[i] ELSE t[i - Len(s)]
  BY ConcatProperties, LenProperties
<1>2. DOMAIN u = 1..Len(s) + Len(t) BY <1>1, LenProperties
<1> DEFINE a == Len(s)
           b == Len(t)
<1>3. /\ a \in Nat /\ b \in Nat /\ Len(u) = a + b
      /\ \A i \in 1..a + b : u[i] = IF i <= a THEN s[i] ELSE t[i - a]
      /\ DOMAIN t = 1..b /\ DOMAIN s = 1..a /\ DOMAIN u = 1..a + b
  BY <1>1, <1>2
<1> HIDE DEF a, b
<1>4. a <= Len(u) /\ \A k \in 1..a : u[k] = s[k]
  <2>1. ASSUME NEW k \in 1..a PROVE u[k] = s[k]
    <3>1. k \in 1..a + b /\ k <= a BY <1>3
    <3> QED BY <1>3, <3>1
  <2> QED BY <1>3, <2>1
<1>5. ASSUME NEW k \in 1..b PROVE u[a + k] = t[k]
  <2>1. a + k \in 1..a + b /\ ~ (a + k <= a) /\ (a + k) - a = k BY <1>3
  <2> QED BY <1>3, <2>1
<1>6. \A k \in 1..a + b : k \in 1..a \/ k - a \in 1..b BY <1>3
<1> QED BY <1>3, <1>4, <1>5, <1>6 DEF StartsWith, IsBehind, a, b

\* The tables with a module's behind them.
LEMMA TablesWith ==
  ASSUME linked \in Programs, NEW m \in ModuleArtifacts
  PROVE  /\ BasesNow \in Contexts
         /\ BasesNow.sources = Len(linked.sources) /\ BasesNow.regs = linked.main.regs
         /\ BasesNow.funs = Len(linked.funs)
         /\ WithTables(m) \in Programs
         /\ WithTables(m).main.code = linked.main.code
         /\ WithTables(m).main.regs = linked.main.regs + m.main.regs
         /\ Grows(WithTables(m), linked)
         /\ PartIn(WithTables(m), m, BasesNow)
         /\ \A f \in DOMAIN WithTables(m).funs :
              f \in DOMAIN linked.funs \/ f - BasesNow.funs \in DOMAIN m.funs
<1> DEFINE p == linked
           q == WithTables(m)
           b == BasesNow
<1>1. /\ p.consts \in Seq(Values) /\ p.names \in Seq(STRING) /\ p.sources \in Seq(STRING)
      /\ p.funs \in Seq(Bodies) /\ p.main \in Bodies
      /\ p.main.code \in Seq(ProductInstructions) /\ p.main.regs \in Nat
      /\ DOMAIN p = {"consts", "names", "sources", "funs", "main"}
      /\ DOMAIN p.main = {"code", "regs"}
  BY DEF Programs, Bodies
<1>2. /\ m.consts \in Seq(Values) /\ m.names \in Seq(STRING) /\ m.sources \in Seq(STRING)
      /\ m.funs \in Seq(Bodies) /\ m.main.regs \in Nat
  BY ProductTypes
<1>3. /\ b \in Contexts
      /\ b.consts = Len(p.consts) /\ b.names = Len(p.names) /\ b.sources = Len(p.sources)
      /\ b.funs = Len(p.funs) /\ b.regs = p.main.regs
  BY <1>1, LenProperties DEF BasesNow, Contexts
<1>4. /\ MovedFunctions(m, b) \in Seq(Bodies) /\ Len(MovedFunctions(m, b)) = Len(m.funs)
      /\ DOMAIN MovedFunctions(m, b) = DOMAIN m.funs
  BY <1>3, FunctionsMoved
<1>5. /\ q.consts = p.consts \o m.consts /\ q.names = p.names \o m.names
      /\ q.sources = p.sources \o m.sources
  BY <1>1 DEF WithTables
<1>6. q.funs = p.funs \o MovedFunctions(m, b) BY <1>1 DEF WithTables, MovedFunctions
<1>7. q.main.code = p.main.code /\ q.main.regs = p.main.regs + m.main.regs
  BY <1>1 DEF WithTables
<1>8. q \in Programs
  <2>1. /\ p.consts \o m.consts \in Seq(Values) /\ p.names \o m.names \in Seq(STRING)
        /\ p.sources \o m.sources \in Seq(STRING)
        /\ p.funs \o MovedFunctions(m, b) \in Seq(Bodies)
        /\ p.main.regs + m.main.regs \in Nat
    BY <1>1, <1>2, <1>4, ConcatProperties
  <2>2. DOMAIN q = {"consts", "names", "sources", "funs", "main"} BY <1>1 DEF WithTables
  <2>3. q.main = [code |-> p.main.code, regs |-> p.main.regs + m.main.regs]
    <3>1. q.main = [p.main EXCEPT !.regs = @ + m.main.regs] BY <1>1 DEF WithTables
    <3>2. p.main = [code |-> p.main.code, regs |-> p.main.regs] BY DEF Programs, Bodies
    <3> QED BY <1>1, <3>1, <3>2
  <2>4. q.main \in Bodies BY <1>1, <2>1, <2>3 DEF Bodies
  <2>5. q = [x \in DOMAIN q |-> q[x]] BY <1>1 DEF WithTables
  <2> HIDE DEF q
  <2>6. q = [consts |-> q.consts, names |-> q.names, sources |-> q.sources, funs |-> q.funs,
             main |-> q.main]
    BY <2>2, <2>5
  <2> QED BY <1>5, <1>6, <2>1, <2>4, <2>6 DEF Programs
<1> HIDE DEF p, q, b
<1>9. /\ DOMAIN m.consts = 1..Len(m.consts) /\ DOMAIN m.names = 1..Len(m.names)
      /\ DOMAIN m.funs = 1..Len(m.funs)
      /\ Len(m.consts) \in Nat /\ Len(m.names) \in Nat /\ Len(m.sources) \in Nat
      /\ Len(m.funs) \in Nat
      /\ Len(p.consts) \in Nat /\ Len(p.names) \in Nat /\ Len(p.sources) \in Nat
      /\ Len(p.funs) \in Nat
  BY <1>1, <1>2, LenProperties
<1>10. IsBehind(q.consts, p.consts, m.consts) BY <1>1, <1>2, <1>5, Behind
<1>11. IsBehind(q.names, p.names, m.names) BY <1>1, <1>2, <1>5, Behind
<1>12. IsBehind(q.funs, p.funs, MovedFunctions(m, b)) BY <1>1, <1>4, <1>6, Behind
<1>13. IsBehind(q.sources, p.sources, m.sources) BY <1>1, <1>2, <1>5, Behind
<1>14. Grows(q, p)
  <2>1. p.main.regs <= q.main.regs BY <1>1, <1>2, <1>7
  <2>2. StartsWith(q.consts, p.consts) BY <1>10 DEF IsBehind
  <2>3. StartsWith(q.names, p.names) BY <1>11 DEF IsBehind
  <2>4. StartsWith(q.funs, p.funs) BY <1>12 DEF IsBehind
  <2>5. Len(p.sources) <= Len(q.sources) BY <1>13 DEF IsBehind
  <2> QED BY <2>1, <2>2, <2>3, <2>4, <2>5 DEF Grows
<1>15. PartIn(q, m, b)
  <2>1. \A x, y, z : x \in Nat /\ y \in Nat /\ z = x + y => x + y <= z OBVIOUS
  <2>2. b.consts + Len(m.consts) <= Len(q.consts)
    <3>1. Len(q.consts) = Len(p.consts) + Len(m.consts) BY <1>10 DEF IsBehind
    <3> QED BY <1>3, <1>9, <2>1, <3>1
  <2>3. b.names + Len(m.names) <= Len(q.names)
    <3>1. Len(q.names) = Len(p.names) + Len(m.names) BY <1>11 DEF IsBehind
    <3> QED BY <1>3, <1>9, <2>1, <3>1
  <2>4. b.sources + Len(m.sources) <= Len(q.sources)
    <3>1. Len(q.sources) = Len(p.sources) + Len(m.sources) BY <1>13 DEF IsBehind
    <3> QED BY <1>3, <1>9, <2>1, <3>1
  <2>5. b.funs + Len(m.funs) <= Len(q.funs)
    <3>1. Len(q.funs) = Len(p.funs) + Len(MovedFunctions(m, b)) BY <1>12 DEF IsBehind
    <3> QED BY <1>3, <1>4, <1>9, <2>1, <3>1
  <2>6. b.regs + m.main.regs <= q.main.regs BY <1>1, <1>2, <1>3, <1>7, <2>1
  <2>7. \A k \in DOMAIN m.consts : q.consts[b.consts + k] = m.consts[k]
    BY <1>3, <1>10 DEF IsBehind
  <2>8. \A k \in DOMAIN m.names : q.names[b.names + k] = m.names[k]
    BY <1>3, <1>11 DEF IsBehind
  <2>9. \A f \in DOMAIN m.funs : q.funs[b.funs + f] = MovedFunctions(m, b)[f]
    BY <1>3, <1>4, <1>12 DEF IsBehind
  <2> QED BY <1>3, <2>2, <2>3, <2>4, <2>5, <2>6, <2>7, <2>8, <2>9 DEF PartIn
<1>16. \A f \in DOMAIN q.funs : f \in DOMAIN p.funs \/ f - b.funs \in DOMAIN m.funs
  BY <1>3, <1>4, <1>12 DEF IsBehind
<1> QED BY <1>3, <1>7, <1>8, <1>14, <1>15, <1>16 DEF p, q, b

-----------------------------------------------------------------------------
(* A module that is entered.                                               *)

\* The tables with those of the module.
LEMMA EntersTables ==
  ASSUME LinkerInv, verdict = "linking", NEW id \in DOMAIN modules, id \notin expanded \cup Visiting,
         linked.main.regs + modules[id].main.regs <= MaxIndex,
         linked' = WithTables(modules[id]), bases' = Put(bases, id, BasesNow),
         input' = input, modules' = modules
  PROVE  /\ TablesOK' /\ Homes' = Homes /\ linked'.main.code = linked.main.code
         /\ id \notin DOMAIN bases /\ DOMAIN bases' = DOMAIN bases \cup {id}
         /\ \A a \in DOMAIN bases : bases'[a] = bases[a]
<1> DEFINE m == modules[id]
<1>1. /\ TablesOK /\ input \in Links /\ DOMAIN bases \subseteq DOMAIN modules
      /\ \A a \in DOMAIN modules : modules[a] \in ModuleArtifacts
  BY LinkingFacts
<1>2. /\ id \notin DOMAIN bases /\ m.main.regs \in Nat /\ linked.main.regs \in Nat
      /\ RegistersIn(DOMAIN bases \cup {id}) = linked.main.regs + m.main.regs
  BY RegistersWith
<1>3. /\ linked \in Programs /\ m \in ModuleArtifacts BY <1>1 DEF TablesOK
<1>4. /\ BasesNow \in Contexts
      /\ BasesNow.sources = Len(linked.sources) /\ BasesNow.regs = linked.main.regs
      /\ BasesNow.funs = Len(linked.funs)
      /\ linked' \in Programs
      /\ linked'.main.code = linked.main.code
      /\ linked'.main.regs = linked.main.regs + m.main.regs
      /\ Grows(linked', linked)
      /\ PartIn(linked', m, BasesNow)
      /\ \A f \in DOMAIN linked'.funs :
           f \in DOMAIN linked.funs \/ f - BasesNow.funs \in DOMAIN m.funs
  BY <1>3, TablesWith
<1>5. /\ DOMAIN bases' = DOMAIN bases \cup {id} /\ bases'[id] = BasesNow
      /\ \A a \in DOMAIN bases : bases'[a] = bases[a]
  BY <1>2 DEF Put
<1> HIDE DEF m
<1>6. ASSUME NEW a \in DOMAIN bases' PROVE PartIn(linked', modules[a], bases'[a])
  <2>1. CASE a = id BY <1>4, <1>5, <2>1 DEF m
  <2>2. CASE a \in DOMAIN bases
    <3>1. PartIn(linked, modules[a], bases[a]) BY <1>1, <2>2 DEF TablesOK, PartOK
    <3>2. modules[a] \in ModuleArtifacts BY <1>1, <2>2
    <3>3. PartIn(linked', modules[a], bases[a]) BY <1>3, <1>4, <3>1, <3>2, PartGrows
    <3> QED BY <1>5, <2>2, <3>3
  <2> QED BY <1>5, <2>1, <2>2
<1>7. ASSUME NEW a \in DOMAIN bases
      PROVE  /\ bases[a].sources + Len(modules[a].sources) <= BasesNow.sources
             /\ bases[a].regs + modules[a].main.regs <= BasesNow.regs
  BY <1>1, <1>4 DEF TablesOK, PartOK, PartIn
<1>8. ASSUME NEW a \in DOMAIN bases', NEW b \in DOMAIN bases', a # b PROVE Apart(a, b)'
  <2>1. CASE a = id BY <1>5, <1>7, <1>8, <2>1 DEF Apart
  <2>2. CASE b = id BY <1>5, <1>7, <1>8, <2>2 DEF Apart
  <2>3. CASE a \in DOMAIN bases /\ b \in DOMAIN bases
    <3>1. Apart(a, b) BY <1>1, <1>8, <2>3 DEF TablesOK
    <3> QED BY <1>5, <2>3, <3>1 DEF Apart
  <2> QED BY <1>5, <2>1, <2>2, <2>3
<1>9. ASSUME NEW f \in DOMAIN linked'.funs
      PROVE  \E a \in DOMAIN bases' : f - bases'[a].funs \in DOMAIN modules[a].funs
  <2>1. CASE f \in DOMAIN linked.funs
    <3>1. PICK a \in DOMAIN bases : f - bases[a].funs \in DOMAIN modules[a].funs
      BY <1>1, <2>1 DEF TablesOK
    <3> QED BY <1>5, <3>1
  <2>2. CASE f - BasesNow.funs \in DOMAIN m.funs BY <1>5, <2>2 DEF m
  <2> QED BY <1>4, <2>1, <2>2
<1>10. linked'.main.regs = RegistersIn(DOMAIN bases)'
  <2>1. RegistersIn(DOMAIN bases)' = RegistersIn(DOMAIN bases') BY DEF RegistersIn
  <2> QED BY <1>2, <1>4, <1>5, <2>1
<1>11. linked'.main.regs <= MaxIndex BY <1>4 DEF m
<1>12. TablesOK'
  <2>1. \A a \in DOMAIN bases' : PartOK(a)' BY <1>6 DEF PartOK
  <2> QED BY <1>4, <1>8, <1>9, <1>10, <1>11, <2>1 DEF TablesOK
<1>13. Homes' = Homes
  <2>1. \A a \in DOMAIN bases' : bases'[a].sources \in Nat /\ modules[a].sources \in Seq(STRING)
    <3> TAKE a \in DOMAIN bases'
    <3>1. a \in DOMAIN modules BY <1>1, <1>5
    <3> QED BY <1>1, <1>6, <3>1, ProductTypes DEF PartIn, Contexts
  <2>2. \A a, b \in DOMAIN bases' : a # b =>
            \/ bases'[a].sources + Len(modules[a].sources) <= bases'[b].sources
            \/ bases'[b].sources + Len(modules[b].sources) <= bases'[a].sources
    BY <1>8 DEF Apart
  <2>3. ASSUME NEW g \in DOMAIN linked.main.code
        PROVE  HomeAmong(bases', modules, linked.main.code[g]) = Homes[g]
    <3> DEFINE i == linked.main.code[g]
               h == Homes[g]
    <3>1. i.source \in Nat /\ h \in DOMAIN bases /\ i.source - bases[h].sources \in DOMAIN modules[h].sources
      BY Placed
    <3>2. h \in DOMAIN bases' /\ bases'[h] = bases[h] BY <1>5, <3>1
    <3> HIDE DEF i, h
    <3>3. HomeAmong(bases', modules, i) = h BY <2>1, <2>2, <3>1, <3>2, OneHome
    <3> QED BY <3>3 DEF i, h
  <2>4. Homes' = [g \in DOMAIN linked.main.code |-> HomeAmong(bases', modules, linked.main.code[g])]
    BY <1>4 DEF Homes
  <2> QED BY <2>3, <2>4 DEF Homes
<1> QED BY <1>2, <1>4, <1>5, <1>12, <1>13

\* The stack with the module on top.
LEMMA EntersStack ==
  ASSUME LinkerInv, verdict = "linking", NEW id, NEW below, BelowOK(id, below),
         id \notin expanded \cup Visiting, stack' = Append(below, Frame(id)),
         modules' = modules, expanded' = expanded
  PROVE  /\ StackOK' /\ Visiting' = Visiting \cup {id}
         /\ DOMAIN stack' = 1..Len(stack) + 1 /\ Len(stack) \in Nat /\ DOMAIN stack = 1..Len(stack)
         /\ stack'[Len(stack) + 1] = Frame(id)
         /\ \A k \in DOMAIN stack : stack'[k] = below[k]
<1>1. StackOK /\ id \in DOMAIN modules /\ modules[id] \in ModuleArtifacts /\ EnvelopeValid(modules[id])
  BY LinkingFacts DEF BelowOK
<1>2. /\ DOMAIN below = DOMAIN stack /\ DOMAIN stack = 1..Len(stack) /\ Len(stack) \in Nat
      /\ below \in Seq(Frames) /\ Len(below) = Len(stack)
  BY <1>1, BelowSame DEF BelowOK
<1>3. Frame(id) \in Frames
  <2>1. [x \in {} |-> 0] \in Maps BY DEF Maps
  <2>2. <<>> = [x \in {} |-> 0] OBVIOUS
  <2>3. id \in STRING
    <3>1. modules[id].id = id BY <1>1, LinkingFacts
    <3> QED BY <1>1, <3>1, ProductTypes
  <2> QED BY <2>1, <2>2, <2>3 DEF Frame, Frames
<1>4. /\ stack' \in Seq(Frames) /\ Len(stack') = Len(stack) + 1
      /\ stack'[Len(stack) + 1] = Frame(id)
      /\ \A k \in 1..Len(stack) : stack'[k] = below[k]
  BY <1>2, <1>3, AppendProperties
<1> DEFINE n == Len(stack)
<1>5. DOMAIN stack' = 1..n + 1 BY <1>4, LenProperties
<1>6. n \in Nat /\ DOMAIN stack = 1..n BY <1>2
<1> HIDE DEF n
<1>7. /\ \A k \in 1..n + 1 : k \in 1..n \/ k = n + 1
      /\ \A k \in 1..n : k \in 1..n + 1 /\ k < n + 1
      /\ n + 1 \in 1..n + 1 /\ ~ (n + 1 < n + 1)
  BY <1>6
<1>8. Len(stack') = n + 1 /\ stack'[n + 1] = Frame(id) /\ \A k \in 1..n : stack'[k] = below[k]
  BY <1>4 DEF n
<1>9. \A k \in 1..n : stack'[k].id = stack[k].id BY <1>6, <1>8 DEF BelowOK, SameFrame
<1>10. Visiting' = Visiting \cup {id}
  <2>1. Visiting' = {stack'[k].id : k \in 1..n + 1} BY <1>5 DEF Visiting
  <2>2. Visiting = {stack[k].id : k \in 1..n} BY <1>6 DEF Visiting
  <2>3. stack'[n + 1].id = id BY <1>8 DEF Frame
  <2> QED BY <1>7, <1>9, <2>1, <2>2, <2>3
<1>11. ASSUME NEW k \in 1..n PROVE FrameOK(k)'
  <2>1. FrameOK(k) BY <1>1, <1>6 DEF StackOK
  <2> DEFINE f == below[k]
             m == modules[f.id]
  <2>2. /\ SameFrame(f, stack[k])
        /\ f.dep \in 2..Len(m.deps) + 1
        /\ f.dep <= Len(m.deps) => f.local <= m.deps[f.dep].at
        /\ \A j \in 1..f.dep - 1 : /\ m.deps[j].at <= f.local
                                   /\ m.deps[j].module \in expanded \/ j = f.dep - 1
        /\ m.deps[f.dep - 1].module = IF k = n THEN id ELSE stack[k + 1].id
    BY <1>6 DEF BelowOK, n
  <2>3. f.id \in DOMAIN modules /\ f.local \in 1..Len(m.main.code) + 1
    BY <2>1, <2>2 DEF FrameOK, SameFrame
  <2>4. m.deps[f.dep - 1].module = stack'[k + 1].id
    <3>1. CASE k = n BY <1>8, <2>2, <3>1 DEF Frame
    <3>2. CASE k # n
      <4>1. k + 1 \in 1..n BY <1>6, <3>2
      <4> QED BY <1>9, <2>2, <3>2, <4>1
    <3> QED BY <3>1, <3>2
  <2>5. f.dep \in 1..Len(m.deps) + 1 /\ f.dep > 1 BY <2>2
  <2>6. k < Len(stack') /\ stack'[k] = f BY <1>7, <1>8
  <2> HIDE DEF f, m
  <2> QED BY <2>2, <2>3, <2>4, <2>5, <2>6 DEF FrameOK, f, m
<1>12. ASSUME NEW c, c = n + 1 PROVE FrameOK(c)'
  <2> DEFINE m == modules[id]
  <2>1. m.deps \in Seq([module : STRING, at : Nat]) /\ m.main.code \in Seq(ProductInstructions)
    BY <1>1, ProductTypes
  <2>2. Len(m.deps) \in Nat /\ DOMAIN m.deps = 1..Len(m.deps) /\ Len(m.main.code) \in Nat
    BY <2>1, LenProperties
  <2>3. 1 <= Len(m.deps) => 1 <= m.deps[1].at
    <3>1. \A d \in DOMAIN m.deps : m.deps[d].at \in 1..Len(m.main.code) + 1 BY <1>1 DEF EnvelopeValid
    <3>2. 1 <= Len(m.deps) => 1 \in DOMAIN m.deps BY <2>2
    <3> QED BY <2>2, <3>1, <3>2
  <2>4. 1 \in 1..Len(m.main.code) + 1 /\ 1 \in 1..Len(m.deps) + 1
    <3>1. \A l \in Nat : 1 \in 1..l + 1 OBVIOUS
    <3> QED BY <2>2, <3>1
  <2>5. \A d \in 1..1 - 1 : FALSE OBVIOUS
  <2> DEFINE f == stack'[c]
  <2>6. f.id = id /\ f.local = 1 /\ f.dep = 1 BY <1>8, <1>12 DEF Frame
  <2>7. ~ (c < Len(stack')) BY <1>7, <1>8, <1>12
  <2> HIDE DEF m, f
  <2> QED BY <1>1, <2>3, <2>4, <2>5, <2>6, <2>7 DEF FrameOK, m, f
<1>13. StackOK'
  <2>1. \A k \in 1..n + 1 : FrameOK(k)' BY <1>7, <1>11, <1>12
  <2>2. \A k \in 1..n : stack'[k].id # id BY <1>6, <1>9 DEF Visiting
  <2>3. \A j, k \in 1..n : stack'[j].id = stack'[k].id => j = k BY <1>1, <1>6, <1>9 DEF StackOK
  <2>4. stack'[n + 1].id = id BY <1>8 DEF Frame
  <2>5. \A j, k \in 1..n + 1 : stack'[j].id = stack'[k].id => j = k BY <1>7, <2>2, <2>3, <2>4
  <2>6. (Visiting \cap expanded = {})' BY <1>1, <1>10 DEF StackOK
  <2> QED BY <1>4, <1>5, <2>1, <2>5, <2>6 DEF StackOK
<1> QED BY <1>2, <1>4, <1>5, <1>10, <1>13 DEF n

\* A module that is entered is new, and what waits for it needs it.
LEMMA Enters ==
  ASSUME LinkerInv, verdict = "linking", NEW id, NEW below, BelowOK(id, below),
         id \notin expanded \cup Visiting,
         linked.main.regs + modules[id].main.regs <= MaxIndex,
         order' = Append(order, id), linked' = WithTables(modules[id]),
         bases' = Put(bases, id, BasesNow), stack' = Append(below, Frame(id)),
         UNCHANGED <<input, given, modules, expanded, verdict>>,
         entries' \in Seq(EntryIds), EntryIds \subseteq ToSet(entries') \cup DOMAIN bases \cup {id}
  PROVE  LinkerInv'
<1>1. GraphOK /\ CodeOK /\ DependenciesFirst BY LinkingFacts
<1>2. id \in DOMAIN modules /\ id \in Needed BY DEF BelowOK
<1>3. /\ TablesOK' /\ Homes' = Homes /\ linked'.main.code = linked.main.code
      /\ id \notin DOMAIN bases /\ DOMAIN bases' = DOMAIN bases \cup {id}
      /\ \A a \in DOMAIN bases : bases'[a] = bases[a]
  BY <1>2, EntersTables
<1>4. /\ StackOK' /\ Visiting' = Visiting \cup {id}
      /\ DOMAIN stack' = 1..Len(stack) + 1 /\ Len(stack) \in Nat /\ DOMAIN stack = 1..Len(stack)
      /\ stack'[Len(stack) + 1] = Frame(id)
      /\ \A k \in DOMAIN stack : stack'[k] = below[k]
  BY EntersStack
<1>5. \A k \in DOMAIN stack : SameFrame(stack'[k], stack[k]) /\ id \in NeededBy(Named(modules[stack[k].id]))
  BY <1>4 DEF BelowOK, SameFrame
<1> DEFINE n == Len(stack)
<1>6. /\ DOMAIN stack' = 1..n + 1 /\ DOMAIN stack = 1..n
      /\ stack'[n + 1].id = id /\ stack'[n + 1].local = 1
      /\ \A k \in 1..n + 1 : k \in 1..n \/ k = n + 1
      /\ \A j, k \in 1..n + 1 : j < k => j \in 1..n
  BY <1>4 DEF Frame
<1> HIDE DEF n
<1>7. GraphOK'
  <2>1. /\ order' \in Seq(STRING) /\ ToSet(order') = DOMAIN bases \cup {id} /\ IsInjective(order')
    BY <1>2, NewInOrder
  <2>2. ToSet(order)' = ToSet(order') /\ (IsInjective(order)' <=> IsInjective(order'))
        /\ ToSet(entries)' = ToSet(entries')
    BY DEF ToSet, IsInjective
  <2>3. Needed' = Needed /\ \A ids : NeededBy(ids)' = NeededBy(ids) BY InputKept
  <2>4. EntryIds' = EntryIds BY DEF EntryIds
  <2>5. \A j, k \in 1..n + 1 : j < k => stack'[k].id \in NeededBy(Named(modules[stack'[j].id]))
    <3> TAKE j, k \in 1..n + 1
    <3> HAVE j < k
    <3>1. j \in 1..n /\ stack'[j].id = stack[j].id BY <1>5, <1>6 DEF SameFrame
    <3>2. CASE k = n + 1 BY <1>5, <1>6, <3>1, <3>2
    <3>3. CASE k \in 1..n
      <4>1. stack'[k].id = stack[k].id BY <1>5, <1>6, <3>3 DEF SameFrame
      <4> QED BY <1>1, <1>6, <3>1, <3>3, <4>1 DEF GraphOK
    <3> QED BY <1>6, <3>2, <3>3
  <2>6. \A j, k \in DOMAIN stack' : j < k => stack'[k].id \in NeededBy(Named(modules[stack'[j].id]))
    BY <1>6, <2>5
  <2>7. DOMAIN bases' = Visiting' \cup expanded' BY <1>1, <1>3, <1>4 DEF GraphOK
  <2>8. DOMAIN bases' \subseteq Needed' BY <1>1, <1>2, <1>3, <2>3 DEF GraphOK
  <2>9. \A a \in expanded : Named(modules[a]) \subseteq expanded /\ a \notin NeededBy(Named(modules[a]))
    BY <1>1 DEF GraphOK
  <2>10. /\ entries' \in Seq(EntryIds)' /\ EntryIds' \subseteq ToSet(entries)' \cup DOMAIN bases'
    BY <1>3, <2>2, <2>4
  <2> QED BY <1>3, <2>1, <2>2, <2>3, <2>6, <2>7, <2>8, <2>9, <2>10 DEF GraphOK
<1>8. CodeOK'
  <2>1. \A k \in DOMAIN stack' :
            \/ stack'[k].local = 1 /\ stack'[k].id \notin DOMAIN bases
            \/ k \in DOMAIN stack /\ SameFrame(stack'[k], stack[k])
    BY <1>3, <1>5, <1>6
  <2>2. \A a \in DOMAIN bases : a \in DOMAIN bases' /\ bases'[a] = bases[a] BY <1>3
  <2> QED BY <1>1, <1>3, <2>1, <2>2, CodeStays
<1>9. DependenciesFirst' BY <1>1, <1>3, OrderStays
<1> QED BY <1>3, <1>4, <1>7, <1>8, <1>9, GoesOn

\* Whatever entering a module comes to, the invariant is kept.
LEMMA EnterModuleKeeps ==
  ASSUME LinkerInv, verdict = "linking", NEW id, NEW below, BelowOK(id, below),
         EnterModule(id, below), UNCHANGED <<input, given, modules, expanded>>,
         entries' \in Seq(EntryIds), EntryIds \subseteq ToSet(entries') \cup DOMAIN bases \cup {id}
  PROVE  LinkerInv'
<1>1. GraphOK /\ TablesOK /\ modules[id] \in ModuleArtifacts BY LinkingFacts DEF BelowOK
<1>2. CASE id \in expanded /\ stack' = below /\ UNCHANGED <<order, linked, bases, verdict>>
  <2>1. id \in DOMAIN bases BY <1>1, <1>2 DEF GraphOK
  <2>2. EntryIds \subseteq ToSet(entries') \cup DOMAIN bases BY <2>1
  <2> QED BY <1>2, <2>2, PassesOver
<1>3. CASE id \in Visiting /\ verdict' = "cycle" /\ stack' = below /\ UNCHANGED <<order, linked, bases>>
  BY <1>3, FindsCycle
<1>4. CASE /\ id \notin expanded \cup Visiting /\ order' = Append(order, id)
           /\ linked.main.regs + modules[id].main.regs > MaxIndex
           /\ verdict' = "overflow" /\ stack' = below /\ UNCHANGED <<linked, bases>>
  BY <1>4, Overflows
<1>5. CASE /\ id \notin expanded \cup Visiting /\ order' = Append(order, id)
           /\ ~ (linked.main.regs + modules[id].main.regs > MaxIndex)
           /\ linked' = WithTables(modules[id]) /\ bases' = Put(bases, id, BasesNow)
           /\ stack' = Append(below, Frame(id)) /\ UNCHANGED verdict
  <2>1. linked.main.regs \in Nat /\ modules[id].main.regs \in Nat
    BY <1>1, ProductTypes DEF TablesOK, Programs, Bodies
  <2>2. linked.main.regs + modules[id].main.regs <= MaxIndex BY <1>5, <2>1, MaxIndexAssumption
  <2> QED BY <1>5, <2>2, Enters
<1> QED BY <1>2, <1>3, <1>4, <1>5 DEF EnterModule

\* An entry module is needed, and nothing waits for it.
LEMMA EnterEntryKeeps ==
  ASSUME LinkerInv, EnterEntry
  PROVE  LinkerInv'
<1> DEFINE id == Head(entries)
<1>1. /\ verdict = "linking" /\ stack = <<>> /\ entries # <<>> /\ entries' = Tail(entries)
      /\ EnterModule(id, <<>>)
      /\ UNCHANGED <<input, given, modules, expanded>>
  BY DEF EnterEntry
<1>2. /\ input \in Links /\ ModulesOK(Len(input.products)) /\ GraphOK BY <1>1, LinkingFacts
<1>3. entries \in Seq(EntryIds) /\ EntryIds \subseteq ToSet(entries) \cup DOMAIN bases
  BY <1>2 DEF GraphOK
<1>4. id \in EntryIds BY <1>1, <1>3
<1>5. entries' \in Seq(EntryIds) BY <1>1, <1>3
<1>6. ToSet(entries) \subseteq ToSet(entries') \cup {id}
  <2>1. /\ Len(entries') = Len(entries) - 1 /\ \A k \in 1..Len(entries') : entries'[k] = entries[k + 1]
        /\ Len(entries) \in Nat
    BY <1>1, <1>3, HeadTailProperties
  <2>2. DOMAIN entries' = 1..Len(entries') /\ DOMAIN entries = 1..Len(entries) BY <1>3, <1>5
  <2>3. ASSUME NEW k \in 1..Len(entries) PROVE entries[k] \in ToSet(entries') \cup {id}
    <3>1. CASE k = 1 BY <3>1
    <3>2. CASE k # 1
      <4>1. k - 1 \in 1..Len(entries') /\ (k - 1) + 1 = k BY <2>1, <3>2
      <4>2. entries'[k - 1] = entries[k] BY <2>1, <4>1
      <4> QED BY <2>2, <4>1, <4>2 DEF ToSet
    <3> QED BY <3>1, <3>2
  <2> QED BY <2>2, <2>3 DEF ToSet
<1> DEFINE below == <<>>
<1>7. BelowOK(id, below)
  <2>1. id \in DOMAIN modules BY <1>4 DEF EntryIds
  <2>2. id \in Needed
    <3> DEFINE ids == {m.id : m \in {x \in Given : x.order # NotEntry}}
    <3>1. EntryIds = ids /\ EntryIds \subseteq Identities BY <1>2, EntryFacts
    <3>2. ids \subseteq NeededBy(ids) BY <3>1, NeededContains
    <3> QED BY <1>4, <3>1, <3>2 DEF Needed
  <2>3. below \in Seq(Frames) /\ Len(below) = Len(stack) /\ DOMAIN stack = {} BY <1>1
  <2> QED BY <2>1, <2>2, <2>3 DEF BelowOK
<1>8. EntryIds \subseteq ToSet(entries') \cup DOMAIN bases \cup {id} BY <1>3, <1>6
<1> HIDE DEF id
<1> QED BY <1>1, <1>5, <1>7, <1>8, EnterModuleKeeps

-----------------------------------------------------------------------------
(* The module on top of the stack.                                         *)

\* The first elements of a sequence.
LEMMA Prefix ==
  ASSUME NEW S, NEW s \in Seq(S), NEW n \in 0..Len(s)
  PROVE  /\ SubSeq(s, 1, n) \in Seq(S) /\ Len(SubSeq(s, 1, n)) = n
         /\ \A i \in 1..n : SubSeq(s, 1, n)[i] = s[i]
<1>1. n \in Int /\ n \in Nat /\ n <= Len(s) /\ Len(s) \in Nat BY LenProperties
<1>2. \A i \in 1..n : s[i] \in S BY <1>1, ElementOfSeq
<1>3. /\ SubSeq(s, 1, n) \in Seq(S)
      /\ Len(SubSeq(s, 1, n)) = IF 1 <= n THEN n - 1 + 1 ELSE 0
      /\ \A i \in 1..n - 1 + 1 : SubSeq(s, 1, n)[i] = s[1 + i - 1]
  BY <1>1, <1>2, SubSeqProperties
<1>4. n - 1 + 1 = n /\ (~ (1 <= n) => n = 0) /\ \A i \in 1..n : 1 + i - 1 = i BY <1>1
<1> QED BY <1>3, <1>4

\* A map with one more number.
LEMMA MapsPut ==
  ASSUME NEW f \in Maps, NEW x \in Nat, NEW v \in Nat
  PROVE  Put(f, x, v) \in Maps
<1>1. PICK S \in SUBSET Nat : f \in [S -> Nat] BY DEF Maps
<1>2. Put(f, x, v) \in [({x} \cup S) -> Nat] BY <1>1 DEF Put
<1>3. {x} \cup S \in SUBSET Nat BY <1>1
<1> HIDE DEF Maps
<1> QED BY <1>2, <1>3 DEF Maps

\* What a frame is made of.
LEMMA FrameFields ==
  ASSUME NEW f \in Frames
  PROVE  /\ f.id \in STRING /\ f.local \in Nat /\ f.dep \in Nat /\ f.globals \in Maps
         /\ f = [id |-> f.id, local |-> f.local, dep |-> f.dep, globals |-> f.globals]
<1> HIDE DEF Maps
<1> QED BY DEF Frames

\* A frame, one field of it changed.
LEMMA FrameDep ==
  ASSUME NEW f \in Frames, NEW d \in Nat, NEW e, e = [f EXCEPT !.dep = d]
  PROVE  e \in Frames /\ e.id = f.id /\ e.local = f.local /\ e.dep = d /\ e.globals = f.globals
<1>1. /\ f.id \in STRING /\ f.local \in Nat /\ f.dep \in Nat /\ f.globals \in Maps
      /\ f = [id |-> f.id, local |-> f.local, dep |-> f.dep, globals |-> f.globals]
  BY FrameFields
<1>2. e = [id |-> f.id, local |-> f.local, dep |-> d, globals |-> f.globals] BY <1>1
<1> QED BY <1>1, <1>2 DEF Frames

\* So for the places of its instructions.
LEMMA FrameGlobals ==
  ASSUME NEW f \in Frames, NEW m \in Maps, NEW e, e = [f EXCEPT !.globals = m]
  PROVE  e \in Frames /\ e.id = f.id /\ e.local = f.local /\ e.dep = f.dep /\ e.globals = m
<1>1. /\ f.id \in STRING /\ f.local \in Nat /\ f.dep \in Nat /\ f.globals \in Maps
      /\ f = [id |-> f.id, local |-> f.local, dep |-> f.dep, globals |-> f.globals]
  BY FrameFields
<1>2. e = [id |-> f.id, local |-> f.local, dep |-> f.dep, globals |-> m] BY <1>1
<1> QED BY <1>1, <1>2 DEF Frames

\* A frame that has passed a dependency stands where it stood.
LEMMA PassedFrame ==
  ASSUME NEW f \in Frames, MainLength \in Nat, \A l \in 1..f.local - 1 : l \in DOMAIN f.globals
  PROVE  Passed(f) \in Frames /\ SameFrame(Passed(f), f) /\ Passed(f).dep = f.dep
<1> DEFINE m == Put(f.globals, f.local, MainLength + 1)
<1>1. f.local \in Nat /\ f.globals \in Maps BY FrameFields
<1>2. m \in Maps BY <1>1, MapsPut
<1>3. /\ \A l \in DOMAIN f.globals : l \in DOMAIN m
      /\ \A l \in DOMAIN f.globals : l # f.local => m[l] = f.globals[l]
  BY DEF Put
<1>4. Passed(f) = [f EXCEPT !.globals = m] BY DEF Passed
<1> HIDE DEF m
<1>5. /\ Passed(f) \in Frames /\ Passed(f).id = f.id /\ Passed(f).local = f.local
      /\ Passed(f).dep = f.dep /\ Passed(f).globals = m
  BY <1>2, <1>4, FrameGlobals
<1>6. \A l \in 1..f.local - 1 : l # f.local BY <1>1
<1> QED BY <1>3, <1>5, <1>6 DEF SameFrame

\* The module on top: what it is and where it stands.
LEMMA TopFacts ==
  ASSUME LinkerInv, verdict = "linking", stack # <<>>
  PROVE  /\ Len(stack) \in Nat \ {0} /\ Len(stack) \in DOMAIN stack /\ DOMAIN stack = 1..Len(stack)
         /\ Top = stack[Len(stack)] /\ Top \in Frames /\ FrameOK(Len(stack)) /\ GlobalsOK(Len(stack))
         /\ Top.id \in DOMAIN bases /\ Top.id \in DOMAIN modules /\ Top.id \notin expanded
         /\ Unit \in ModuleArtifacts /\ Unit = Product1(Top.id) /\ Unit.id = Top.id
         /\ ProgramValid(Unit) /\ EnvelopeValid(Unit)
         /\ Top.local \in Nat /\ Top.dep \in Nat \ {0} /\ Top.globals \in Maps
         /\ Len(Unit.main.code) \in Nat /\ Len(Unit.deps) \in Nat
         /\ DOMAIN Unit.main.code = 1..Len(Unit.main.code) /\ DOMAIN Unit.deps = 1..Len(Unit.deps)
         /\ MainLength \in Nat
         /\ \A f \in Frames :
              /\ WithTop(f) \in Seq(Frames) /\ Len(WithTop(f)) = Len(stack)
              /\ DOMAIN WithTop(f) = DOMAIN stack
              /\ WithTop(f)[Len(stack)] = f
              /\ \A k \in 1..Len(stack) - 1 : WithTop(f)[k] = stack[k]
<1>1. StackOK /\ GraphOK /\ CodeOK BY LinkingFacts
<1>2. /\ stack \in Seq(Frames) /\ Len(stack) \in Nat /\ DOMAIN stack = 1..Len(stack)
      /\ Len(stack) # 0
  BY <1>1, LenProperties, EmptySeq DEF StackOK
<1>3. Len(stack) \in Nat \ {0} /\ Len(stack) \in 1..Len(stack) BY <1>2
<1>4. Top = stack[Len(stack)] BY DEF Top, Last
<1>5. Top \in Frames BY <1>2, <1>3, <1>4, ElementOfSeq
<1>6. FrameOK(Len(stack)) /\ GlobalsOK(Len(stack)) BY <1>1, <1>2, <1>3 DEF StackOK, CodeOK
<1>7. Top.id \in Visiting BY <1>2, <1>3, <1>4 DEF Visiting
<1>8. Top.id \in DOMAIN bases /\ Top.id \notin expanded BY <1>1, <1>7 DEF GraphOK, StackOK
<1>9. Top.id \in DOMAIN modules BY <1>4, <1>6 DEF FrameOK
<1>10. /\ Unit \in ModuleArtifacts /\ Unit = Product1(Top.id) /\ Unit.id = Top.id
       /\ ProgramValid(Unit) /\ EnvelopeValid(Unit)
  BY <1>9, LinkingFacts DEF Unit
<1>11. /\ Len(Unit.main.code) \in Nat /\ Len(Unit.deps) \in Nat
       /\ DOMAIN Unit.main.code = 1..Len(Unit.main.code) /\ DOMAIN Unit.deps = 1..Len(Unit.deps)
  BY <1>10, ProductTypes, LenProperties
<1>12. Top.local \in Nat /\ Top.dep \in Nat /\ Top.globals \in Maps BY <1>5, FrameFields
<1>13. Top.dep # 0
  <2>1. Top.dep \in 1..Len(Unit.deps) + 1 BY <1>4, <1>6 DEF FrameOK, Unit
  <2> QED BY <1>11, <2>1
<1>14. MainLength \in Nat BY CodeIsSequence DEF MainLength
<1>15. ASSUME NEW f \in Frames
       PROVE  /\ WithTop(f) \in Seq(Frames) /\ Len(WithTop(f)) = Len(stack)
              /\ DOMAIN WithTop(f) = DOMAIN stack
              /\ WithTop(f)[Len(stack)] = f
              /\ \A k \in 1..Len(stack) - 1 : WithTop(f)[k] = stack[k]
  <2> DEFINE n == Len(stack)
             s == SubSeq(stack, 1, n - 1)
  <2>1. n - 1 \in 0..Len(stack) /\ (n - 1) + 1 = n BY <1>3
  <2>2. s \in Seq(Frames) /\ Len(s) = n - 1 /\ \A k \in 1..n - 1 : s[k] = stack[k]
    BY <1>2, <2>1, Prefix
  <2>3. WithTop(f) = Append(s, f) BY DEF WithTop, Front
  <2> HIDE DEF s, n
  <2>4. /\ Append(s, f) \in Seq(Frames) /\ Len(Append(s, f)) = Len(s) + 1
        /\ \A k \in 1..Len(s) : Append(s, f)[k] = s[k] /\ Append(s, f)[Len(s) + 1] = f
    BY <2>2, AppendProperties
  <2>5. Append(s, f)[Len(s) + 1] = f BY <2>2, AppendProperties
  <2>6. Len(WithTop(f)) = n BY <2>1, <2>2, <2>3, <2>4
  <2>7. DOMAIN WithTop(f) = 1..n BY <2>3, <2>4, <2>6, LenProperties
  <2>8. WithTop(f)[n] = f BY <2>1, <2>2, <2>3, <2>5
  <2>9. \A k \in 1..n - 1 : WithTop(f)[k] = stack[k] BY <2>2, <2>3, <2>4
  <2>10. \A k \in 1..Len(stack) - 1 : WithTop(f)[k] = stack[k] BY <2>9 DEF n
  <2>11. WithTop(f)[Len(stack)] = f BY <2>8 DEF n
  <2>12. WithTop(f) \in Seq(Frames) BY <2>3, <2>4
  <2>13. Len(WithTop(f)) = Len(stack) /\ DOMAIN WithTop(f) = DOMAIN stack BY <1>2, <2>6, <2>7 DEF n
  <2> QED BY <2>10, <2>11, <2>12, <2>13
<1> QED BY <1>2, <1>3, <1>4, <1>5, <1>6, <1>8, <1>9, <1>10, <1>11, <1>12, <1>13, <1>14, <1>15

\* The dependency reached is needed by every module on the stack.
LEMMA ReachNeeds ==
  ASSUME LinkerInv, verdict = "linking", stack # <<>>, Top.dep <= Len(Unit.deps)
  PROVE  LET id == Unit.deps[Top.dep].module IN
         /\ Top.dep \in DOMAIN Unit.deps
         /\ id \in DOMAIN modules /\ id \in Needed
         /\ \A k \in DOMAIN stack : id \in NeededBy(Named(modules[stack[k].id]))
<1> DEFINE id == Unit.deps[Top.dep].module
           n == Len(stack)
<1>1. /\ n \in Nat \ {0} /\ n \in DOMAIN stack /\ DOMAIN stack = 1..n /\ Top = stack[n]
      /\ Top.id \in DOMAIN bases /\ Top.id \in DOMAIN modules
      /\ Unit = Product1(Top.id) /\ Top.dep \in Nat \ {0}
      /\ Len(Unit.deps) \in Nat /\ DOMAIN Unit.deps = 1..Len(Unit.deps)
  BY TopFacts
<1>2. /\ GraphOK /\ StackOK /\ WellFormed /\ DOMAIN modules = Identities
      /\ \A m \in Given : Named(m) \subseteq DOMAIN modules
      /\ \A a \in DOMAIN modules : modules[a] \in Given
  BY LinkingFacts
<1>3. Top.dep \in DOMAIN Unit.deps
  <2>1. \A d \in Nat \ {0}, l \in Nat : d <= l => d \in 1..l OBVIOUS
  <2> QED BY <1>1, <2>1
<1>4. id \in Named(Unit) BY <1>3 DEF Named
<1>5. Named(Unit) \subseteq DOMAIN modules BY <1>1, <1>2 DEF Unit
<1>6. \A m \in Given : Named(m) \subseteq Identities BY <1>2
<1>7. id \in Needed
  <2>1. Top.id \in Needed BY <1>1, <1>2 DEF GraphOK
  <2> QED BY <1>1, <1>4, <1>6, <2>1, NeededClosed DEF Needed
<1>8. Named(Unit) \subseteq NeededBy(Named(Unit)) BY <1>2, <1>5, NeededContains
<1>9. ASSUME NEW k \in DOMAIN stack PROVE id \in NeededBy(Named(modules[stack[k].id]))
  <2>1. CASE k = n BY <1>1, <1>4, <1>8, <2>1 DEF Unit
  <2>2. CASE k # n
    <3>1. k < n BY <1>1, <2>2
    <3>2. Top.id \in NeededBy(Named(modules[stack[k].id])) BY <1>1, <1>2, <3>1 DEF GraphOK
    <3> QED BY <1>1, <1>4, <1>6, <3>2, NeededClosed
  <2> QED BY <2>1, <2>2
<1> QED BY <1>3, <1>4, <1>5, <1>7, <1>9

\* The dependency reached is the one the top of the stack waits for.
LEMMA ReachBelow ==
  ASSUME LinkerInv, verdict = "linking", stack # <<>>, Top.local >= NextStop,
         Top.dep <= Len(Unit.deps)
  PROVE  BelowOK(Unit.deps[Top.dep].module, WithTop(Passed([Top EXCEPT !.dep = @ + 1])))
<1> DEFINE id == Unit.deps[Top.dep].module
           n == Len(stack)
           e == [Top EXCEPT !.dep = @ + 1]
           f == Passed(e)
           below == WithTop(f)
           d == Top.dep
           deps == Unit.deps
<1>1. /\ n \in Nat \ {0} /\ n \in DOMAIN stack /\ DOMAIN stack = 1..n
      /\ Top = stack[n] /\ Top \in Frames /\ FrameOK(n) /\ GlobalsOK(n)
      /\ EnvelopeValid(Unit) /\ MainLength \in Nat
      /\ Top.local \in Nat /\ d \in Nat \ {0}
      /\ Len(Unit.main.code) \in Nat /\ Len(deps) \in Nat /\ DOMAIN deps = 1..Len(deps)
      /\ Unit \in ModuleArtifacts
  BY TopFacts
<1>2. /\ d \in DOMAIN deps /\ id \in DOMAIN modules /\ id \in Needed
      /\ \A k \in DOMAIN stack : id \in NeededBy(Named(modules[stack[k].id]))
  BY ReachNeeds
<1>3. StackOK BY LinkingFacts
<1>4. e \in Frames /\ e.id = Top.id /\ e.local = Top.local /\ e.dep = d + 1 /\ e.globals = Top.globals
  <2>1. d + 1 \in Nat /\ e = [Top EXCEPT !.dep = d + 1] BY <1>1
  <2> HIDE DEF e, d
  <2> QED BY <1>1, <2>1, FrameDep
<1>5. \A l \in 1..Top.local - 1 : l \in DOMAIN Top.globals BY <1>1 DEF GlobalsOK
<1> HIDE DEF e
<1>6. f \in Frames /\ SameFrame(f, e) /\ f.dep = d + 1 BY <1>1, <1>4, <1>5, PassedFrame
<1>7. SameFrame(f, stack[n]) BY <1>1, <1>4, <1>6 DEF SameFrame
<1> HIDE DEF f
<1>8. /\ below \in Seq(Frames) /\ Len(below) = n /\ below[n] = f
      /\ \A k \in 1..n - 1 : below[k] = stack[k]
  BY <1>6, TopFacts
<1>9. /\ Top.local = deps[d].at
      /\ d + 1 <= Len(deps) => Top.local <= deps[d + 1].at
  <2>1. NextStop = deps[d].at BY DEF NextStop
  <2>2. Top.local <= deps[d].at BY <1>1 DEF FrameOK, Unit
  <2>3. \A c \in DOMAIN deps : deps[c].at \in Nat BY <1>1, ProductTypes
  <2>4. Top.local = deps[d].at BY <1>1, <1>2, <2>1, <2>2, <2>3
  <2>5. ASSUME d + 1 <= Len(deps) PROVE deps[d].at <= deps[d + 1].at
    <3>1. \A c, l \in Nat : c + 1 <= l => c + 1 \in 1..l OBVIOUS
    <3>2. d + 1 \in DOMAIN deps BY <1>1, <2>5, <3>1
    <3>3. \A c \in Nat \ {0} : c + 1 > 1 /\ (c + 1) - 1 = c OBVIOUS
    <3>4. d + 1 > 1 /\ (d + 1) - 1 = d BY <1>1, <3>3
    <3>5. \A c \in DOMAIN deps : c > 1 => deps[c - 1].at <= deps[c].at BY <1>1 DEF EnvelopeValid
    <3> HIDE DEF deps, d
    <3>6. deps[(d + 1) - 1].at <= deps[d + 1].at BY <3>2, <3>4, <3>5
    <3> QED BY <3>4, <3>6
  <2> QED BY <2>4, <2>5
<1>10. ASSUME NEW k \in DOMAIN stack
       PROVE  LET h == below[k]
                  m == modules[h.id]
              IN /\ SameFrame(h, stack[k])
                 /\ h.dep \in 2..Len(m.deps) + 1
                 /\ h.dep <= Len(m.deps) => h.local <= m.deps[h.dep].at
                 /\ \A j \in 1..h.dep - 1 : /\ m.deps[j].at <= h.local
                                            /\ m.deps[j].module \in expanded \/ j = h.dep - 1
                 /\ m.deps[h.dep - 1].module = IF k = Len(stack) THEN id ELSE stack[k + 1].id
                 /\ id \in NeededBy(Named(m))
  <2>1. CASE k = n
    <3>1. below[k] = f /\ f.id = Top.id /\ f.local = Top.local /\ modules[f.id] = Unit
      BY <1>1, <1>7, <1>8, <2>1 DEF SameFrame, Unit
    <3>2. \A c \in Nat \ {0}, l \in Nat : c \in 1..l => c + 1 \in 2..l + 1 /\ (c + 1) - 1 = c OBVIOUS
    <3>3. d + 1 \in 2..Len(deps) + 1 /\ (d + 1) - 1 = d BY <1>1, <1>2, <3>2
    <3>4. ASSUME NEW j \in 1..d
          PROVE  deps[j].at <= Top.local /\ (deps[j].module \in expanded \/ j = d)
      <4>1. CASE j = d
        <5>1. deps[d].at \in Nat BY <1>1, <1>2, ProductTypes
        <5> QED BY <1>9, <4>1, <5>1
      <4>2. CASE j # d
        <5>1. j \in 1..d - 1 BY <1>1, <4>2
        <5>2. ~ (n < n) BY <1>1
        <5> QED BY <1>1, <5>1, <5>2 DEF FrameOK, Unit
      <4> QED BY <4>1, <4>2
    <3>5. id \in NeededBy(Named(Unit)) BY <1>1, <1>2 DEF Unit
    <3> HIDE DEF below, id, d, deps
    <3>6. /\ f.dep \in 2..Len(deps) + 1 /\ f.dep - 1 = d
          /\ f.dep <= Len(deps) => f.local <= deps[f.dep].at
      BY <1>6, <1>9, <3>1, <3>3
    <3> QED BY <1>1, <1>7, <2>1, <3>1, <3>4, <3>5, <3>6 DEF deps, id, d
  <2>2. CASE k # n
    <3>1. k \in 1..n - 1 /\ k < n BY <1>1, <2>2
    <3>2. below[k] = stack[k] BY <1>8, <3>1
    <3>3. FrameOK(k) BY <1>3 DEF StackOK
    <3> DEFINE h == stack[k]
               m == modules[h.id]
    <3>4. h \in Frames BY <1>3 DEF StackOK
    <3>5. h.dep \in Nat BY <3>4, FrameFields
    <3>6. /\ h.dep \in 1..Len(m.deps) + 1 /\ h.dep > 1
          /\ h.dep <= Len(m.deps) => h.local <= m.deps[h.dep].at
          /\ \A j \in 1..h.dep - 1 : /\ m.deps[j].at <= h.local
                                     /\ m.deps[j].module \in expanded \/ j = h.dep - 1
          /\ m.deps[h.dep - 1].module = stack[k + 1].id
      BY <3>1, <3>3 DEF FrameOK
    <3>7. h.dep \in 2..Len(m.deps) + 1
      <4>1. \A c, l : c \in 1..l /\ c > 1 => c \in 2..l OBVIOUS
      <4> QED BY <3>6, <4>1
    <3>8. SameFrame(h, stack[k]) BY DEF SameFrame
    <3>9. id \in NeededBy(Named(m)) BY <1>2
    <3> HIDE DEF h, m, below, id
    <3> QED BY <2>2, <3>2, <3>6, <3>7, <3>8, <3>9 DEF h, m
  <2> QED BY <2>1, <2>2
<1> HIDE DEF id, below
<1>11. BelowOK(id, below) BY <1>2, <1>8, <1>10 DEF BelowOK
<1> QED BY <1>11 DEF id, below, f, e

\* A dependency is entered.
LEMMA ReachDependencyKeeps ==
  ASSUME LinkerInv, ReachDependency
  PROVE  LinkerInv'
<1> DEFINE id == Unit.deps[Top.dep].module
           below == WithTop(Passed([Top EXCEPT !.dep = @ + 1]))
<1>1. /\ verdict = "linking" /\ stack # <<>> /\ Top.local >= NextStop /\ Top.dep <= Len(Unit.deps)
      /\ EnterModule(id, below)
      /\ UNCHANGED <<input, given, modules, entries, expanded>>
  BY DEF ReachDependency
<1>2. BelowOK(id, below) BY <1>1, ReachBelow
<1>3. GraphOK BY <1>1, LinkingFacts
<1>4. entries' \in Seq(EntryIds) /\ EntryIds \subseteq ToSet(entries') \cup DOMAIN bases \cup {id}
  BY <1>1, <1>3 DEF GraphOK
<1> HIDE DEF id, below
<1> QED BY <1>1, <1>2, <1>4, EnterModuleKeeps

-----------------------------------------------------------------------------
(* An instruction is placed.                                               *)

\* Dependencies do not go back, over however many of them.
LEMMA DepsSorted ==
  ASSUME NEW m \in ModuleArtifacts, EnvelopeValid(m)
  PROVE  \A j, k \in DOMAIN m.deps : j <= k => m.deps[j].at <= m.deps[k].at
<1> DEFINE n == Len(m.deps)
           at(k) == m.deps[k].at
           P == {d \in Nat : \A j, k \in 1..n : k = j + d => at(j) <= at(k)}
<1>1. /\ n \in Nat /\ DOMAIN m.deps = 1..n /\ \A k \in 1..n : at(k) \in Nat
  <2>1. m.deps \in Seq([module : STRING, at : Nat]) BY ProductTypes
  <2>2. n \in Nat /\ DOMAIN m.deps = 1..n BY <2>1, LenProperties
  <2>3. \A k \in DOMAIN m.deps : m.deps[k].at \in Nat BY ProductTypes
  <2> QED BY <2>2, <2>3
<1>2. \A k \in 1..n : k > 1 => at(k - 1) <= at(k) BY <1>1 DEF EnvelopeValid
<1> HIDE DEF n, at
<1>3. 0 \in P BY <1>1
<1>4. ASSUME NEW d \in Nat, d \in P PROVE d + 1 \in P
  <2>1. SUFFICES ASSUME NEW j \in 1..n, NEW k \in 1..n, k = j + (d + 1) PROVE at(j) <= at(k)
    OBVIOUS
  <2>2. k - 1 \in 1..n /\ k > 1 /\ k - 1 = j + d BY <1>1, <2>1
  <2>3. at(j) <= at(k - 1) BY <1>4, <2>1, <2>2
  <2>4. at(k - 1) <= at(k) BY <1>2, <2>1, <2>2
  <2> QED BY <1>1, <2>1, <2>2, <2>3, <2>4
<1>5. Nat \subseteq P
  <2> HIDE DEF P
  <2> QED BY <1>3, <1>4, NatSetInduction
<1>6. ASSUME NEW j \in 1..n, NEW k \in 1..n, j <= k PROVE at(j) <= at(k)
  <2>1. k - j \in Nat /\ k = j + (k - j) BY <1>1, <1>6
  <2>2. k - j \in P BY <1>5, <2>1
  <2> QED BY <1>6, <2>1, <2>2
<1> QED BY <1>1, <1>6 DEF at

\* The instruction that is placed, as it stands in the program.
Emitted1 == [Unit.main.code[Top.local] EXCEPT !.source = @ + bases[Top.id].sources]

\* Where the instruction comes from, and that what stands before it is as
\* it should.
LEMMA EmitFacts ==
  ASSUME LinkerInv, verdict = "linking", stack # <<>>, Top.local < NextStop
  PROVE  LET i == Unit.main.code[Top.local] IN
         /\ Top.local \in DOMAIN Unit.main.code
         /\ Top.dep <= Len(Unit.deps) => Top.local + 1 <= Unit.deps[Top.dep].at
         /\ \A k \in DOMAIN Unit.deps : Unit.deps[k].at <= Top.local => Unit.deps[k].module \in expanded
         /\ Emitted1 \in ProductInstructions
         /\ Emitted1.line = Top.local /\ Emitted1.source = i.source + bases[Top.id].sources
         /\ Emitted1.source \in Nat
         /\ Emitted1.source - bases[Top.id].sources \in DOMAIN Unit.sources
<1> DEFINE i == Unit.main.code[Top.local]
           d == Top.dep
           deps == Unit.deps
           n == Len(stack)
           b == bases[Top.id].sources
<1>1. /\ n \in Nat \ {0} /\ Top = stack[n] /\ FrameOK(n)
      /\ Top.id \in DOMAIN bases /\ Top.id \in DOMAIN modules
      /\ Unit \in ModuleArtifacts /\ EnvelopeValid(Unit) /\ ProgramValid(Unit)
      /\ Top.local \in Nat /\ d \in Nat \ {0}
      /\ Len(Unit.main.code) \in Nat /\ Len(deps) \in Nat
      /\ DOMAIN Unit.main.code = 1..Len(Unit.main.code) /\ DOMAIN deps = 1..Len(deps)
  BY TopFacts
<1>2. TablesOK /\ \A k \in DOMAIN modules[Top.id].main.code : modules[Top.id].main.code[k].line = k
  BY <1>1, LinkingFacts
<1>3. \A c \in DOMAIN deps : deps[c].at \in 1..Len(Unit.main.code) + 1 BY <1>1 DEF EnvelopeValid
<1>4. d <= Len(deps) => d \in DOMAIN deps
  <2>1. \A c \in Nat \ {0}, l \in Nat : c <= l => c \in 1..l OBVIOUS
  <2> QED BY <1>1, <2>1
<1>5. /\ Top.local >= 1
      /\ \A j \in 1..d - 1 : /\ deps[j].at <= Top.local
                             /\ deps[j].module \in expanded \/ (j = d - 1 /\ n < n)
  BY <1>1 DEF FrameOK, Unit
<1>6. /\ d <= Len(deps) => NextStop = deps[d].at
      /\ ~ (d <= Len(deps)) => NextStop = Len(Unit.main.code) + 1
  BY DEF NextStop
<1>7. Top.local \in DOMAIN Unit.main.code
  <2>1. \A l, c \in Nat : \A s : l >= 1 /\ l < s /\ s \in 1..c + 1 => l \in 1..c OBVIOUS
  <2>2. \A c \in Nat : c + 1 \in 1..c + 1 OBVIOUS
  <2>3. NextStop \in 1..Len(Unit.main.code) + 1 BY <1>1, <1>3, <1>4, <1>6, <2>2
  <2> QED BY <1>1, <1>5, <2>1, <2>3
<1>8. d <= Len(deps) => Top.local + 1 <= deps[d].at
  <2>1. SUFFICES ASSUME d <= Len(deps) PROVE Top.local + 1 <= deps[d].at OBVIOUS
  <2>2. deps[d].at \in Nat BY <1>1, <1>4, <2>1, ProductTypes
  <2> QED BY <1>1, <1>6, <2>1, <2>2
<1>9. ASSUME NEW k \in DOMAIN deps, deps[k].at <= Top.local PROVE deps[k].module \in expanded
  <2>1. deps[k].at \in Nat BY <1>1, ProductTypes
  <2>2. k < d
    <3>1. SUFFICES ASSUME d <= k PROVE FALSE BY <1>1
    <3>2. d <= Len(deps) BY <1>1, <3>1
    <3>3. deps[d].at <= deps[k].at BY <1>1, <1>4, <3>1, <3>2, DepsSorted
    <3>4. deps[d].at \in Nat BY <1>1, <1>4, <3>2, ProductTypes
    <3>5. \A a, c, l \in Nat : ~ (l + 1 <= a /\ a <= c /\ c <= l) OBVIOUS
    <3> QED BY <1>1, <1>8, <1>9, <2>1, <3>2, <3>3, <3>4, <3>5
  <2>3. k \in 1..d - 1 BY <1>1, <2>2
  <2>4. ~ (n < n) BY <1>1
  <2> QED BY <1>5, <2>3, <2>4
<1>10. i \in ProductInstructions /\ i.line = Top.local /\ i.source \in DOMAIN Unit.sources
  <2>1. Unit.main.code \in Seq(ProductInstructions) BY <1>1, ProductTypes
  <2>2. i \in ProductInstructions BY <1>7, <2>1
  <2>3. BodyValid(Unit.main, Unit) BY <1>1 DEF ProgramValid
  <2>4. i.source \in DOMAIN Unit.sources BY <1>7, <2>3 DEF BodyValid
  <2> QED BY <1>2, <1>7, <2>2, <2>4 DEF Unit
<1>11. b \in Nat BY <1>1, <1>2 DEF TablesOK, PartOK, PartIn, Contexts
<1>12. Emitted1 = [i EXCEPT !.source = @ + b] BY DEF Emitted1
<1> HIDE DEF i, b, d, deps, n
<1>13. /\ i.op \in STRING /\ i.dest \in Nat /\ i.args \in Seq(Nat) /\ i.at \in Nat
      /\ i.imm \in Values /\ i.const \in Nat /\ i.name \in Nat /\ i.fun \in Nat
      /\ i.source \in Nat /\ i.line \in Nat
      /\ i = [op |-> i.op, dest |-> i.dest, args |-> i.args, at |-> i.at, imm |-> i.imm,
              const |-> i.const, name |-> i.name, fun |-> i.fun, source |-> i.source,
              line |-> i.line]
  BY <1>10, InstructionTypes
<1>14. i.source + b \in Nat /\ (i.source + b) - b = i.source BY <1>11, <1>13
<1>15. Emitted1 \in ProductInstructions /\ Emitted1.line = i.line /\ Emitted1.source = i.source + b
  <2> DEFINE s == i.source + b
  <2>1. Emitted1 = [i EXCEPT !.source = s] BY <1>12, <1>13
  <2>2. s \in Nat BY <1>14
  <2> HIDE DEF s
  <2>3. Emitted1 = [op |-> i.op, dest |-> i.dest, args |-> i.args, at |-> i.at, imm |-> i.imm,
                    const |-> i.const, name |-> i.name, fun |-> i.fun, source |-> s,
                    line |-> i.line]
    BY <1>13, <2>1
  <2>4. Emitted1 \in ProductInstructions BY <1>13, <2>2, <2>3 DEF ProductInstructions
  <2> QED BY <2>3, <2>4 DEF s
<1>16. Emitted1.source \in Nat /\ Emitted1.source - b \in DOMAIN Unit.sources BY <1>10, <1>14, <1>15
<1> QED BY <1>7, <1>8, <1>9, <1>10, <1>15, <1>16 DEF i, b, d, deps

\* The tables do not depend on the main stream.
LEMMA CodeReplaced ==
  ASSUME TablesOK, NEW code \in Seq(ProductInstructions), linked' = [linked EXCEPT !.main.code = code],
         input' = input, modules' = modules, bases' = bases
  PROVE  /\ TablesOK' /\ linked'.main.code = code
         /\ Homes' = [g \in DOMAIN code |-> HomeAmong(bases, modules, code[g])]
<1> DEFINE p == linked
           q == linked'
<1>1. /\ p.consts \in Seq(Values) /\ p.names \in Seq(STRING) /\ p.sources \in Seq(STRING)
      /\ p.funs \in Seq(Bodies) /\ p.main.regs \in Nat
      /\ p = [consts |-> p.consts, names |-> p.names, sources |-> p.sources, funs |-> p.funs,
              main |-> p.main]
      /\ p.main = [code |-> p.main.code, regs |-> p.main.regs]
  BY DEF TablesOK, Programs, Bodies
<1>2. q = [p EXCEPT !.main.code = code] OBVIOUS
<1> HIDE DEF p, q
<1>3. q.main = [code |-> code, regs |-> p.main.regs]
  <2>1. q.main = [p.main EXCEPT !.code = code] BY <1>1, <1>2
  <2> QED BY <1>1, <2>1
<1>4. /\ q.consts = p.consts /\ q.names = p.names /\ q.sources = p.sources /\ q.funs = p.funs
      /\ q.main.code = code /\ q.main.regs = p.main.regs
  BY <1>1, <1>2, <1>3
<1>5. q \in Programs
  <2>1. q.main \in Bodies BY <1>1, <1>3 DEF Bodies
  <2>2. q = [consts |-> p.consts, names |-> p.names, sources |-> p.sources, funs |-> p.funs,
             main |-> q.main]
    BY <1>1, <1>2
  <2> QED BY <1>1, <2>1, <2>2 DEF Programs
<1>6. TablesOK'
  <2>1. \A m, b : PartIn(q, m, b) <=> PartIn(p, m, b) BY <1>4 DEF PartIn
  <2>2. \A a \in DOMAIN bases : PartOK(a)' <=> PartOK(a) BY <2>1 DEF PartOK, p, q
  <2>3. \A a, b : Apart(a, b)' <=> Apart(a, b) BY DEF Apart
  <2>4. RegistersIn(DOMAIN bases)' = RegistersIn(DOMAIN bases) BY DEF RegistersIn
  <2>5. \A f \in DOMAIN q.funs : \E id \in DOMAIN bases : f - bases[id].funs \in DOMAIN modules[id].funs
    BY <1>4 DEF TablesOK, p
  <2>6. q.main.regs = RegistersIn(DOMAIN bases) /\ q.main.regs <= MaxIndex
    BY <1>4 DEF TablesOK, p
  <2> QED BY <1>5, <2>2, <2>3, <2>4, <2>5, <2>6 DEF TablesOK, q
<1>7. linked'.main.code = code BY <1>4 DEF q
<1> QED BY <1>6, <1>7 DEF Homes

\* The tables are the same, and the instruction is at home in the module on
\* top of the stack.
LEMMA EmitsTables ==
  ASSUME LinkerInv, EmitInstruction
  PROVE  /\ TablesOK'
         /\ linked'.main.code = Append(linked.main.code, Emitted1)
         /\ DOMAIN linked'.main.code = 1..MainLength + 1
         /\ DOMAIN linked.main.code = 1..MainLength /\ MainLength \in Nat
         /\ linked'.main.code[MainLength + 1] = Emitted1 /\ Homes'[MainLength + 1] = Top.id
         /\ \A g \in 1..MainLength : linked'.main.code[g] = linked.main.code[g] /\ Homes'[g] = Homes[g]
<1> DEFINE code == Append(linked.main.code, Emitted1)
<1>1. /\ verdict = "linking" /\ stack # <<>> /\ Top.local < NextStop
      /\ linked' = [linked EXCEPT !.main.code = code]
      /\ input' = input /\ modules' = modules /\ bases' = bases
  BY DEF EmitInstruction, Emitted1
<1>2. /\ Emitted1 \in ProductInstructions /\ Emitted1.source \in Nat
      /\ Emitted1.source - bases[Top.id].sources \in DOMAIN modules[Top.id].sources
  BY <1>1, EmitFacts DEF Unit
<1>3. TablesOK /\ Top.id \in DOMAIN bases BY <1>1, LinkingFacts, TopFacts
<1>4. /\ linked.main.code \in Seq(ProductInstructions) /\ MainLength \in Nat
      /\ DOMAIN linked.main.code = 1..MainLength
  BY <1>1, CodeIsSequence DEF MainLength
<1>5. /\ code \in Seq(ProductInstructions) /\ Len(code) = MainLength + 1
      /\ code[MainLength + 1] = Emitted1 /\ \A g \in 1..MainLength : code[g] = linked.main.code[g]
  BY <1>2, <1>4, AppendProperties DEF MainLength
<1> HIDE DEF code
<1>6. /\ TablesOK' /\ linked'.main.code = code
      /\ Homes' = [g \in DOMAIN code |-> HomeAmong(bases, modules, code[g])]
  BY <1>1, <1>3, <1>5, CodeReplaced
<1>7. DOMAIN code = 1..MainLength + 1 BY <1>5, LenProperties
<1>8. HomeAmong(bases, modules, Emitted1) = Top.id BY <1>1, <1>2, <1>3, HomeOf
<1>9. MainLength + 1 \in 1..MainLength + 1 /\ \A g \in 1..MainLength : g \in 1..MainLength + 1
  BY <1>4
<1>10. Homes'[MainLength + 1] = Top.id BY <1>5, <1>6, <1>7, <1>8, <1>9
<1>11. \A g \in 1..MainLength : Homes'[g] = Homes[g] BY <1>4, <1>5, <1>6, <1>7, <1>9 DEF Homes
<1> QED BY <1>4, <1>5, <1>6, <1>7, <1>10, <1>11 DEF code

\* The module on top of the stack has moved on by an instruction.
LEMMA EmitsStack ==
  ASSUME LinkerInv, EmitInstruction
  PROVE  /\ DOMAIN stack' = DOMAIN stack /\ Len(stack') = Len(stack) /\ stack' \in Seq(Frames)
         /\ \A k \in 1..Len(stack) - 1 : stack'[k] = stack[k]
         /\ LET f == stack'[Len(stack)] IN
            /\ f.id = Top.id /\ f.local = Top.local + 1 /\ f.dep = Top.dep
            /\ f.globals = Put(Top.globals, Top.local, MainLength + 1)
         /\ \A k \in DOMAIN stack : k \in 1..Len(stack) - 1 \/ k = Len(stack)
         /\ \A k \in DOMAIN stack : stack'[k].id = stack[k].id
<1> DEFINE m == Put(Top.globals, Top.local, MainLength + 1)
           l == Top.local + 1
           e == [Top EXCEPT !.local = l, !.globals = m]
           n == Len(stack)
<1>1. verdict = "linking" /\ stack # <<>> BY DEF EmitInstruction
<1>2. /\ Top \in Frames /\ Top.local \in Nat /\ Top.globals \in Maps /\ MainLength \in Nat
      /\ n \in Nat \ {0} /\ DOMAIN stack = 1..n /\ Top = stack[n]
  BY <1>1, TopFacts
<1>3. l \in Nat /\ m \in Maps BY <1>2, MapsPut
<1>4. stack' = WithTop(e) BY DEF EmitInstruction
<1> HIDE DEF l, m, e
<1>5. e \in Frames /\ e.id = Top.id /\ e.local = l /\ e.dep = Top.dep /\ e.globals = m
  <2>1. /\ Top.id \in STRING /\ Top.dep \in Nat
        /\ Top = [id |-> Top.id, local |-> Top.local, dep |-> Top.dep, globals |-> Top.globals]
    BY <1>2, FrameFields
  <2> DEFINE t == Top
  <2> HIDE DEF t
  <2>2. t = [id |-> t.id, local |-> t.local, dep |-> t.dep, globals |-> t.globals] BY <2>1 DEF t
  <2> DEFINE u == [t EXCEPT !.local = l]
  <2>3. u = [id |-> t.id, local |-> l, dep |-> t.dep, globals |-> t.globals] BY <2>2
  <2>4. e = [u EXCEPT !.globals = m] BY DEF e, t
  <2> HIDE DEF u
  <2>5. [u EXCEPT !.globals = m] = [id |-> t.id, local |-> l, dep |-> t.dep, globals |-> m] BY <2>3
  <2>6. e = [id |-> t.id, local |-> l, dep |-> t.dep, globals |-> m] BY <2>4, <2>5
  <2>7. e \in Frames BY <1>3, <2>1, <2>6 DEF Frames, t
  <2> QED BY <2>6, <2>7 DEF t
<1>6. /\ WithTop(e) \in Seq(Frames) /\ Len(WithTop(e)) = n
      /\ DOMAIN WithTop(e) = DOMAIN stack
      /\ WithTop(e)[n] = e
      /\ \A k \in 1..n - 1 : WithTop(e)[k] = stack[k]
  BY <1>1, <1>5, TopFacts
<1> HIDE DEF n
<1>7. \A k \in 1..n : k \in 1..n - 1 \/ k = n BY <1>2
<1>8. \A k \in 1..n : stack'[k].id = stack[k].id BY <1>2, <1>4, <1>5, <1>6, <1>7
<1>9. /\ DOMAIN stack' = DOMAIN stack /\ Len(stack') = Len(stack) /\ stack' \in Seq(Frames)
      /\ \A k \in 1..Len(stack) - 1 : stack'[k] = stack[k]
  BY <1>4, <1>6 DEF n
<1>10. LET f == stack'[Len(stack)] IN
       f.id = Top.id /\ f.local = l /\ f.dep = Top.dep /\ f.globals = m
  BY <1>4, <1>5, <1>6 DEF n
<1>11. \A k \in DOMAIN stack : k \in 1..Len(stack) - 1 \/ k = Len(stack)
  <2>1. \A k \in DOMAIN stack : k \in 1..n - 1 \/ k = n BY <1>2, <1>7
  <2> QED BY <2>1 DEF n
<1>12. \A k \in DOMAIN stack : stack'[k].id = stack[k].id BY <1>2, <1>8
<1> QED BY <1>9, <1>10, <1>11, <1>12 DEF m, l

\* What the instruction leaves of the stack, and of what has been reached.
LEMMA EmitsGraph ==
  ASSUME LinkerInv, EmitInstruction
  PROVE  StackOK' /\ GraphOK'
<1> DEFINE n == Len(stack)
<1>1. /\ verdict = "linking" /\ stack # <<>> /\ Top.local < NextStop
      /\ UNCHANGED <<input, given, modules, entries, expanded, order, bases, verdict>>
  BY DEF EmitInstruction
<1>2. StackOK /\ GraphOK BY <1>1, LinkingFacts
<1>3. /\ n \in Nat \ {0} /\ n \in DOMAIN stack /\ DOMAIN stack = 1..n /\ Top = stack[n] /\ FrameOK(n)
      /\ Top.local \in Nat /\ Len(Unit.main.code) \in Nat
      /\ DOMAIN Unit.main.code = 1..Len(Unit.main.code)
      /\ Unit \in ModuleArtifacts /\ DOMAIN Unit.deps = 1..Len(Unit.deps) /\ Len(Unit.deps) \in Nat
  BY <1>1, TopFacts
<1>4. /\ Top.local \in DOMAIN Unit.main.code
      /\ Top.dep <= Len(Unit.deps) => Top.local + 1 <= Unit.deps[Top.dep].at
  BY <1>1, EmitFacts
<1>5. /\ DOMAIN stack' = DOMAIN stack /\ Len(stack') = n /\ stack' \in Seq(Frames)
      /\ \A k \in 1..n - 1 : stack'[k] = stack[k]
      /\ stack'[n].id = Top.id /\ stack'[n].local = Top.local + 1 /\ stack'[n].dep = Top.dep
      /\ \A k \in DOMAIN stack : k \in 1..n - 1 \/ k = n
      /\ \A k \in DOMAIN stack : stack'[k].id = stack[k].id
  BY EmitsStack
<1> HIDE DEF n
<1>6. Visiting' = Visiting BY <1>5 DEF Visiting
<1>7. ASSUME NEW k \in DOMAIN stack PROVE FrameOK(k)'
  <2>1. FrameOK(k) BY <1>2 DEF StackOK
  <2>2. k < Len(stack') <=> k < Len(stack) BY <1>5 DEF n
  <2>3. k < n => k + 1 \in DOMAIN stack BY <1>3
  <2>4. k < Len(stack) => stack'[k + 1].id = stack[k + 1].id BY <1>5, <2>3 DEF n
  <2>5. CASE k \in 1..n - 1 BY <1>1, <1>5, <2>1, <2>2, <2>4, <2>5 DEF FrameOK
  <2>6. CASE k = n
    <3> DEFINE f == stack'[k]
    <3>1. f.id = Top.id /\ f.local = Top.local + 1 /\ f.dep = Top.dep BY <1>5, <2>6
    <3>2. /\ Top.id \in DOMAIN modules /\ Top.dep \in 1..Len(Unit.deps) + 1
          /\ \A j \in 1..Top.dep - 1 :
                Unit.deps[j].at <= Top.local /\ Unit.deps[j].module \in expanded
      <4>1. ~ (n < Len(stack)) BY <1>3 DEF n
      <4> QED BY <1>3, <4>1 DEF FrameOK, Unit
    <3>3. Top.local + 1 \in 1..Len(Unit.main.code) + 1
      <4>1. \A c, l \in Nat : l \in 1..c => l + 1 \in 1..c + 1 OBVIOUS
      <4> QED BY <1>3, <1>4, <4>1
    <3>4. \A j \in 1..Top.dep - 1 : Unit.deps[j].at <= Top.local + 1
      <4> TAKE j \in 1..Top.dep - 1
      <4>1. j \in DOMAIN Unit.deps
        <5>1. \A c \in Nat : \A d \in 1..c + 1 : \A i \in 1..d - 1 : i \in 1..c OBVIOUS
        <5> QED BY <1>3, <3>2, <5>1
      <4>2. Unit.deps[j].at \in Nat BY <1>3, <4>1, ProductTypes
      <4>3. \A a, l \in Nat : a <= l => a <= l + 1 OBVIOUS
      <4> QED BY <1>3, <3>2, <4>2, <4>3
    <3>5. ~ (k < Len(stack')) BY <1>3, <1>5, <2>6
    <3>6. modules'[f.id] = Unit /\ modules' = modules /\ expanded' = expanded BY <1>1, <3>1 DEF Unit
    <3> HIDE DEF f
    <3> QED BY <1>4, <3>1, <3>2, <3>3, <3>4, <3>5, <3>6 DEF FrameOK, f
  <2> QED BY <1>5, <2>5, <2>6
<1>8. StackOK'
  <2>1. \A j, k \in DOMAIN stack' : stack'[j].id = stack'[k].id => j = k BY <1>2, <1>5 DEF StackOK
  <2>2. (Visiting \cap expanded = {})' BY <1>1, <1>2, <1>6 DEF StackOK
  <2>3. \A k \in DOMAIN stack' : FrameOK(k)' BY <1>5, <1>7
  <2> QED BY <1>5, <2>1, <2>2, <2>3 DEF StackOK
<1>9. GraphOK'
  <2>1. Needed' = Needed /\ (\A ids : NeededBy(ids)' = NeededBy(ids)) BY <1>1, InputKept
  <2>2. EntryIds' = EntryIds BY <1>1 DEF EntryIds
  <2>3. ToSet(order)' = ToSet(order) /\ (IsInjective(order)' <=> IsInjective(order))
        /\ ToSet(entries)' = ToSet(entries)
    BY <1>1 DEF ToSet, IsInjective
  <2> QED BY <1>1, <1>2, <1>5, <1>6, <2>1, <2>2, <2>3 DEF GraphOK
<1> QED BY <1>8, <1>9

\* What comes later does not matter.
LEMMA StandsInOrderKept ==
  ASSUME NEW code, NEW homes, NEW products, NEW g, StandsInOrder(code, homes, products, g),
         NEW more, NEW others, more[g].line = code[g].line, others[g] = homes[g],
         \A h \in 1..g - 1 : more[h].line = code[h].line /\ others[h] = homes[h]
  PROVE  StandsInOrder(more, others, products, g)
<1> DEFINE m == products[homes[g]]
           line == code[g].line
<1>1. /\ line \in DOMAIN m.main.code
      /\ \A h \in 1..g - 1 : homes[h] = homes[g] => code[h].line < line
      /\ \A k \in DOMAIN m.deps : m.deps[k].at <= line =>
           \A l \in DOMAIN products[m.deps[k].module].main.code :
              \E h \in 1..g - 1 : homes[h] = m.deps[k].module /\ code[h].line = l
  BY DEF StandsInOrder
<1>2. products[others[g]] = m /\ more[g].line = line OBVIOUS
<1>3. \A h \in 1..g - 1 : others[h] = others[g] => more[h].line < line BY <1>1
<1> HIDE DEF m, line
<1>4. ASSUME NEW k \in DOMAIN m.deps, m.deps[k].at <= line,
             NEW l \in DOMAIN products[m.deps[k].module].main.code
      PROVE  \E h \in 1..g - 1 : others[h] = m.deps[k].module /\ more[h].line = l
  <2>1. PICK h \in 1..g - 1 : homes[h] = m.deps[k].module /\ code[h].line = l BY <1>1, <1>4
  <2> QED BY <2>1
<1> QED BY <1>1, <1>2, <1>3, <1>4 DEF StandsInOrder

\* The instruction stands where it belongs, behind all it follows.
LEMMA EmitsCode ==
  ASSUME LinkerInv, EmitInstruction
  PROVE  CodeOK' /\ DependenciesFirst'
<1> DEFINE n == Len(stack)
           last == MainLength + 1
           code == linked.main.code
<1>1. /\ verdict = "linking" /\ stack # <<>> /\ Top.local < NextStop
      /\ modules' = modules /\ expanded' = expanded /\ bases' = bases
  BY DEF EmitInstruction
<1>2. StackOK /\ CodeOK /\ DependenciesFirst BY <1>1, LinkingFacts
<1>3. /\ n \in Nat \ {0} /\ n \in DOMAIN stack /\ DOMAIN stack = 1..n /\ Top = stack[n]
      /\ Top.local \in Nat /\ Top.id \in DOMAIN bases /\ Top.id \notin expanded /\ GlobalsOK(n)
  BY <1>1, TopFacts
<1>4. /\ Top.local \in DOMAIN Unit.main.code
      /\ \A k \in DOMAIN Unit.deps : Unit.deps[k].at <= Top.local => Unit.deps[k].module \in expanded
      /\ Emitted1.line = Top.local
      /\ Emitted1.source = Unit.main.code[Top.local].source + bases[Top.id].sources
  BY <1>1, EmitFacts
<1>5. /\ DOMAIN stack' = DOMAIN stack
      /\ \A k \in 1..n - 1 : stack'[k] = stack[k]
      /\ stack'[n].id = Top.id /\ stack'[n].local = Top.local + 1
      /\ stack'[n].globals = Put(Top.globals, Top.local, last)
      /\ \A k \in DOMAIN stack : k \in 1..n - 1 \/ k = n
      /\ \A k \in DOMAIN stack : stack'[k].id = stack[k].id
  BY EmitsStack
<1>6. /\ DOMAIN linked'.main.code = 1..last
      /\ DOMAIN code = 1..MainLength /\ MainLength \in Nat
      /\ linked'.main.code[last] = Emitted1 /\ Homes'[last] = Top.id
      /\ \A g \in 1..MainLength : linked'.main.code[g] = code[g] /\ Homes'[g] = Homes[g]
      /\ Len(linked'.main.code) = last /\ Len(code) = MainLength
  <2>1. linked'.main.code = Append(code, Emitted1) /\ TablesOK'
        /\ DOMAIN linked'.main.code = 1..last
    BY EmitsTables
  <2>2. linked'.main.code \in Seq(ProductInstructions) BY <2>1 DEF TablesOK, Programs, Bodies
  <2>3. MainLength \in Nat BY EmitsTables
  <2>4. Len(linked'.main.code) = last
    <3> DEFINE c == linked'.main.code
    <3>1. c \in Seq(ProductInstructions) /\ DOMAIN c = 1..last BY <2>1, <2>2
    <3> HIDE DEF c
    <3>2. Len(c) \in Nat /\ DOMAIN c = 1..Len(c) BY <3>1, LenProperties
    <3>3. Len(c) = last BY <2>3, <3>1, <3>2
    <3> QED BY <3>3 DEF c
  <2> QED BY <2>4, EmitsTables DEF MainLength
<1> HIDE DEF n, last, code
<1>7. /\ \A g \in 1..last : g \in 1..MainLength \/ g = last
      /\ \A g \in 1..MainLength : g \in 1..last
      /\ last \in 1..last /\ last \notin 1..MainLength
      /\ \A g \in 1..MainLength : \A h \in 1..g - 1 : h \in 1..MainLength
      /\ \A h \in 1..last - 1 : h \in 1..MainLength
      /\ \A h \in 1..MainLength : h \in 1..last - 1
  BY <1>6 DEF last
<1>8. \A g \in 1..MainLength : PlacedOK(g) /\ (Homes[g] \in expanded => MappedOK(g))
  BY <1>2, <1>6 DEF CodeOK, code
<1>9. \A k \in DOMAIN stack : stack[k].id = Top.id => k = n BY <1>2, <1>3 DEF StackOK
<1>10. ASSUME NEW g \in 1..MainLength PROVE PlacedOK(g)' /\ (Homes[g] \in expanded => MappedOK(g)')
  <2> DEFINE i == code[g]
             home == Homes[g]
  <2>1. PlacedOK(g) /\ (home \in expanded => MappedOK(g)) BY <1>8
  <2>2. linked'.main.code[g] = i /\ Homes'[g] = home BY <1>6
  <2>3. Origin(g)' = Origin(g) BY <1>1, <2>2 DEF Origin, code
  <2>4. ASSUME NEW k \in DOMAIN stack', stack'[k].id = home PROVE i.line < stack'[k].local
    <3>1. k \in DOMAIN stack /\ stack[k].id = home BY <1>5, <2>4
    <3>2. i.line < stack[k].local BY <2>1, <3>1 DEF PlacedOK, code
    <3>3. CASE k = n
      <4>1. i.line \in Nat
        <5>1. code[g].line \in Nat BY <1>1, <1>6, Placed DEF code
        <5> QED BY <5>1
      <4>2. \A a, b \in Nat : a < b => a < b + 1 OBVIOUS
      <4> QED BY <1>3, <1>5, <3>2, <3>3, <4>1, <4>2
    <3>4. CASE k \in 1..n - 1 BY <1>5, <3>2, <3>4
    <3> QED BY <1>5, <3>1, <3>3, <3>4
  <2>5. PlacedOK(g)'
    BY <1>1, <2>1, <2>2, <2>3, <2>4 DEF PlacedOK, code
  <2>6. ASSUME home \in expanded PROVE MappedOK(g)'
    <3>1. MappedOK(g) BY <2>1, <2>6
    <3>2. \A o : JumpKept(g, o) => JumpKept(g, o)'
      <4> SUFFICES ASSUME NEW o, JumpKept(g, o), NEW h \in 1..last, Homes'[h] = home
                   PROVE  linked'.main.code[h].line < o.at <=> h < i.at
        BY <1>6, <2>2 DEF JumpKept
      <4>1. h \in 1..MainLength BY <1>3, <1>6, <1>7, <2>6
      <4> QED BY <1>6, <4>1 DEF JumpKept, code
    <3>3. i.at \in 1..Len(code) + 1 => i.at \in 1..Len(linked'.main.code) + 1
      <4>1. \A c \in Nat : \A a \in 1..c + 1 : a \in 1..c + 1 + 1 OBVIOUS
      <4> QED BY <1>6, <4>1 DEF last
    <3> QED BY <1>1, <2>2, <2>3, <3>1, <3>2, <3>3 DEF MappedOK, code
  <2> QED BY <2>5, <2>6
<1>11. ASSUME NEW g, g = last PROVE PlacedOK(g)' /\ Homes'[g] \notin expanded
  <2>1. linked'.main.code[g] = Emitted1 /\ Homes'[g] = Top.id BY <1>6, <1>11
  <2>2. Origin(g)' = Unit.main.code[Top.local] BY <1>1, <1>4, <2>1 DEF Origin, Unit
  <2>3. \A k \in DOMAIN stack' : stack'[k].id = Top.id => Emitted1.line < stack'[k].local
    <3> TAKE k \in DOMAIN stack'
    <3> HAVE stack'[k].id = Top.id
    <3>1. k = n BY <1>5, <1>9
    <3>2. \A a \in Nat : a < a + 1 OBVIOUS
    <3> QED BY <1>3, <1>4, <1>5, <3>1, <3>2
  <2>4. Top.local \in DOMAIN modules[Top.id].main.code BY <1>4 DEF Unit
  <2>5. Emitted1.line \in DOMAIN modules'[Top.id].main.code /\ Top.id \in DOMAIN bases'
    BY <1>1, <1>3, <1>4, <2>4
  <2>6. Emitted1.source = Origin(g)' .source + bases'[Top.id].sources BY <1>1, <1>4, <2>2
  <2>7. PlacedOK(g)' BY <2>1, <2>3, <2>5, <2>6 DEF PlacedOK
  <2> QED BY <1>3, <2>1, <2>7
<1>12. Complete'
  <2>1. ASSUME NEW id \in expanded, NEW l \in DOMAIN modules[id].main.code
        PROVE  \E g \in 1..last : Homes'[g] = id /\ linked'.main.code[g].line = l
    <3>1. PICK g \in 1..MainLength : Homes[g] = id /\ code[g].line = l
      BY <1>2, <1>6 DEF CodeOK, Complete, code
    <3> QED BY <1>6, <1>7, <3>1
  <2> QED BY <1>1, <1>6, <2>1 DEF Complete
<1>13. ASSUME NEW k \in DOMAIN stack PROVE GlobalsOK(k)'
  <2>1. GlobalsOK(k) BY <1>2 DEF CodeOK
  <2>2. ASSUME NEW l \in 1..stack[k].local - 1
        PROVE  LET g == stack[k].globals[l] IN
               /\ l \in DOMAIN stack[k].globals /\ g \in 1..last
               /\ Homes'[g] = stack[k].id /\ linked'.main.code[g].line = l
    BY <1>6, <1>7, <2>1 DEF GlobalsOK, code
  <2>3. CASE k \in 1..n - 1 BY <1>5, <1>6, <2>2, <2>3 DEF GlobalsOK
  <2>4. CASE k = n
    <3> DEFINE f == stack'[k]
    <3>1. f.id = Top.id /\ f.local = Top.local + 1 /\ f.globals = Put(Top.globals, Top.local, last)
      BY <1>5, <2>4
    <3>2. /\ DOMAIN f.globals = {Top.local} \cup DOMAIN Top.globals
          /\ f.globals[Top.local] = last
          /\ \A l \in DOMAIN Top.globals : l # Top.local => f.globals[l] = Top.globals[l]
      BY <3>1 DEF Put
    <3> HIDE DEF f
    <3>3. ASSUME NEW l \in 1..f.local - 1
          PROVE  LET g == f.globals[l] IN
                 /\ l \in DOMAIN f.globals /\ g \in 1..last
                 /\ Homes'[g] = f.id /\ linked'.main.code[g].line = l
      <4>1. l \in 1..Top.local - 1 \/ l = Top.local
        <5>1. \A a \in Nat : \A c \in 1..(a + 1) - 1 : c \in 1..a - 1 \/ c = a OBVIOUS
        <5> QED BY <1>3, <3>1, <5>1
      <4>2. CASE l = Top.local BY <1>4, <1>6, <1>7, <3>1, <3>2, <4>2
      <4>3. CASE l \in 1..Top.local - 1
        <5>1. l # Top.local BY <1>3, <4>3
        <5> QED BY <1>3, <2>2, <2>4, <3>1, <3>2, <4>3, <5>1
      <4> QED BY <4>1, <4>2, <4>3
    <3> QED BY <1>6, <3>3 DEF GlobalsOK, f
  <2> QED BY <1>5, <2>3, <2>4
<1>14. CodeOK'
  <2>1. \A g \in 1..last : PlacedOK(g)' /\ (Homes'[g] \in expanded' => MappedOK(g)')
    BY <1>1, <1>6, <1>7, <1>10, <1>11
  <2>2. \A k \in DOMAIN stack' : GlobalsOK(k)' BY <1>5, <1>13
  <2> QED BY <1>6, <1>12, <2>1, <2>2 DEF CodeOK
<1> DEFINE new == linked'.main.code
           homes == Homes'
<1>15. ASSUME NEW g \in 1..MainLength PROVE StandsInOrder(new, homes, modules, g)
  <2>1. StandsInOrder(code, Homes, modules, g) BY <1>2, <1>6 DEF DependenciesFirst, StandsInOrder, code
  <2>2. \A h \in 1..g - 1 : new[h].line = code[h].line /\ homes[h] = Homes[h] BY <1>6, <1>7
  <2>3. new[g].line = code[g].line /\ homes[g] = Homes[g] BY <1>6
  <2> QED BY <2>1, <2>2, <2>3, StandsInOrderKept
<1>16. /\ \A h \in 1..last - 1 : Homes'[h] = Top.id => linked'.main.code[h].line < Top.local
       /\ \A k \in DOMAIN Unit.deps : Unit.deps[k].at <= Top.local =>
            \A l \in DOMAIN modules[Unit.deps[k].module].main.code :
               \E h \in 1..last - 1 : Homes'[h] = Unit.deps[k].module /\ linked'.main.code[h].line = l
  <2>1. ASSUME NEW h \in 1..last - 1, Homes'[h] = Top.id PROVE linked'.main.code[h].line < Top.local
    <3>1. h \in 1..MainLength BY <1>7
    <3>2. PlacedOK(h) /\ Homes[h] = Top.id /\ linked'.main.code[h] = code[h] BY <1>6, <1>8, <2>1, <3>1
    <3> QED BY <1>3, <3>2 DEF PlacedOK, code
  <2>2. ASSUME NEW k \in DOMAIN Unit.deps, Unit.deps[k].at <= Top.local,
               NEW l \in DOMAIN modules[Unit.deps[k].module].main.code
        PROVE  \E h \in 1..last - 1 : Homes'[h] = Unit.deps[k].module /\ linked'.main.code[h].line = l
    <3>1. Unit.deps[k].module \in expanded BY <1>4, <2>2
    <3>2. PICK h \in 1..MainLength : Homes[h] = Unit.deps[k].module /\ code[h].line = l
      BY <1>2, <1>6, <3>1 DEF CodeOK, Complete, code
    <3> QED BY <1>6, <1>7, <3>2
  <2> QED BY <2>1, <2>2
<1>17. StandsInOrder(new, homes, modules, last)
  <2>1. new[last] = Emitted1 /\ Emitted1.line = Top.local /\ homes[last] = Top.id
    BY <1>4, <1>6
  <2>2. modules[homes[last]] = Unit /\ new[last].line = Top.local BY <2>1 DEF Unit
  <2> HIDE DEF new, homes
  <2>3. /\ \A h \in 1..last - 1 : homes[h] = homes[last] => new[h].line < new[last].line
        /\ \A k \in DOMAIN Unit.deps : Unit.deps[k].at <= new[last].line =>
            \A l \in DOMAIN modules[Unit.deps[k].module].main.code :
               \E h \in 1..last - 1 : homes[h] = Unit.deps[k].module /\ new[h].line = l
    BY <1>16, <2>1, <2>2 DEF new, homes
  <2> QED BY <1>4, <2>2, <2>3 DEF StandsInOrder
<1>18. DependenciesFirst'
  <2>1. \A g \in 1..last : StandsInOrder(new, homes, modules, g) BY <1>7, <1>15, <1>17
  <2>2. \A g \in DOMAIN new : StandsInOrder(new, homes, modules', g) BY <1>1, <1>6, <2>1
  <2> QED BY <2>2 DEF DependenciesFirst, StandsInOrder
<1> QED BY <1>14, <1>18

\* An instruction is placed.
LEMMA EmitInstructionKeeps ==
  ASSUME LinkerInv, EmitInstruction
  PROVE  LinkerInv'
<1>1. /\ verdict = "linking" /\ verdict' = "linking"
      /\ input' = input /\ given' = given /\ modules' = modules
  BY DEF EmitInstruction
<1>2. StackOK' /\ GraphOK' BY EmitsGraph
<1>3. TablesOK' BY EmitsTables
<1>4. CodeOK' /\ DependenciesFirst' BY EmitsCode
<1> QED BY <1>1, <1>2, <1>3, <1>4, GoesOn

-----------------------------------------------------------------------------
(* A module is left.                                                       *)

\* What an instruction of a main stream becomes in a context.
IsMoved(j, i, b, globals) ==
  /\ j.op = i.op /\ j.imm = i.imm /\ j.line = i.line
  /\ j.source = i.source + b.sources
  /\ j.const = Shifted(i.const, b.consts) /\ j.name = Shifted(i.name, b.names)
  /\ j.fun = Shifted(i.fun, b.funs) /\ j.dest = Shifted(i.dest, b.regs)
  /\ j.args = [k \in DOMAIN i.args |-> i.args[k] + b.regs]
  /\ j.at = IF IsJump(i.op) THEN globals[i.at] ELSE i.at

\* An instruction of a main stream moved to a context.
LEMMA InMainFields ==
  ASSUME NEW i \in ProductInstructions, NEW b \in Contexts, NEW globals,
         IsJump(i.op) => globals[i.at] \in Nat
  PROVE  /\ InMain(i, b, globals) \in ProductInstructions
         /\ IsMoved(InMain(i, b, globals), i, b, globals)
<1> DEFINE t == InTables(i, b)
           args == [k \in DOMAIN i.args |-> i.args[k] + b.regs]
           dest == Shifted(i.dest, b.regs)
           at == IF IsJump(i.op) THEN globals[i.at] ELSE i.at
           j == InMain(i, b, globals)
<1>1. /\ t \in ProductInstructions /\ t.op = i.op /\ t.dest = i.dest /\ t.args = i.args /\ t.at = i.at
      /\ t.imm = i.imm /\ t.line = i.line
      /\ t.const = Shifted(i.const, b.consts) /\ t.name = Shifted(i.name, b.names)
      /\ t.fun = Shifted(i.fun, b.funs) /\ t.source = i.source + b.sources
  BY InTablesFields
<1>2. i.dest \in Nat /\ i.args \in Seq(Nat) /\ i.at \in Nat /\ b.regs \in Nat
  BY InstructionTypes DEF Contexts
<1>3. dest \in Nat /\ at \in Nat BY <1>2 DEF Shifted
<1>4. args \in Seq(Nat)
  <2> DEFINE r == b.regs
             s == i.args
  <2>1. r \in Nat /\ s \in Seq(Nat) BY <1>2
  <2> HIDE DEF r, s
  <2>2. DOMAIN s = 1..Len(s) /\ Len(s) \in Nat BY <2>1, LenProperties
  <2>3. \A k \in 1..Len(s) : s[k] + r \in Nat BY <2>1
  <2>4. [k \in DOMAIN s |-> s[k] + r] \in Seq(Nat) BY <2>2, <2>3
  <2> QED BY <2>4 DEF r, s
<1>5. j = [[[t EXCEPT !.dest = Shifted(@, b.regs)] EXCEPT !.args = [k \in DOMAIN @ |-> @[k] + b.regs]]
             EXCEPT !.at = IF IsJump(i.op) THEN globals[@] ELSE @]
  BY DEF InMain
<1>6. t = [op |-> t.op, dest |-> t.dest, args |-> t.args, at |-> t.at, imm |-> t.imm,
           const |-> t.const, name |-> t.name, fun |-> t.fun, source |-> t.source, line |-> t.line]
  BY <1>1, InstructionTypes
<1> HIDE DEF t, j
<1> DEFINE u == [t EXCEPT !.dest = dest]
<1>7. j = [[u EXCEPT !.args = args] EXCEPT !.at = at] BY <1>1, <1>5, <1>6
<1> HIDE DEF args, dest, at
<1>8. u = [op |-> t.op, dest |-> dest, args |-> t.args, at |-> t.at, imm |-> t.imm,
           const |-> t.const, name |-> t.name, fun |-> t.fun, source |-> t.source, line |-> t.line]
  BY <1>6
<1> HIDE DEF u
<1> DEFINE v == [u EXCEPT !.args = args]
<1>9. v = [op |-> t.op, dest |-> dest, args |-> args, at |-> t.at, imm |-> t.imm,
           const |-> t.const, name |-> t.name, fun |-> t.fun, source |-> t.source, line |-> t.line]
  BY <1>8
<1>10. j = [v EXCEPT !.at = at] BY <1>7
<1> HIDE DEF v
<1>11. j = [op |-> t.op, dest |-> dest, args |-> args, at |-> at, imm |-> t.imm,
            const |-> t.const, name |-> t.name, fun |-> t.fun, source |-> t.source, line |-> t.line]
  BY <1>9, <1>10
<1>12. /\ t.op \in STRING /\ t.imm \in Values /\ t.const \in Nat /\ t.name \in Nat /\ t.fun \in Nat
       /\ t.source \in Nat /\ t.line \in Nat
  BY <1>1, InstructionTypes
<1>13. j \in ProductInstructions BY <1>3, <1>4, <1>11, <1>12 DEF ProductInstructions
<1>14. /\ j.op = t.op /\ j.imm = t.imm /\ j.line = t.line /\ j.source = t.source
       /\ j.const = t.const /\ j.name = t.name /\ j.fun = t.fun /\ j.dest = dest
       /\ j.args = args /\ j.at = at
  BY <1>11
<1> QED BY <1>1, <1>13, <1>14 DEF j, dest, args, at, IsMoved

\* Where the instructions of the module that is left stand.
Places == Put(Top.globals, Top.local, MainLength + 1)

\* Each instruction of the module stands in the program, in its order, and
\* the end of the module at the end of what there is.
LEMMA LeaveFacts ==
  ASSUME LinkerInv, verdict = "linking", stack # <<>>, Top.local > Len(Unit.main.code)
  PROVE  LET code == linked.main.code IN
         /\ \A l \in DOMAIN Unit.main.code :
              Places[l] \in DOMAIN code /\ Homes[Places[l]] = Top.id /\ code[Places[l]].line = l
         /\ \A g \in DOMAIN code : Homes[g] = Top.id =>
              code[g].line \in DOMAIN Unit.main.code /\ Places[code[g].line] = g
         /\ \A a \in 1..Len(Unit.main.code) + 1 :
              /\ Places[a] \in 1..MainLength + 1
              /\ \A h \in DOMAIN code : Homes[h] = Top.id => (code[h].line < a <=> h < Places[a])
<1> DEFINE code == linked.main.code
           n == Len(stack)
           len == Len(Unit.main.code)
<1>1. /\ n \in Nat \ {0} /\ Top = stack[n] /\ FrameOK(n) /\ GlobalsOK(n)
      /\ Top.local \in Nat /\ len \in Nat /\ DOMAIN Unit.main.code = 1..len
      /\ MainLength \in Nat
  BY TopFacts
<1>2. DependenciesFirst /\ DOMAIN code = 1..MainLength /\ \A g \in DOMAIN code : code[g].line \in Nat
  <2>1. DependenciesFirst BY LinkingFacts
  <2>2. DOMAIN code = 1..MainLength BY CodeIsSequence DEF MainLength
  <2>3. ASSUME NEW g \in DOMAIN code PROVE code[g].line \in Nat BY Placed
  <2> QED BY <2>1, <2>2, <2>3
<1>3. Top.local = len + 1
  <2>1. Top.local \in 1..len + 1 BY <1>1 DEF FrameOK, Unit
  <2>2. \A l, c \in Nat : l > c /\ l \in 1..c + 1 => l = c + 1 OBVIOUS
  <2> QED BY <1>1, <2>1, <2>2
<1>4. /\ Places[Top.local] = MainLength + 1
      /\ \A l \in DOMAIN Top.globals : l # Top.local => Places[l] = Top.globals[l]
  BY DEF Places, Put
<1> HIDE DEF len, n, code
<1>5. /\ \A l \in 1..len : l # Top.local /\ l \in 1..Top.local - 1
      /\ \A a \in 1..len + 1 : a \in 1..len \/ a = Top.local
      /\ MainLength + 1 \in 1..MainLength + 1
      /\ \A g \in 1..MainLength : g \in 1..MainLength + 1 /\ g < MainLength + 1
      /\ \A l \in 1..len : l < Top.local
  BY <1>1, <1>3
<1>6. ASSUME NEW l \in 1..len
      PROVE  Places[l] \in DOMAIN code /\ Homes[Places[l]] = Top.id /\ code[Places[l]].line = l
  <2>1. /\ l \in DOMAIN Top.globals
        /\ Top.globals[l] \in DOMAIN code
        /\ Homes[Top.globals[l]] = Top.id /\ code[Top.globals[l]].line = l
    BY <1>1, <1>5 DEF GlobalsOK, code
  <2> QED BY <1>4, <1>5, <2>1
<1>7. ASSUME NEW g \in 1..MainLength, NEW h \in 1..MainLength, h < g,
             Homes[h] = Top.id, Homes[g] = Top.id
      PROVE  code[h].line < code[g].line
  <2>1. h \in 1..g - 1 BY <1>7
  <2> QED BY <1>2, <1>7, <2>1 DEF DependenciesFirst, code
<1>8. ASSUME NEW g \in DOMAIN code, Homes[g] = Top.id PROVE code[g].line \in 1..len
  BY <1>1, <1>2, <1>8 DEF DependenciesFirst, code, Unit
<1>9. ASSUME NEW l \in 1..len, NEW h \in DOMAIN code, Homes[h] = Top.id
      PROVE  code[h].line < l <=> h < Places[l]
  <2> DEFINE g == Places[l]
  <2>1. g \in 1..MainLength /\ Homes[g] = Top.id /\ code[g].line = l BY <1>2, <1>6
  <2>2. h \in 1..MainLength /\ code[h].line \in Nat /\ l \in Nat BY <1>1, <1>2
  <2> HIDE DEF g
  <2>3. h < g => code[h].line < l BY <1>7, <1>9, <2>1, <2>2
  <2>4. g < h => l < code[h].line BY <1>7, <1>9, <2>1, <2>2
  <2>5. h < g \/ g < h \/ g = h BY <2>1, <2>2
  <2>6. g = h => ~ (code[h].line < l) /\ ~ (h < g) BY <2>1, <2>2
  <2>7. g < h => ~ (h < g) BY <2>1, <2>2
  <2>8. l < code[h].line => ~ (code[h].line < l) BY <2>2
  <2>9. code[h].line < l <=> h < g BY <2>3, <2>4, <2>5, <2>6, <2>7, <2>8
  <2> QED BY <2>9 DEF g
<1>10. ASSUME NEW g \in DOMAIN code, Homes[g] = Top.id PROVE Places[code[g].line] = g
  <2> DEFINE l == code[g].line
             p == Places[l]
  <2>1. l \in 1..len BY <1>8, <1>10
  <2>2. p \in 1..MainLength /\ Homes[p] = Top.id /\ code[p].line = l BY <1>2, <1>6, <2>1
  <2>3. g \in 1..MainLength /\ l \in Nat /\ \A c \in Nat : ~ (c < c) BY <1>1, <1>2
  <2> HIDE DEF p
  <2>4. ~ (g < p) BY <1>7, <1>10, <2>2, <2>3
  <2>5. ~ (p < g) BY <1>7, <1>10, <2>2, <2>3
  <2>6. p = g BY <2>2, <2>3, <2>4, <2>5
  <2> QED BY <2>6 DEF p
<1>11. ASSUME NEW a \in 1..len + 1
       PROVE  /\ Places[a] \in 1..MainLength + 1
              /\ \A h \in DOMAIN code : Homes[h] = Top.id => (code[h].line < a <=> h < Places[a])
  <2>1. CASE a \in 1..len BY <1>2, <1>5, <1>6, <1>9, <2>1
  <2>2. CASE a = Top.local
    <3>1. Places[a] = MainLength + 1 BY <1>4, <2>2
    <3>2. ASSUME NEW h \in DOMAIN code, Homes[h] = Top.id PROVE code[h].line < a /\ h < Places[a]
      BY <1>2, <1>5, <1>8, <2>2, <3>1, <3>2
    <3> QED BY <1>5, <3>1, <3>2
  <2> QED BY <1>5, <2>1, <2>2
<1> QED BY <1>1, <1>6, <1>8, <1>10, <1>11 DEF code, len

\* What the module's instructions become, and that the others stay.
LEMMA LeavesTables ==
  ASSUME LinkerInv, LeaveModule
  PROVE  /\ TablesOK' /\ Homes' = Homes
         /\ linked'.main.code = Mapped(Places)
         /\ DOMAIN linked'.main.code = DOMAIN linked.main.code
         /\ Len(linked'.main.code) = MainLength
         /\ \A g \in DOMAIN linked.main.code : linked'.main.code[g].line = linked.main.code[g].line
         /\ \A g \in DOMAIN linked.main.code : linked'.main.code[g].source = linked.main.code[g].source
         /\ \A g \in DOMAIN linked.main.code : Homes[g] # Top.id => linked'.main.code[g] = linked.main.code[g]
         /\ \A g \in DOMAIN linked.main.code : Homes[g] = Top.id =>
              IsMoved(linked'.main.code[g], Origin(g), bases[Top.id], Places)
<1> DEFINE code == linked.main.code
           new == Mapped(Places)
           b == bases[Top.id]
<1>1. /\ verdict = "linking" /\ stack # <<>> /\ Top.local > Len(Unit.main.code)
      /\ linked' = [linked EXCEPT !.main.code = new]
      /\ input' = input /\ modules' = modules /\ bases' = bases
  BY DEF LeaveModule, Places
<1>2. /\ \A l \in DOMAIN Unit.main.code :
           Places[l] \in DOMAIN code /\ Homes[Places[l]] = Top.id /\ code[Places[l]].line = l
      /\ \A g \in DOMAIN code : Homes[g] = Top.id =>
           code[g].line \in DOMAIN Unit.main.code /\ Places[code[g].line] = g
      /\ \A a \in 1..Len(Unit.main.code) + 1 : Places[a] \in 1..MainLength + 1
  BY <1>1, LeaveFacts
<1>3. /\ code \in Seq(ProductInstructions) /\ MainLength \in Nat /\ DOMAIN code = 1..MainLength
  BY <1>1, CodeIsSequence DEF MainLength
<1>4. TablesOK /\ Top.id \in DOMAIN bases /\ b \in Contexts
      /\ \A k \in DOMAIN Unit.main.code : Unit.main.code[k].line = k
  <2>1. TablesOK /\ Top.id \in DOMAIN bases /\ Top.id \in DOMAIN modules BY <1>1, LinkingFacts, TopFacts
  <2>2. b \in Contexts BY <2>1 DEF TablesOK, PartOK, PartIn
  <2>3. \A k \in DOMAIN Unit.main.code : Unit.main.code[k].line = k BY <1>1, <2>1, LinkingFacts DEF Unit
  <2> QED BY <2>1, <2>2, <2>3
<1>5. DOMAIN new = DOMAIN code BY DEF Mapped
<1>6. ASSUME NEW g \in DOMAIN code, Homes[g] # Top.id PROVE new[g] = code[g]
  <2>1. g \notin {Places[k] : k \in DOMAIN Unit.main.code} BY <1>2, <1>6
  <2> QED BY <2>1 DEF Mapped
<1>7. ASSUME NEW g \in DOMAIN code, Homes[g] = Top.id
      PROVE  /\ new[g] = InMain(Origin(g), b, Places)
             /\ new[g] \in ProductInstructions
             /\ IsMoved(new[g], Origin(g), b, Places)
             /\ new[g].line = code[g].line /\ new[g].source = code[g].source
  <2> DEFINE l == code[g].line
             o == Unit.main.code[l]
  <2>1. l \in DOMAIN Unit.main.code /\ Places[l] = g BY <1>2, <1>7
  <2>2. \A k \in DOMAIN Unit.main.code : Places[k] = g => k = l BY <1>2
  <2>3. g \in {Places[k] : k \in DOMAIN Unit.main.code} BY <2>1
  <2>4. (CHOOSE k \in DOMAIN Unit.main.code : Places[k] = g) = l BY <2>1, <2>2
  <2>5. new[g] = InMain(Unit.main.code[CHOOSE k \in DOMAIN Unit.main.code : Places[k] = g], b, Places)
    BY <2>3 DEF Mapped
  <2>6. Origin(g) = o BY <1>7 DEF Origin, Unit
  <2>7. /\ o \in ProductInstructions /\ code[g].source = o.source + b.sources
        /\ InstructionValid(o, Unit.main.regs, Len(Unit.main.code), Unit)
    <3> DEFINE m == modules[Homes[g]]
               r == m.main.code[code[g].line]
    <3>1. /\ r \in ProductInstructions /\ code[g].source = r.source + bases[Homes[g]].sources
          /\ InstructionValid(r, m.main.regs, Len(m.main.code), m)
      <4>1. verdict = "linking" BY <1>1
      <4> HIDE DEF new, b
      <4> QED BY <4>1, Placed
    <3>2. m = Unit /\ r = o /\ bases[Homes[g]] = b BY <1>7 DEF Unit
    <3> HIDE DEF m, r, o, b, code
    <3> QED BY <3>1, <3>2
  <2>8. ASSUME IsJump(o.op) PROVE Places[o.at] \in Nat
    <3>1. o.at \in 1..Len(Unit.main.code) + 1 BY <2>7, <2>8 DEF InstructionValid
    <3>2. \A c \in 1..MainLength + 1 : c \in Nat BY <1>3
    <3> QED BY <1>2, <3>1, <3>2
  <2>9. o.line = l BY <1>4, <2>1
  <2> HIDE DEF o, new, b
  <2>10. /\ InMain(o, b, Places) \in ProductInstructions
         /\ IsMoved(InMain(o, b, Places), o, b, Places)
         /\ InMain(o, b, Places).line = o.line
         /\ InMain(o, b, Places).source = o.source + b.sources
    <3>1. IsJump(o.op) => Places[o.at] \in Nat BY <2>8
    <3>2. InMain(o, b, Places) \in ProductInstructions /\ IsMoved(InMain(o, b, Places), o, b, Places)
      <4>1. b \in Contexts /\ o \in ProductInstructions BY <1>4, <2>7
      <4> QED BY <4>1, <3>1, InMainFields
    <3> QED BY <3>2 DEF IsMoved
  <2>11. new[g] = InMain(o, b, Places) BY <2>4, <2>5 DEF o
  <2> QED BY <2>6, <2>7, <2>9, <2>10, <2>11
<1>8. ASSUME NEW g \in DOMAIN code PROVE new[g] \in ProductInstructions
  <2>1. CASE Homes[g] = Top.id BY <1>7, <2>1
  <2>2. CASE Homes[g] # Top.id BY <1>3, <1>6, <2>2
  <2> QED BY <2>1, <2>2
<1>9. \A g \in DOMAIN code : new[g].line = code[g].line /\ new[g].source = code[g].source BY <1>6, <1>7
<1>10. new \in Seq(ProductInstructions) /\ Len(new) = MainLength
  <2>1. new = [g \in 1..MainLength |-> new[g]] BY <1>3 DEF Mapped
  <2> HIDE DEF new
  <2>2. new \in [1..MainLength -> ProductInstructions] BY <1>3, <1>8, <2>1
  <2> QED BY <1>3, <2>2
<1> HIDE DEF new
<1>11. /\ TablesOK' /\ linked'.main.code = new
       /\ Homes' = [g \in DOMAIN new |-> HomeAmong(bases, modules, new[g])]
  BY <1>1, <1>4, <1>10, CodeReplaced
<1>12. Homes' = Homes
  <2>1. \A g \in DOMAIN code : HomeAmong(bases, modules, new[g]) = HomeAmong(bases, modules, code[g])
    BY <1>9 DEF HomeAmong
  <2> QED BY <1>5, <1>11, <2>1 DEF Homes
<1> QED BY <1>5, <1>6, <1>7, <1>9, <1>10, <1>11, <1>12 DEF new

\* The stack without the module: the one below has passed its dependency.
LEMMA LeavesStack ==
  ASSUME LinkerInv, LeaveModule
  PROVE  /\ stack' \in Seq(Frames) /\ Len(stack') = Len(stack) - 1
         /\ DOMAIN stack' = 1..Len(stack) - 1
         /\ \A k \in 1..Len(stack) - 1 : SameFrame(stack'[k], stack[k]) /\ stack'[k].dep = stack[k].dep
<1> DEFINE n == Len(stack)
           s == SubSeq(stack, 1, n - 2)
           f == Passed(stack[n - 1])
<1>1. verdict = "linking" /\ stack # <<>> /\ stack' = IF n = 1 THEN <<>> ELSE Append(s, f)
  BY DEF LeaveModule
<1>2. StackOK /\ CodeOK BY <1>1, LinkingFacts
<1>3. n \in Nat \ {0} /\ DOMAIN stack = 1..n /\ MainLength \in Nat /\ stack \in Seq(Frames)
  BY <1>1, <1>2, TopFacts DEF StackOK
<1>4. CASE n = 1
  <2>1. stack' = <<>> /\ Len(stack) - 1 = 0 /\ \A k \in 1..0 : FALSE BY <1>1, <1>4
  <2>2. DOMAIN stack' = 1..0 /\ stack' \in Seq(Frames) /\ Len(stack') = 0 BY <2>1
  <2> QED BY <2>1, <2>2
<1>5. CASE n # 1
  <2>1. n - 2 \in 0..Len(stack) /\ n - 1 \in DOMAIN stack /\ (n - 2) + 1 = n - 1 BY <1>3, <1>5
  <2>2. s \in Seq(Frames) /\ Len(s) = n - 2 /\ \A k \in 1..n - 2 : s[k] = stack[k]
    BY <1>3, <2>1, Prefix
  <2>3. f \in Frames /\ SameFrame(f, stack[n - 1]) /\ f.dep = stack[n - 1].dep
    <3>1. stack[n - 1] \in Frames BY <1>3, <2>1
    <3>2. GlobalsOK(n - 1) BY <1>2, <2>1 DEF CodeOK
    <3>3. \A l \in 1..stack[n - 1].local - 1 : l \in DOMAIN stack[n - 1].globals
      BY <3>2 DEF GlobalsOK
    <3> QED BY <1>3, <3>1, <3>3, PassedFrame
  <2>4. stack' = Append(s, f) BY <1>1, <1>5
  <2> HIDE DEF n, s, f
  <2>5. /\ stack' \in Seq(Frames) /\ Len(stack') = Len(s) + 1
        /\ \A k \in 1..Len(s) : stack'[k] = s[k]
    BY <2>2, <2>3, <2>4, AppendProperties
  <2>6. stack'[Len(s) + 1] = f BY <2>2, <2>3, <2>4, AppendProperties
  <2>7. Len(stack') = n - 1 BY <2>1, <2>2, <2>5
  <2>8. DOMAIN stack' = 1..n - 1 BY <2>5, <2>7, LenProperties
  <2>9. ASSUME NEW k \in 1..n - 1
        PROVE  SameFrame(stack'[k], stack[k]) /\ stack'[k].dep = stack[k].dep
    <3>1. k \in 1..n - 2 \/ k = n - 1 BY <1>3
    <3>2. CASE k \in 1..n - 2
      <4>1. stack'[k] = stack[k] BY <2>2, <2>5, <3>2
      <4> QED BY <4>1 DEF SameFrame
    <3>3. CASE k = n - 1
      <4>1. stack'[k] = f BY <2>1, <2>2, <2>6, <3>3
      <4> QED BY <2>3, <3>3, <4>1
    <3> QED BY <3>1, <3>2, <3>3
  <2> QED BY <2>5, <2>7, <2>8, <2>9 DEF n
<1> QED BY <1>4, <1>5

\* What the module that is left leaves of the stack.
LEMMA LeavesFrames ==
  ASSUME LinkerInv, LeaveModule
  PROVE  StackOK' /\ Visiting' = Visiting \ {Top.id}
<1> DEFINE n == Len(stack)
<1>1. /\ verdict = "linking" /\ stack # <<>>
      /\ expanded' = expanded \cup {Top.id} /\ modules' = modules
  BY DEF LeaveModule
<1>2. StackOK BY <1>1, LinkingFacts
<1>3. n \in Nat \ {0} /\ n \in DOMAIN stack /\ DOMAIN stack = 1..n /\ Top = stack[n]
  BY <1>1, TopFacts
<1>4. /\ stack' \in Seq(Frames) /\ Len(stack') = n - 1 /\ DOMAIN stack' = 1..n - 1
      /\ \A k \in 1..n - 1 : SameFrame(stack'[k], stack[k]) /\ stack'[k].dep = stack[k].dep
  BY LeavesStack
<1> HIDE DEF n
<1>5. \A k \in 1..n - 1 : stack'[k].id = stack[k].id /\ stack'[k].local = stack[k].local
  BY <1>4 DEF SameFrame
<1>6. /\ \A k \in 1..n - 1 : k \in DOMAIN stack /\ k < n /\ k # n
      /\ \A k \in 1..n - 1 : k < n - 1 => k + 1 \in 1..n - 1
      /\ \A k \in 1..n - 1 : k < n - 1 \/ k + 1 = n
      /\ \A k \in 1..n : k \in 1..n - 1 \/ k = n
  BY <1>3
<1>7. \A j, k \in DOMAIN stack : stack[j].id = stack[k].id => j = k BY <1>2 DEF StackOK
<1>8. Visiting' = Visiting \ {Top.id}
  <2>1. ASSUME NEW id \in Visiting' PROVE id \in Visiting /\ id # Top.id
    <3>1. PICK k \in 1..n - 1 : stack'[k].id = id BY <1>4 DEF Visiting
    <3>2. stack[k].id = id /\ k \in DOMAIN stack /\ k # n BY <1>5, <1>6, <3>1
    <3> QED BY <1>3, <1>7, <3>2 DEF Visiting
  <2>2. ASSUME NEW id \in Visiting, id # Top.id PROVE id \in Visiting'
    <3>1. PICK k \in 1..n : stack[k].id = id BY <1>3 DEF Visiting
    <3>2. k \in 1..n - 1 BY <1>3, <1>6, <2>2, <3>1
    <3>3. stack'[k].id = id BY <1>5, <3>1, <3>2
    <3> QED BY <1>4, <3>2, <3>3 DEF Visiting
  <2> QED BY <2>1, <2>2
<1>9. ASSUME NEW k \in 1..n - 1 PROVE FrameOK(k)'
  <2> DEFINE f == stack[k]
             e == stack'[k]
             m == modules[f.id]
  <2>1. /\ f.id \in DOMAIN modules
        /\ f.local \in 1..Len(m.main.code) + 1 /\ f.dep \in 1..Len(m.deps) + 1
        /\ f.dep <= Len(m.deps) => f.local <= m.deps[f.dep].at
        /\ \A j \in 1..f.dep - 1 :
             m.deps[j].at <= f.local /\ (m.deps[j].module \in expanded \/ j = f.dep - 1)
        /\ f.dep > 1 /\ m.deps[f.dep - 1].module = stack[k + 1].id
    <3>1. FrameOK(k) /\ k < Len(stack) BY <1>2, <1>6 DEF StackOK, n
    <3> QED BY <3>1 DEF FrameOK
  <2>2. e.id = f.id /\ e.local = f.local /\ e.dep = f.dep BY <1>4, <1>5
  <2>3. k < n - 1 => stack'[k + 1].id = stack[k + 1].id BY <1>5, <1>6
  <2>4. ASSUME ~ (k < n - 1) PROVE m.deps[f.dep - 1].module \in expanded'
    <3>1. k + 1 = n BY <1>6, <2>4
    <3> QED BY <1>1, <1>3, <2>1, <3>1
  <2>5. Len(stack') = n - 1 /\ modules' = modules /\ \A id \in expanded : id \in expanded'
    BY <1>1, <1>4
  <2> HIDE DEF f, e, m
  <2>6. \A j \in 1..f.dep - 1 :
          /\ m.deps[j].at <= f.local
          /\ m.deps[j].module \in expanded' \/ (j = f.dep - 1 /\ k < n - 1)
    BY <2>1, <2>4, <2>5
  <2>7. modules'[e.id] = m /\ e.id \in DOMAIN modules' BY <2>1, <2>2, <2>5 DEF m
  <2>8. /\ e.local \in 1..Len(m.main.code) + 1 /\ e.dep \in 1..Len(m.deps) + 1
        /\ e.dep <= Len(m.deps) => e.local <= m.deps[e.dep].at
        /\ \A j \in 1..e.dep - 1 :
             /\ m.deps[j].at <= e.local
             /\ m.deps[j].module \in expanded' \/ (j = e.dep - 1 /\ k < Len(stack'))
        /\ k < Len(stack') => e.dep > 1 /\ m.deps[e.dep - 1].module = stack'[k + 1].id
    BY <2>1, <2>2, <2>3, <2>5, <2>6
  <2> QED BY <2>7, <2>8 DEF FrameOK, e
<1>10. StackOK'
  <2>1. \A j, k \in DOMAIN stack' : stack'[j].id = stack'[k].id => j = k BY <1>4, <1>5, <1>6, <1>7
  <2>2. (Visiting \cap expanded = {})'
    <3>1. Visiting \cap expanded = {} BY <1>2 DEF StackOK
    <3> QED BY <1>1, <1>8, <3>1
  <2>3. \A k \in DOMAIN stack' : FrameOK(k)' BY <1>4, <1>9
  <2> QED BY <1>4, <2>1, <2>2, <2>3 DEF StackOK
<1> QED BY <1>8, <1>10

\* What the module has reached: it is expanded with all it needs, so that it
\* does not need itself.
LEMMA LeavesGraph ==
  ASSUME LinkerInv, LeaveModule
  PROVE  GraphOK'
<1> DEFINE n == Len(stack)
<1>1. /\ verdict = "linking" /\ stack # <<>> /\ Top.dep > Len(Unit.deps)
      /\ expanded' = expanded \cup {Top.id}
      /\ UNCHANGED <<input, given, modules, entries, order, bases, verdict>>
  BY DEF LeaveModule
<1>2. /\ StackOK /\ GraphOK /\ DOMAIN modules = Identities /\ DOMAIN bases \subseteq DOMAIN modules
      /\ \A id \in DOMAIN modules : modules[id] = Product1(id)
  BY <1>1, LinkingFacts
<1>3. /\ n \in Nat \ {0} /\ n \in DOMAIN stack /\ DOMAIN stack = 1..n /\ Top = stack[n] /\ FrameOK(n)
      /\ Top.id \in DOMAIN bases /\ Top.id \notin expanded /\ Len(Unit.deps) \in Nat
      /\ Top.dep \in Nat /\ DOMAIN Unit.deps = 1..Len(Unit.deps)
  BY <1>1, TopFacts
<1>4. Visiting' = Visiting \ {Top.id} /\ StackOK' BY LeavesFrames
<1>5. /\ DOMAIN stack' = 1..n - 1 /\ \A k \in 1..n - 1 : stack'[k].id = stack[k].id
      /\ \A k \in 1..n - 1 : k \in DOMAIN stack
  BY <1>3, LeavesStack DEF SameFrame
<1>6. Named(Unit) \subseteq expanded
  <2>1. \A j \in DOMAIN Unit.deps : j \in 1..Top.dep - 1
    <3>1. \A c, d \in Nat : d > c => \A j \in 1..c : j \in 1..d - 1 OBVIOUS
    <3> QED BY <1>1, <1>3, <3>1
  <2>2. \A j \in 1..Top.dep - 1 : Unit.deps[j].module \in expanded
    <3>1. ~ (n < Len(stack)) BY <1>3
    <3> QED BY <1>3, <3>1 DEF FrameOK, Unit
  <2> QED BY <2>1, <2>2 DEF Named
<1>7. expanded \subseteq Identities /\ Closed(expanded)
  <2>1. DOMAIN bases = Visiting \cup expanded BY <1>2 DEF GraphOK
  <2>2. expanded \subseteq Identities BY <1>2, <2>1
  <2>3. \A id \in expanded : Named(Product1(id)) \subseteq expanded BY <1>2, <2>2 DEF GraphOK
  <2> QED BY <2>2, <2>3 DEF Closed
<1>8. Top.id \notin NeededBy(Named(Unit))
  <2>1. NeededBy(Named(Unit)) \subseteq expanded BY <1>6, <1>7, NeededLeast
  <2> QED BY <1>3, <2>1
<1> HIDE DEF n
<1>9. /\ Needed' = Needed /\ \A ids : NeededBy(ids)' = NeededBy(ids)
  BY <1>1, InputKept
<1>10. EntryIds' = EntryIds BY <1>1 DEF EntryIds
<1>11. ToSet(order)' = ToSet(order) /\ (IsInjective(order)' <=> IsInjective(order))
       /\ ToSet(entries)' = ToSet(entries)
  BY <1>1 DEF ToSet, IsInjective
<1>12. \A id \in expanded' : Named(modules[id]) \subseteq expanded' /\ id \notin NeededBy(Named(modules[id]))
  <2>1. \A id \in expanded : Named(modules[id]) \subseteq expanded /\ id \notin NeededBy(Named(modules[id]))
    BY <1>2 DEF GraphOK
  <2>2. modules[Top.id] = Unit BY DEF Unit
  <2> QED BY <1>1, <1>6, <1>8, <2>1, <2>2
<1>13. \A j, k \in DOMAIN stack' : j < k => stack'[k].id \in NeededBy(Named(modules[stack'[j].id]))
  <2>1. \A j, k \in DOMAIN stack : j < k => stack[k].id \in NeededBy(Named(modules[stack[j].id]))
    BY <1>2 DEF GraphOK
  <2> QED BY <1>5, <2>1
<1>14. DOMAIN bases' = (Visiting \cup expanded)'
  <2>1. DOMAIN bases = Visiting \cup expanded BY <1>2 DEF GraphOK
  <2>2. Top.id \in Visiting BY <1>3 DEF Visiting
  <2> QED BY <1>1, <1>4, <2>1, <2>2
<1>15. /\ order' \in Seq(STRING) /\ ToSet(order)' = DOMAIN bases' /\ IsInjective(order)'
       /\ DOMAIN bases' \subseteq Needed'
       /\ entries' \in Seq(EntryIds') /\ EntryIds' \subseteq ToSet(entries)' \cup DOMAIN bases'
  BY <1>1, <1>2, <1>9, <1>10, <1>11 DEF GraphOK
<1> QED BY <1>1, <1>9, <1>12, <1>13, <1>14, <1>15 DEF GraphOK

\* What the instructions of the module have become, and that their jumps go
\* where they went.
LEMMA LeavesMapped ==
  ASSUME LinkerInv, LeaveModule, NEW g \in DOMAIN linked.main.code, Homes[g] = Top.id
  PROVE  MappedOK(g)'
<1> DEFINE code == linked.main.code
           new == linked'.main.code
           o == Origin(g)
           b == bases[Top.id]
<1>1. /\ verdict = "linking" /\ stack # <<>> /\ Top.local > Len(Unit.main.code)
      /\ modules' = modules /\ bases' = bases
  BY DEF LeaveModule
<1>2. /\ IsMoved(new[g], o, b, Places)
      /\ new[g].line = code[g].line /\ Homes' = Homes
      /\ DOMAIN new = DOMAIN code /\ Len(new) = MainLength
      /\ \A h \in DOMAIN code : new[h].line = code[h].line
  BY LeavesTables
<1>3. Origin(g)' = Origin(g)
  <2>1. Homes'[g] = Homes[g] /\ new[g].line = code[g].line BY <1>2
  <2> QED BY <1>1, <2>1 DEF Origin
<1>4. bases'[Homes'[g]] = b BY <1>1, <1>2
<1>5. InstructionValid(o, Unit.main.regs, Len(Unit.main.code), Unit)
  <2>1. LET m == modules[Homes[g]] IN InstructionValid(o, m.main.regs, Len(m.main.code), m)
    BY <1>1, Placed
  <2>2. modules[Homes[g]] = Unit BY DEF Unit
  <2> QED BY <2>1, <2>2
<1>6. ASSUME NEW c, c = o, IsJump(c.op) PROVE new[g].at \in 1..Len(new) + 1 /\ JumpKept(g, c)'
  <2>1. c.at \in 1..Len(Unit.main.code) + 1 BY <1>5, <1>6 DEF InstructionValid
  <2>2. /\ Places[c.at] \in 1..MainLength + 1
        /\ \A h \in DOMAIN code : Homes[h] = Top.id => (code[h].line < c.at <=> h < Places[c.at])
    BY <1>1, <2>1, LeaveFacts
  <2>3. new[g].at = Places[c.at] BY <1>2, <1>6 DEF IsMoved
  <2> HIDE DEF new, o, code
  <2>4. new[g].at \in 1..Len(new) + 1 BY <1>2, <2>2, <2>3
  <2>5. \A h \in DOMAIN new : Homes[h] = Homes[g] => (new[h].line < c.at <=> h < new[g].at)
    BY <1>2, <2>2, <2>3
  <2>6. JumpKept(g, c)' BY <1>2, <2>5 DEF JumpKept, new
  <2> QED BY <2>4, <2>6
<1> HIDE DEF new, o, b
<1>7. \A c : c = o =>
        /\ <<new[g].op, new[g].imm>> = <<c.op, c.imm>>
        /\ new[g].const = Shifted(c.const, b.consts) /\ new[g].name = Shifted(c.name, b.names)
        /\ new[g].fun = Shifted(c.fun, b.funs) /\ new[g].dest = Shifted(c.dest, b.regs)
        /\ new[g].args = [k \in DOMAIN c.args |-> c.args[k] + b.regs]
  BY <1>2 DEF IsMoved
<1>8. Origin(g)' = o BY <1>3 DEF o
<1> QED BY <1>4, <1>6, <1>7, <1>8 DEF MappedOK, new

\* The instructions stand where they stood, and those of the module are what
\* they are to be.
LEMMA LeavesCode ==
  ASSUME LinkerInv, LeaveModule
  PROVE  CodeOK' /\ DependenciesFirst'
<1> DEFINE n == Len(stack)
           code == linked.main.code
           new == linked'.main.code
<1>1. /\ verdict = "linking" /\ stack # <<>> /\ Top.local > Len(Unit.main.code)
      /\ expanded' = expanded \cup {Top.id} /\ modules' = modules /\ bases' = bases
  BY DEF LeaveModule
<1>2. CodeOK /\ DependenciesFirst BY <1>1, LinkingFacts
<1>3. /\ n \in Nat \ {0} /\ n \in DOMAIN stack /\ DOMAIN stack = 1..n
  BY <1>1, TopFacts
<1>4. /\ DOMAIN stack' = 1..n - 1 /\ \A k \in 1..n - 1 : k \in DOMAIN stack
      /\ \A k \in 1..n - 1 : SameFrame(stack'[k], stack[k])
  BY <1>3, LeavesStack
<1>5. /\ Homes' = Homes /\ DOMAIN new = DOMAIN code /\ Len(new) = Len(code)
      /\ \A g \in DOMAIN code : new[g].line = code[g].line /\ new[g].source = code[g].source
      /\ \A g \in DOMAIN code : Homes[g] # Top.id => new[g] = code[g]
  BY LeavesTables DEF MainLength
<1>6. \A l \in DOMAIN Unit.main.code :
         Places[l] \in DOMAIN code /\ Homes[Places[l]] = Top.id /\ code[Places[l]].line = l
  BY <1>1, LeaveFacts
<1> HIDE DEF new, code, n
<1>7. ASSUME NEW g \in DOMAIN code PROVE PlacedOK(g)' /\ (Homes[g] \in expanded' => MappedOK(g)')
  <2>1. PlacedOK(g) /\ (Homes[g] \in expanded => MappedOK(g)) BY <1>2 DEF CodeOK, code
  <2>2. Origin(g)' = Origin(g) BY <1>1, <1>5 DEF Origin, code, new
  <2>3. \A k \in DOMAIN stack' : stack'[k].id = Homes[g] => new[g].line < stack'[k].local
    <3> SUFFICES ASSUME NEW k \in DOMAIN stack', stack'[k].id = Homes[g]
                 PROVE  new[g].line < stack'[k].local
      OBVIOUS
    <3>1. k \in DOMAIN stack /\ stack'[k].id = stack[k].id /\ stack'[k].local = stack[k].local
      BY <1>4 DEF SameFrame
    <3>2. code[g].line < stack[k].local BY <2>1, <3>1 DEF PlacedOK, code
    <3> QED BY <1>5, <3>1, <3>2
  <2>4. /\ Homes[g] \in DOMAIN bases' /\ new[g].line \in DOMAIN modules'[Homes[g]].main.code
        /\ new[g].source = Origin(g).source + bases'[Homes[g]].sources
    BY <1>1, <1>5, <2>1 DEF PlacedOK, code
  <2>5. PlacedOK(g)' BY <1>5, <2>2, <2>3, <2>4 DEF PlacedOK, new
  <2>6. ASSUME Homes[g] = Top.id PROVE MappedOK(g)' BY <2>6, LeavesMapped DEF code
  <2>7. ASSUME Homes[g] # Top.id, Homes[g] \in expanded PROVE MappedOK(g)'
    <3>1. MappedOK(g) /\ new[g] = code[g] BY <1>5, <2>1, <2>7
    <3>2. \A o : JumpKept(g, o) => JumpKept(g, o)'
      <4> SUFFICES ASSUME NEW o, JumpKept(g, o), NEW h \in DOMAIN new, Homes[h] = Homes[g]
                   PROVE  new[h].line < o.at <=> h < new[g].at
        BY <1>5 DEF JumpKept, new
      <4>1. code[h].line < o.at <=> h < code[g].at BY <1>5 DEF JumpKept, code
      <4> QED BY <1>5, <3>1, <4>1
    <3>3. bases'[Homes'[g]] = bases[Homes[g]] BY <1>1, <1>5
    <3> QED BY <1>5, <2>2, <3>1, <3>2, <3>3 DEF MappedOK, code, new
  <2> QED BY <1>1, <2>5, <2>6, <2>7
<1>8. Complete'
  <2>1. ASSUME NEW id \in expanded', NEW l \in DOMAIN modules[id].main.code
        PROVE  \E g \in DOMAIN new : Homes'[g] = id /\ new[g].line = l
    <3>1. CASE id = Top.id
      <4>1. l \in DOMAIN Unit.main.code BY <3>1 DEF Unit
      <4> QED BY <1>5, <1>6, <3>1, <4>1
    <3>2. CASE id \in expanded
      <4>1. PICK g \in DOMAIN code : Homes[g] = id /\ code[g].line = l
        BY <1>2, <3>2 DEF CodeOK, Complete, code
      <4> QED BY <1>5, <4>1
    <3> QED BY <1>1, <3>1, <3>2
  <2> QED BY <1>1, <2>1 DEF Complete, new
<1>9. ASSUME NEW k \in DOMAIN stack' PROVE GlobalsOK(k)'
  <2>1. GlobalsOK(k) /\ SameFrame(stack'[k], stack[k]) BY <1>2, <1>4 DEF CodeOK
  <2>2. \A l \in 1..stack[k].local - 1 :
           LET g == stack[k].globals[l] IN
           /\ l \in DOMAIN stack[k].globals /\ g \in DOMAIN new
           /\ Homes'[g] = stack[k].id /\ new[g].line = l
    BY <1>5, <2>1 DEF GlobalsOK, code
  <2> QED BY <2>1, <2>2 DEF GlobalsOK, SameFrame, new
<1>10. CodeOK' BY <1>5, <1>7, <1>8, <1>9 DEF CodeOK, new
<1>11. ASSUME NEW g \in DOMAIN code PROVE StandsInOrder(new, Homes, modules, g)
  <2>1. StandsInOrder(code, Homes, modules, g) BY <1>2 DEF DependenciesFirst, StandsInOrder, code
  <2>2. \A h \in 1..g - 1 : h \in DOMAIN code
    <3>1. DOMAIN code = 1..MainLength /\ MainLength \in Nat BY <1>1, CodeIsSequence DEF MainLength, code
    <3> QED BY <3>1
  <2>3. new[g].line = code[g].line /\ \A h \in 1..g - 1 : new[h].line = code[h].line BY <1>5, <2>2
  <2> QED BY <2>1, <2>3, StandsInOrderKept
<1>12. DependenciesFirst'
  <2>1. \A g \in DOMAIN new : StandsInOrder(new, Homes', modules', g) BY <1>1, <1>5, <1>11
  <2> QED BY <2>1 DEF DependenciesFirst, StandsInOrder, new
<1> QED BY <1>10, <1>12

\* A module is expanded.
LEMMA LeaveModuleKeeps ==
  ASSUME LinkerInv, LeaveModule
  PROVE  LinkerInv'
<1>1. /\ verdict = "linking" /\ verdict' = "linking"
      /\ input' = input /\ given' = given /\ modules' = modules
  BY DEF LeaveModule
<1>2. StackOK' /\ GraphOK' BY LeavesFrames, LeavesGraph
<1>3. TablesOK' BY LeavesTables
<1>4. CodeOK' /\ DependenciesFirst' BY LeavesCode
<1> QED BY <1>1, <1>2, <1>3, <1>4, GoesOn

-----------------------------------------------------------------------------
(* The program is done.                                                    *)

\* An index that lies in a table lies in the part of a larger one.
LEMMA ShiftedIn ==
  ASSUME NEW b \in Nat, NEW n \in Nat, NEW c \in Nat, b + n <= c, NEW k \in 0..n,
         NEW j, j = Shifted(k, b)
  PROVE  j \in 0..c /\ (k # 0 <=> j # 0)
BY DEF Shifted

\* What is found there is what was found in the table.
LEMMA ShiftedEntry ==
  ASSUME NEW b \in Nat, NEW n \in Nat, NEW k \in 0..n, NEW j, j = Shifted(k, b),
         NEW table, NEW mine, \A e \in 1..n : table[b + e] = mine[e], NEW none
  PROVE  Entry(table, j, none) = Entry(mine, k, none)
<1>1. CASE k = 0 BY <1>1 DEF Shifted, Entry
<1>2. CASE k # 0
  <2>1. k \in 1..n /\ j = b + k /\ j # 0 BY <1>2 DEF Shifted
  <2>2. table[j] = mine[k] BY <2>1
  <2> QED BY <1>2, <2>1, <2>2 DEF Entry
<1> QED BY <1>1, <1>2

\* What an instruction of a module becomes, but for its registers and jumps.
InPart(j, i, b) ==
  /\ j.op = i.op /\ j.imm = i.imm
  /\ j.const = Shifted(i.const, b.consts) /\ j.name = Shifted(i.name, b.names)
  /\ j.fun = Shifted(i.fun, b.funs)

\* A module's part of the tables of a program: the sizes are numbers.
LEMMA PartTypes ==
  ASSUME NEW p \in Programs, NEW m \in ModuleArtifacts, NEW b, PartIn(p, m, b)
  PROVE  /\ b.consts \in Nat /\ b.names \in Nat /\ b.funs \in Nat /\ b.sources \in Nat /\ b.regs \in Nat
         /\ Len(m.consts) \in Nat /\ Len(m.names) \in Nat /\ Len(m.funs) \in Nat
         /\ Len(m.sources) \in Nat /\ m.main.regs \in Nat
         /\ Len(p.consts) \in Nat /\ Len(p.names) \in Nat /\ Len(p.funs) \in Nat
         /\ Len(p.sources) \in Nat /\ p.main.regs \in Nat
         /\ DOMAIN m.consts = 1..Len(m.consts) /\ DOMAIN m.names = 1..Len(m.names)
         /\ DOMAIN m.funs = 1..Len(m.funs) /\ DOMAIN m.sources = 1..Len(m.sources)
         /\ DOMAIN p.sources = 1..Len(p.sources)
<1>1. b \in Contexts BY DEF PartIn
<1>2. /\ m.consts \in Seq(Values) /\ m.names \in Seq(STRING) /\ m.sources \in Seq(STRING)
      /\ m.funs \in Seq(Bodies) /\ m.main.regs \in Nat
  BY ProductTypes
<1>3. /\ p.consts \in Seq(Values) /\ p.names \in Seq(STRING) /\ p.sources \in Seq(STRING)
      /\ p.funs \in Seq(Bodies) /\ p.main.regs \in Nat
  BY DEF Programs, Bodies
<1>4. b.consts \in Nat /\ b.names \in Nat /\ b.funs \in Nat /\ b.sources \in Nat /\ b.regs \in Nat
  BY <1>1 DEF Contexts
<1>5. \A S : \A s \in Seq(S) : Len(s) \in Nat /\ DOMAIN s = 1..Len(s) OBVIOUS
<1>6. /\ Len(m.consts) \in Nat /\ DOMAIN m.consts = 1..Len(m.consts)
      /\ Len(m.names) \in Nat /\ DOMAIN m.names = 1..Len(m.names)
      /\ Len(m.sources) \in Nat /\ DOMAIN m.sources = 1..Len(m.sources)
      /\ Len(m.funs) \in Nat /\ DOMAIN m.funs = 1..Len(m.funs)
  BY <1>2, <1>5
<1>7. /\ Len(p.consts) \in Nat /\ Len(p.names) \in Nat /\ Len(p.funs) \in Nat
      /\ Len(p.sources) \in Nat /\ DOMAIN p.sources = 1..Len(p.sources)
  BY <1>3, <1>5
<1> QED BY <1>2, <1>3, <1>4, <1>6, <1>7

\* What the instruction names lies in the tables of the program, and is what
\* it named in its module.
LEMMA PartNamed ==
  ASSUME NEW p \in Programs, NEW m \in ModuleArtifacts, NEW b, PartIn(p, m, b),
         NEW i \in ProductInstructions, NEW r, NEW c, InstructionValid(i, r, c, m),
         NEW j, InPart(j, i, b)
  PROVE  /\ j.const \in 0..Len(p.consts) /\ (j.op = "Constant" => j.const # 0)
         /\ j.name \in 0..Len(p.names)
         /\ j.fun \in 0..Len(p.funs) /\ (j.op = "MakeFunction" => j.fun # 0)
         /\ Names(p, j) = Names(m, i)
<1>1. /\ b.consts \in Nat /\ b.names \in Nat /\ b.funs \in Nat
      /\ Len(m.consts) \in Nat /\ Len(m.names) \in Nat /\ Len(m.funs) \in Nat
      /\ Len(p.consts) \in Nat /\ Len(p.names) \in Nat /\ Len(p.funs) \in Nat
      /\ DOMAIN m.consts = 1..Len(m.consts) /\ DOMAIN m.names = 1..Len(m.names)
  BY PartTypes
<1>2. i.const \in Nat /\ i.name \in Nat /\ i.fun \in Nat BY InstructionTypes
<1>3. /\ i.const \in 0..Len(m.consts) /\ (i.op = "Constant" => i.const # 0)
      /\ i.name \in 0..Len(m.names)
      /\ i.fun \in 0..Len(m.funs) /\ (i.op = "MakeFunction" => i.fun # 0)
  BY DEF InstructionValid
<1>4. /\ b.consts + Len(m.consts) <= Len(p.consts)
      /\ \A k \in DOMAIN m.consts : p.consts[b.consts + k] = m.consts[k]
      /\ b.names + Len(m.names) <= Len(p.names)
      /\ \A k \in DOMAIN m.names : p.names[b.names + k] = m.names[k]
      /\ b.funs + Len(m.funs) <= Len(p.funs)
  BY DEF PartIn
<1>5. /\ j.op = i.op /\ j.imm = i.imm
      /\ j.const = Shifted(i.const, b.consts) /\ j.name = Shifted(i.name, b.names)
      /\ j.fun = Shifted(i.fun, b.funs)
  BY DEF InPart
<1>6. /\ j.const \in 0..Len(p.consts) /\ (i.const # 0 <=> j.const # 0)
      /\ Entry(p.consts, j.const, Nil) = Entry(m.consts, i.const, Nil)
  <2> DEFINE b1 == b.consts
             n1 == Len(m.consts)
             c1 == Len(p.consts)
             k1 == i.const
             j1 == j.const
             table == p.consts
             mine == m.consts
             none == Nil
  <2>1. /\ b1 \in Nat /\ n1 \in Nat /\ c1 \in Nat /\ b1 + n1 <= c1 /\ k1 \in 0..n1
        /\ j1 = Shifted(k1, b1) /\ \A e \in 1..n1 : table[b1 + e] = mine[e]
    BY <1>1, <1>3, <1>4, <1>5
  <2> HIDE DEF b1, n1, c1, k1, j1, table, mine, none
  <2>2. j1 \in 0..c1 /\ (k1 # 0 <=> j1 # 0) BY <2>1, ShiftedIn
  <2>3. Entry(table, j1, none) = Entry(mine, k1, none) BY <2>1, ShiftedEntry
  <2> QED BY <2>2, <2>3 DEF c1, k1, j1, table, mine, none
<1>7. /\ j.name \in 0..Len(p.names) /\ (i.name # 0 <=> j.name # 0)
      /\ Entry(p.names, j.name, NoName) = Entry(m.names, i.name, NoName)
  <2> DEFINE b1 == b.names
             n1 == Len(m.names)
             c1 == Len(p.names)
             k1 == i.name
             j1 == j.name
             table == p.names
             mine == m.names
             none == NoName
  <2>1. /\ b1 \in Nat /\ n1 \in Nat /\ c1 \in Nat /\ b1 + n1 <= c1 /\ k1 \in 0..n1
        /\ j1 = Shifted(k1, b1) /\ \A e \in 1..n1 : table[b1 + e] = mine[e]
    BY <1>1, <1>3, <1>4, <1>5
  <2> HIDE DEF b1, n1, c1, k1, j1, table, mine, none
  <2>2. j1 \in 0..c1 /\ (k1 # 0 <=> j1 # 0) BY <2>1, ShiftedIn
  <2>3. Entry(table, j1, none) = Entry(mine, k1, none) BY <2>1, ShiftedEntry
  <2> QED BY <2>2, <2>3 DEF c1, k1, j1, table, mine, none
<1>8. j.fun \in 0..Len(p.funs) /\ (i.fun # 0 <=> j.fun # 0)
  <2> DEFINE b1 == b.funs
             n1 == Len(m.funs)
             c1 == Len(p.funs)
             k1 == i.fun
             j1 == j.fun
  <2>1. /\ b1 \in Nat /\ n1 \in Nat /\ c1 \in Nat /\ b1 + n1 <= c1 /\ k1 \in 0..n1
        /\ j1 = Shifted(k1, b1)
    BY <1>1, <1>3, <1>4, <1>5
  <2> HIDE DEF b1, n1, c1, k1, j1
  <2>2. j1 \in 0..c1 /\ (k1 # 0 <=> j1 # 0) BY <2>1, ShiftedIn
  <2> QED BY <2>2 DEF c1, k1, j1
<1>9. Names(p, j) = Names(m, i) BY <1>5, <1>6, <1>7 DEF Names
<1>10. (j.op = "Constant" => j.const # 0) /\ (j.op = "MakeFunction" => j.fun # 0)
  BY <1>3, <1>5, <1>6, <1>8
<1> QED BY <1>6, <1>7, <1>8, <1>9, <1>10

\* A source of a module is one of the program.
LEMMA PartSource ==
  ASSUME NEW p \in Programs, NEW m \in ModuleArtifacts, NEW b, PartIn(p, m, b),
         NEW k \in DOMAIN m.sources
  PROVE  k + b.sources \in DOMAIN p.sources
<1>1. /\ b.sources \in Nat /\ Len(m.sources) \in Nat /\ Len(p.sources) \in Nat
      /\ DOMAIN m.sources = 1..Len(m.sources) /\ DOMAIN p.sources = 1..Len(p.sources)
  BY PartTypes
<1>2. b.sources + Len(m.sources) <= Len(p.sources) BY DEF PartIn
<1>3. \A x, y, z \in Nat : x + y <= z => \A a \in 1..y : a + x \in 1..z OBVIOUS
<1> QED BY <1>1, <1>2, <1>3

\* When nothing is being expanded, what is expanded is what the entries need,
\* none of it on a cycle, and its registers fit.
LEMMA FinishGraph ==
  ASSUME LinkerInv, verdict = "linking", stack = <<>>, entries = <<>>
  PROVE  /\ DOMAIN bases = expanded /\ Needed = expanded
         /\ ~ Cyclic /\ RegistersIn(Needed) <= MaxIndex
<1>1. /\ GraphOK /\ TablesOK /\ input \in Links /\ ModulesOK(Len(input.products))
      /\ DOMAIN modules = Identities /\ DOMAIN bases \subseteq DOMAIN modules
      /\ \A id \in DOMAIN modules : modules[id] = Product1(id)
  BY LinkingFacts
<1>2. DOMAIN bases = expanded
  <2>1. Visiting = {} BY EmptyFunction DEF Visiting
  <2> QED BY <1>1, <2>1 DEF GraphOK
<1>3. \A id \in expanded : /\ Named(Product1(id)) \subseteq expanded
                           /\ id \notin NeededBy(Named(Product1(id)))
  BY <1>1, <1>2 DEF GraphOK
<1>4. EntryIds \subseteq expanded
  <2>1. ToSet(<<>>) = {} BY EmptyFunction DEF ToSet
  <2> QED BY <1>1, <1>2, <2>1 DEF GraphOK
<1>5. Needed = expanded
  <2>1. EntryIds = {m.id : m \in {x \in Given : x.order # NotEntry}} BY <1>1, EntryFacts
  <2>2. Needed = NeededBy(EntryIds) BY <2>1 DEF Needed
  <2>3. expanded \subseteq Identities /\ Closed(expanded) BY <1>1, <1>2, <1>3 DEF Closed
  <2>4. NeededBy(EntryIds) \subseteq expanded BY <1>4, <2>3, NeededLeast
  <2>5. expanded \subseteq Needed BY <1>1, <1>2 DEF GraphOK
  <2> QED BY <2>2, <2>4, <2>5
<1>6. ~ Cyclic BY <1>3, <1>5 DEF Cyclic
<1>7. RegistersIn(Needed) <= MaxIndex BY <1>1, <1>2, <1>5 DEF TablesOK
<1> QED BY <1>2, <1>5, <1>6, <1>7

\* The registers of an instruction are its module's, behind those of the
\* modules before.
LEMMA FinishRegisters ==
  ASSUME NEW i \in ProductInstructions, NEW n \in Nat, NEW r \in Nat, NEW all \in Nat, r + n <= all,
         i.dest \in 0..n, ToSet(i.args) \subseteq 1..n,
         NEW j, j.dest = Shifted(i.dest, r), j.args = [k \in DOMAIN i.args |-> i.args[k] + r]
  PROVE  /\ j.dest \in 0..all /\ ToSet(j.args) \subseteq 1..all
         /\ RegistersOf(j) \subseteq r + 1..r + n
<1>1. i.dest \in Nat BY InstructionTypes
<1>2. j.dest \in 0..all /\ (j.dest = 0 \/ j.dest \in r + 1..r + n)
  <2> DEFINE d == i.dest
             e == j.dest
  <2>1. d \in 0..n /\ e = IF d = 0 THEN 0 ELSE d + r BY DEF Shifted
  <2> HIDE DEF d, e
  <2>2. e \in 0..all /\ (e = 0 \/ e \in r + 1..r + n) BY <2>1
  <2> QED BY <2>2 DEF e
<1>3. ASSUME NEW x \in ToSet(j.args) PROVE x \in r + 1..r + n /\ x \in 1..all
  <2>1. PICK k \in DOMAIN j.args : x = j.args[k] BY DEF ToSet
  <2>2. k \in DOMAIN i.args /\ x = i.args[k] + r BY <2>1
  <2>3. i.args[k] \in 1..n BY <2>2 DEF ToSet
  <2>4. \A a \in 1..n : a + r \in r + 1..r + n /\ a + r \in 1..all OBVIOUS
  <2> QED BY <2>2, <2>3, <2>4
<1> QED BY <1>2, <1>3 DEF RegistersOf

\* An instruction of the program is valid there, names what it named in its
\* module and jumps where it jumped.
LEMMA FinishInstruction ==
  ASSUME LinkerInv, verdict = "linking", DOMAIN bases = expanded, NEW g \in DOMAIN linked.main.code
  PROVE  LET i == linked.main.code[g]
             m == modules[Homes[g]]
             o == m.main.code[i.line]
             r == bases[Homes[g]].regs
         IN /\ InstructionValid(i, linked.main.regs, Len(linked.main.code), linked)
            /\ i.source \in DOMAIN linked.sources
            /\ SameNames(i, m, o) /\ (IsJump(o.op) => JumpKept(g, o))
            /\ Homes[g] \in DOMAIN bases /\ RegistersOf(i) \subseteq r + 1..r + m.main.regs
<1> DEFINE i == linked.main.code[g]
           id == Homes[g]
           m == modules[id]
           o == m.main.code[i.line]
           b == bases[id]
<1>1. /\ id \in DOMAIN bases /\ id \in DOMAIN modules
      /\ o = Origin(g) /\ o \in ProductInstructions
      /\ InstructionValid(o, m.main.regs, Len(m.main.code), m)
      /\ o.source \in DOMAIN m.sources /\ i.source = o.source + b.sources
      /\ id \in expanded => MappedOK(g)
  <2>1. verdict \in {"linking", "linked"} OBVIOUS
  <2>2. id \in DOMAIN bases /\ id \in DOMAIN modules BY <2>1, Placed
  <2>3. o = Origin(g) BY <2>1, Placed
  <2>4. o \in ProductInstructions BY <2>1, Placed
  <2>5. InstructionValid(o, m.main.regs, Len(m.main.code), m) BY <2>1, Placed
  <2>6. o.source \in DOMAIN m.sources BY <2>1, Placed
  <2>7. i.source = o.source + b.sources
    <3>1. CodeOK BY LinkingFacts
    <3> QED BY <3>1 DEF CodeOK, PlacedOK, Origin
  <2>8. id \in expanded => MappedOK(g) BY <2>1, Placed
  <2> HIDE DEF i, id, m, o, b
  <2> QED BY <2>2, <2>3, <2>4, <2>5, <2>6, <2>7, <2>8
<1>2. /\ m \in ModuleArtifacts /\ m.id = id /\ TablesOK BY <1>1, LinkingFacts
<1>3. linked \in Programs /\ PartIn(linked, m, b) BY <1>1, <1>2 DEF TablesOK, PartOK
<1>4. MappedOK(g) BY <1>1
<1>5. /\ i.op = o.op /\ i.imm = o.imm
      /\ i.const = Shifted(o.const, b.consts) /\ i.name = Shifted(o.name, b.names)
      /\ i.fun = Shifted(o.fun, b.funs) /\ i.dest = Shifted(o.dest, b.regs)
      /\ i.args = [k \in DOMAIN o.args |-> o.args[k] + b.regs]
      /\ IsJump(o.op) => i.at \in 1..Len(linked.main.code) + 1 /\ JumpKept(g, o)
  BY <1>1, <1>4 DEF MappedOK
<1>6. /\ b.regs \in Nat /\ m.main.regs \in Nat /\ linked.main.regs \in Nat
      /\ b.regs + m.main.regs <= linked.main.regs
  <2> HIDE DEF m, b
  <2>1. b.regs \in Nat /\ m.main.regs \in Nat /\ linked.main.regs \in Nat BY <1>2, <1>3, PartTypes
  <2>2. b.regs + m.main.regs <= linked.main.regs BY <1>3 DEF PartIn
  <2> QED BY <2>1, <2>2
<1> HIDE DEF i, id, m, o, b
<1>7. /\ i.const \in 0..Len(linked.consts) /\ (i.op = "Constant" => i.const # 0)
      /\ i.name \in 0..Len(linked.names)
      /\ i.fun \in 0..Len(linked.funs) /\ (i.op = "MakeFunction" => i.fun # 0)
      /\ Names(linked, i) = Names(m, o)
  <2>1. InPart(i, o, b) BY <1>5 DEF InPart
  <2> QED BY <1>1, <1>2, <1>3, <2>1, PartNamed
<1>8. /\ i.dest \in 0..linked.main.regs /\ ToSet(i.args) \subseteq 1..linked.main.regs
      /\ RegistersOf(i) \subseteq b.regs + 1..b.regs + m.main.regs
  <2>1. o.dest \in 0..m.main.regs /\ ToSet(o.args) \subseteq 1..m.main.regs
    BY <1>1 DEF InstructionValid
  <2> QED BY <1>1, <1>5, <1>6, <2>1, FinishRegisters
<1>9. i.source \in DOMAIN linked.sources BY <1>1, <1>2, <1>3, PartSource
<1>10. InstructionValid(i, linked.main.regs, Len(linked.main.code), linked)
  BY <1>5, <1>7, <1>8 DEF InstructionValid
<1>11. SameNames(i, m, o)
  <2>1. bases[m.id].funs = b.funs BY <1>2 DEF b
  <2> QED BY <1>5, <1>7, <2>1 DEF SameNames
<1> QED BY <1>1, <1>5, <1>8, <1>9, <1>10, <1>11 DEF i, id, m, o, b

\* A function of a module is one of the program, where its instructions are
\* valid and name what they named.
LEMMA FinishFunction ==
  ASSUME LinkerInv, verdict = "linking", NEW id \in DOMAIN bases, NEW e \in DOMAIN modules[id].funs
  PROVE  LET m    == modules[id]
             f    == m.funs[e]
             body == linked.funs[bases[id].funs + e]
         IN /\ DOMAIN body.code = DOMAIN f.code
            /\ \A k \in DOMAIN body.code :
                 /\ InstructionValid(body.code[k], body.regs, Len(body.code), linked)
                 /\ body.code[k].source \in DOMAIN linked.sources
                 /\ SameNames(body.code[k], m, f.code[k])
                 /\ <<body.code[k].dest, body.code[k].args, body.code[k].at>>
                      = <<f.code[k].dest, f.code[k].args, f.code[k].at>>
<1> DEFINE m == modules[id]
           f == m.funs[e]
           b == bases[id]
           body == linked.funs[b.funs + e]
<1>1. m \in ModuleArtifacts /\ m.id = id /\ TablesOK /\ ProgramValid(m) BY LinkingFacts
<1>2. linked \in Programs /\ PartIn(linked, m, b) BY <1>1 DEF TablesOK, PartOK
<1>3. b \in Contexts /\ body = MovedFunctions(m, b)[e] BY <1>2 DEF PartIn
<1>4. bases[m.id].funs = b.funs BY <1>1
<1>5. f \in Bodies /\ BodyValid(f, m) BY <1>1, ProductTypes DEF ProgramValid
<1> HIDE DEF m, b
<1>6. /\ MovedFunctions(m, b) \in Seq(Bodies) /\ DOMAIN MovedFunctions(m, b) = DOMAIN m.funs
      /\ MovedFunctions(m, b)[e].regs = f.regs
      /\ MovedFunctions(m, b)[e].code = [k \in DOMAIN f.code |-> InTables(f.code[k], b)]
  <2>1. e \in DOMAIN m.funs BY DEF m
  <2> QED BY <1>1, <1>3, <2>1, FunctionsMoved
<1>7. body \in Bodies
  <2>1. e \in DOMAIN MovedFunctions(m, b) BY <1>6 DEF m
  <2> QED BY <1>3, <1>6, <2>1
<1>8. body.regs = f.regs /\ body.code = [k \in DOMAIN f.code |-> InTables(f.code[k], b)]
  BY <1>3, <1>6
<1> HIDE DEF body, f
<1>9. f.code \in Seq(ProductInstructions) /\ body.code \in Seq(ProductInstructions)
  BY <1>5, <1>7 DEF Bodies
<1>10. DOMAIN body.code = DOMAIN f.code /\ Len(body.code) = Len(f.code)
  <2> DEFINE s == body.code
             t == f.code
  <2>1. DOMAIN s = DOMAIN t /\ s \in Seq(ProductInstructions) /\ t \in Seq(ProductInstructions)
    BY <1>8, <1>9
  <2> HIDE DEF s, t
  <2>2. Len(s) = Len(t) BY <2>1, LenProperties
  <2> QED BY <2>1, <2>2 DEF s, t
<1>11. ASSUME NEW k \in DOMAIN f.code
       PROVE  /\ InstructionValid(body.code[k], body.regs, Len(body.code), linked)
              /\ body.code[k].source \in DOMAIN linked.sources
              /\ SameNames(body.code[k], m, f.code[k])
              /\ <<body.code[k].dest, body.code[k].args, body.code[k].at>>
                   = <<f.code[k].dest, f.code[k].args, f.code[k].at>>
  <2> DEFINE i == f.code[k]
             j == body.code[k]
  <2>1. i \in ProductInstructions /\ j = InTables(i, b) BY <1>8, <1>9
  <2>2. InstructionValid(i, f.regs, Len(f.code), m) /\ i.source \in DOMAIN m.sources
    BY <1>5 DEF BodyValid
  <2> HIDE DEF i, j
  <2>3. /\ j.op = i.op /\ j.dest = i.dest /\ j.args = i.args /\ j.at = i.at /\ j.imm = i.imm
        /\ j.const = Shifted(i.const, b.consts) /\ j.name = Shifted(i.name, b.names)
        /\ j.fun = Shifted(i.fun, b.funs) /\ j.source = i.source + b.sources
    BY <1>3, <2>1, InTablesFields
  <2>4. InPart(j, i, b) BY <2>3 DEF InPart
  <2>5. /\ j.const \in 0..Len(linked.consts) /\ (j.op = "Constant" => j.const # 0)
        /\ j.name \in 0..Len(linked.names)
        /\ j.fun \in 0..Len(linked.funs) /\ (j.op = "MakeFunction" => j.fun # 0)
        /\ Names(linked, j) = Names(m, i)
    BY <1>1, <1>2, <2>1, <2>2, <2>4, PartNamed
  <2>6. InstructionValid(j, f.regs, Len(f.code), linked)
    BY <2>2, <2>3, <2>5 DEF InstructionValid
  <2>7. j.source \in DOMAIN linked.sources BY <1>1, <1>2, <2>2, <2>3, PartSource
  <2>8. SameNames(j, m, i) BY <1>4, <2>3, <2>5 DEF SameNames
  <2>9. <<j.dest, j.args, j.at>> = <<i.dest, i.args, i.at>> BY <2>3
  <2>10. InstructionValid(j, body.regs, Len(body.code), linked) BY <1>8, <1>10, <2>6
  <2> QED BY <2>7, <2>8, <2>9, <2>10 DEF i, j
<1> QED BY <1>10, <1>11 DEF m, f, b, body

\* The program that was put together is valid: it is never refused.
LEMMA FinishValid ==
  ASSUME LinkerInv, verdict = "linking", DOMAIN bases = expanded
  PROVE  ProgramValid(linked)
<1>1. BodyValid(linked.main, linked)
  <2> SUFFICES ASSUME NEW g \in DOMAIN linked.main.code
               PROVE  /\ InstructionValid(linked.main.code[g], linked.main.regs,
                                          Len(linked.main.code), linked)
                      /\ linked.main.code[g].source \in DOMAIN linked.sources
    BY DEF BodyValid
  <2> QED BY FinishInstruction
<1>2. ASSUME NEW f \in DOMAIN linked.funs PROVE BodyValid(linked.funs[f], linked)
  <2>1. TablesOK BY LinkingFacts
  <2>2. PICK id \in DOMAIN bases : f - bases[id].funs \in DOMAIN modules[id].funs
    BY <2>1 DEF TablesOK
  <2> DEFINE e == f - bases[id].funs
             body == linked.funs[bases[id].funs + e]
  <2>3. bases[id].funs + e = f
    <3>1. bases[id].funs \in Nat BY <2>1 DEF TablesOK, PartOK, PartIn, Contexts
    <3>2. f \in Nat
      <4>1. linked.funs \in Seq(Bodies) BY <2>1 DEF TablesOK, Programs
      <4>2. \A s \in Seq(Bodies) : \A k \in DOMAIN s : k \in Nat OBVIOUS
      <4> QED BY <4>1, <4>2
    <3>3. \A x, y \in Nat : x + (y - x) = y OBVIOUS
    <3> QED BY <3>1, <3>2, <3>3
  <2>4. e \in DOMAIN modules[id].funs BY <2>2
  <2> HIDE DEF e
  <2>5. \A k \in DOMAIN body.code :
          /\ InstructionValid(body.code[k], body.regs, Len(body.code), linked)
          /\ body.code[k].source \in DOMAIN linked.sources
    BY <2>4, FinishFunction
  <2> QED BY <2>3, <2>5 DEF BodyValid
<1> QED BY <1>1, <1>2 DEF ProgramValid

\* The parts of the registers are apart, and what is named is kept.
LEMMA FinishNames ==
  ASSUME LinkerInv, verdict = "linking", DOMAIN bases = expanded
  PROVE  AllNamesKept
<1> DEFINE code == linked.main.code
<1>1. TablesOK /\ \A id \in DOMAIN bases : id \in DOMAIN modules /\ modules[id].id = id
  BY LinkingFacts
<1>2. ASSUME NEW id \in DOMAIN bases PROVE FunctionsKept(modules[id])
  <2>1. modules[id].id = id BY <1>1
  <2>2. \A e \in DOMAIN modules[id].funs :
          LET m    == modules[id]
              f    == m.funs[e]
              body == linked.funs[bases[id].funs + e]
          IN /\ DOMAIN body.code = DOMAIN f.code
             /\ \A k \in DOMAIN body.code :
                  /\ SameNames(body.code[k], m, f.code[k])
                  /\ <<body.code[k].dest, body.code[k].args, body.code[k].at>>
                       = <<f.code[k].dest, f.code[k].args, f.code[k].at>>
    BY FinishFunction
  <2> QED BY <2>1, <2>2 DEF FunctionsKept
<1>3. ASSUME NEW g \in DOMAIN code, NEW h \in DOMAIN code, Homes[g] # Homes[h]
      PROVE  RegistersOf(code[g]) \cap RegistersOf(code[h]) = {}
  <2> DEFINE r == bases[Homes[g]].regs
             s == bases[Homes[h]].regs
             p == modules[Homes[g]].main.regs
             q == modules[Homes[h]].main.regs
  <2>1. Homes[g] \in DOMAIN bases /\ RegistersOf(code[g]) \subseteq r + 1..r + p
    BY FinishInstruction
  <2>2. Homes[h] \in DOMAIN bases /\ RegistersOf(code[h]) \subseteq s + 1..s + q
    BY FinishInstruction
  <2>3. r + p <= s \/ s + q <= r BY <1>1, <1>3, <2>1, <2>2 DEF TablesOK, Apart
  <2>4. r \in Nat /\ s \in Nat /\ p \in Nat /\ q \in Nat
    <3>1. \A id \in DOMAIN bases : bases[id].regs \in Nat
      BY <1>1 DEF TablesOK, PartOK, PartIn, Contexts
    <3>2. \A id \in DOMAIN bases : modules[id].main.regs \in Nat BY LinkingFacts, ProductTypes
    <3> QED BY <2>1, <2>2, <3>1, <3>2
  <2> HIDE DEF r, s, p, q
  <2>5. (r + 1..r + p) \cap (s + 1..s + q) = {} BY <2>3, <2>4
  <2> QED BY <2>1, <2>2, <2>5
<1>4. \A g \in DOMAIN code :
         LET m == modules[Homes[g]]
             original == m.main.code[code[g].line]
         IN SameNames(code[g], m, original) /\ (IsJump(original.op) => JumpKept(g, original))
  BY FinishInstruction
<1> QED BY <1>2, <1>3, <1>4 DEF AllNamesKept

\* What the verdict is on stays, and so does what it says of it.
LEMMA ProductsStay ==
  ASSUME input' = input
  PROVE  /\ WellFormed' <=> WellFormed
         /\ Cyclic' <=> Cyclic
         /\ RegistersIn(Needed)' = RegistersIn(Needed)
<1>1. Needed' = Needed BY InputKept
<1>2. RegistersIn(Needed)' = RegistersIn(Needed) BY <1>1 DEF RegistersIn
<1> QED BY <1>2, InputKept

\* A step that changes none of the linker's tables keeps what holds of them.
LEMMA LinkingStays ==
  ASSUME LinkerInv, verdict \in {"linking", "linked"}, verdict' \in {"linking", "linked"},
         UNCHANGED <<input, given, modules, entries, stack, expanded, order, linked, bases>>
  PROVE  (ReadOK /\ Linking /\ DependenciesFirst /\ TypeOK)'
<1>1. /\ input \in Links /\ given = <<>> /\ ReadOK /\ WellFormed
      /\ StackOK /\ GraphOK /\ TablesOK /\ CodeOK /\ DependenciesFirst
  BY LinkingFacts
<1>2. Homes' = Homes BY DEF Homes
<1>3. Visiting' = Visiting BY DEF Visiting
<1>4. StackOK' BY <1>1, <1>3 DEF StackOK, FrameOK
<1>5. GraphOK'
  <2>1. Needed' = Needed /\ (\A ids : NeededBy(ids)' = NeededBy(ids)) BY InputKept
  <2>2. EntryIds' = EntryIds BY DEF EntryIds
  <2>3. ToSet(order)' = ToSet(order) /\ (IsInjective(order)' <=> IsInjective(order))
        /\ ToSet(entries)' = ToSet(entries)
    BY DEF ToSet, IsInjective
  <2> QED BY <1>1, <1>3, <2>1, <2>2, <2>3 DEF GraphOK
<1>6. TablesOK' BY <1>1, TablesStay
<1>7. CodeOK'
  <2>1. \A k \in DOMAIN stack : SameFrame(stack'[k], stack[k]) BY DEF SameFrame
  <2> QED BY <1>1, <1>2, <2>1, CodeStays
<1>8. DependenciesFirst' BY <1>1, <1>2, OrderStays
<1>9. ReadOK' BY <1>1 DEF ReadOK, ModulesOK
<1>10. WellFormed' BY <1>1, ProductsStay
<1>11. Linking' BY <1>1, <1>4, <1>5, <1>6, <1>7, <1>10 DEF Linking
<1>12. TypeOK' BY <1>4, <1>5, TypesFollow
<1> QED BY <1>8, <1>9, <1>11, <1>12

\* So does what the program keeps of the modules.
LEMMA NamesStay ==
  ASSUME UNCHANGED <<modules, linked, bases>>
  PROVE  AllNamesKept' <=> AllNamesKept
<1>1. Homes' = Homes BY DEF Homes
<1> QED BY <1>1 DEF AllNamesKept, SameNames, Names, FunctionsKept, JumpKept

\* The expansion is done: the program is linked, and rightly so.
LEMMA FinishKeeps ==
  ASSUME LinkerInv, Finish
  PROVE  LinkerInv'
<1>1. /\ verdict = "linking" /\ stack = <<>> /\ entries = <<>>
      /\ verdict' = IF ProgramValid(linked) THEN "linked" ELSE "invalidLinked"
      /\ UNCHANGED <<input, given, modules, entries, stack, expanded, order, linked, bases>>
  BY DEF Finish
<1>2. /\ DOMAIN bases = expanded /\ Needed = expanded
      /\ ~ Cyclic /\ RegistersIn(Needed) <= MaxIndex
  BY <1>1, FinishGraph
<1>3. ProgramValid(linked) BY <1>1, <1>2, FinishValid
<1>4. verdict' = "linked" BY <1>1, <1>3
<1>5. /\ input \in Links /\ given = <<>> /\ ReadOK /\ WellFormed
      /\ StackOK /\ GraphOK /\ TablesOK /\ CodeOK /\ DependenciesFirst
  BY <1>1, LinkingFacts
<1>6. /\ Homes' = Homes /\ (WellFormed' <=> WellFormed) /\ (Cyclic' <=> Cyclic)
      /\ Needed' = Needed /\ \A ids : RegistersIn(ids)' = RegistersIn(ids)
  BY <1>1, InputKept DEF Homes
<1>7. VerdictExact'
  <2>1. WellFormed' /\ ~ Cyclic' /\ RegistersIn(Needed)' <= MaxIndex
    BY <1>1, <1>2, <1>5, ProductsStay
  <2> QED BY <1>4, <2>1 DEF VerdictExact, Refusals
<1>8. (ReadOK /\ Linking /\ DependenciesFirst /\ TypeOK)' BY <1>1, <1>4, LinkingStays
<1>9. NamesKept'
  <2>1. AllNamesKept BY <1>1, <1>2, FinishNames
  <2>2. AllNamesKept' BY <1>1, <2>1, NamesStay
  <2> QED BY <2>2 DEF NamesKept
<1> QED BY <1>1, <1>4, <1>5, <1>7, <1>8, <1>9 DEF LinkerInv, CanGoOn

\* Nothing happens.
LEMMA StutterKeeps ==
  ASSUME LinkerInv, UNCHANGED vars
  PROVE  LinkerInv'
<1>1. UNCHANGED <<input, given, modules, entries, stack, expanded, order, linked, bases, verdict>>
  BY DEF vars
<1>2. /\ input \in Links /\ TypeOK /\ DependenciesFirst /\ VerdictExact
      /\ verdict \in CanGoOn => ReadOK
      /\ verdict = "linked" => stack = <<>> /\ NamesKept
  BY DEF LinkerInv
<1>3. TypeOK'
  <2>1. Visiting' = Visiting BY <1>1 DEF Visiting
  <2>2. ToSet(order)' = ToSet(order) /\ (IsInjective(order)' <=> IsInjective(order))
    BY <1>1 DEF ToSet, IsInjective
  <2> QED BY <1>1, <1>2, <2>1, <2>2 DEF TypeOK
<1>4. Homes' = Homes BY <1>1 DEF Homes
<1>5. DependenciesFirst' BY <1>1, <1>2, <1>4, OrderStays
<1>6. verdict' \in CanGoOn => ReadOK' BY <1>1, <1>2 DEF ReadOK, ModulesOK
<1>7. verdict' \in {"linking", "linked"} => Linking' BY <1>1, LinkingStays
<1>8. verdict' = "linked" => stack' = <<>> /\ NamesKept'
  <2> SUFFICES ASSUME verdict' = "linked" PROVE stack' = <<>> /\ NamesKept' OBVIOUS
  <2>1. AllNamesKept BY <1>1, <1>2 DEF NamesKept
  <2>2. AllNamesKept' BY <1>1, <2>1, NamesStay
  <2>3. NamesKept' BY <2>2 DEF NamesKept
  <2> QED BY <1>1, <1>2, <2>3
<1>9. VerdictExact' BY <1>1, <1>2, ProductsStay DEF VerdictExact
<1> QED BY <1>1, <1>2, <1>3, <1>5, <1>6, <1>7, <1>8, <1>9 DEF LinkerInv

-----------------------------------------------------------------------------
(* The theorems.                                                           *)

\* Init and every step keep the invariant: each product is where it was read,
\* each module's part of the tables is where its context says, and what is
\* expanded stands complete in the program.
THEOREM LinkerInvariant == Spec => []LinkerInv
<1>1. Init => LinkerInv BY InitKeeps
<1>2. LinkerInv /\ [Next]_vars => LinkerInv'
  <2> SUFFICES ASSUME LinkerInv, [Next]_vars PROVE LinkerInv' OBVIOUS
  <2>1. CASE Admit BY <2>1, AdmitKeeps
  <2>2. CASE CheckSet BY <2>2, CheckSetKeeps
  <2>3. CASE EnterEntry BY <2>3, EnterEntryKeeps
  <2>4. CASE EmitInstruction BY <2>4, EmitInstructionKeeps
  <2>5. CASE ReachDependency BY <2>5, ReachDependencyKeeps
  <2>6. CASE LeaveModule BY <2>6, LeaveModuleKeeps
  <2>7. CASE Finish BY <2>7, FinishKeeps
  <2>8. CASE UNCHANGED vars BY <2>8, StutterKeeps
  <2> QED BY <2>1, <2>2, <2>3, <2>4, <2>5, <2>6, <2>7, <2>8 DEF Next
<1> QED BY <1>1, <1>2, PTL DEF Spec

\* link_modules links a list of products exactly if it is well-formed, what
\* its entries need has no cycle and its registers fit, refuses it for a
\* reason that is there, and never finds its own result invalid.
THEOREM LinkerVerdictExact == Spec => []VerdictExact
<1>1. LinkerInv => VerdictExact BY DEF LinkerInv
<1> QED BY <1>1, LinkerInvariant, PTL

\* In what the linker has put together every module stands once and in its
\* order, behind what its dependencies had to run before, and once the
\* program is linked every instruction names the constant, the name and the
\* function it named, jumps where it jumped and has registers of its own.
THEOREM LinkerExpansionSound == Spec => []ExpansionSound
<1>1. LinkerInv => ExpansionSound
  <2> SUFFICES ASSUME LinkerInv PROVE ExpansionSound OBVIOUS
  <2>1. TypeOK /\ DependenciesFirst /\ (verdict = "linked" => NamesKept) BY DEF LinkerInv
  <2>2. NamesKept BY <2>1 DEF NamesKept
  <2> QED BY <2>1, <2>2 DEF ExpansionSound
<1> QED BY <1>1, LinkerInvariant, PTL

=============================================================================
