------------------------- MODULE ModuleCacheProofs -------------------------
(***************************************************************************)
(* What holds of the module-product cache for every module graph, every    *)
(* source history and every bound: a product is a compilation of what its  *)
(* file name says, and the front end never leaves a body unparsed that the *)
(* planner of a default-level build of non-entry modules wants lowered.    *)
(***************************************************************************)
EXTENDS ModuleCache, WellFoundedInduction, TLAPS

\* Induction over the natural numbers, stated with a set.
LEMMA NatSetInduction ==
  ASSUME NEW P, 0 \in P, \A n \in Nat : n \in P => n + 1 \in P
  PROVE  Nat \subseteq P
<1> DEFINE Below == OpToRel(<, Nat)
           Rest == Nat \ P
<1>1. IsWellFoundedOn(Below, Nat) BY NatLessThanWellFounded
<1>2. \A n \in Rest : n - 1 \in Rest /\ <<n - 1, n>> \in Below BY DEF OpToRel
<1> HIDE DEF Below
<1> QED BY <1>1, <1>2, WFMin

-----------------------------------------------------------------------------
(* The two recursions over the module graph.                               *)

\* loadFile decides the modules in load order, each from the ones before it.
LEMMA PreloadedUpToDef ==
  ASSUME NEW entry
  PROVE  /\ PreloadedUpTo(entry)[0] = {}
         /\ \A n \in 1..N : PreloadedUpTo(entry)[n] =
              PreloadedUpTo(entry)[n-1]
                \cup {m \in {n} \ {entry} : Preloadable(m, PreloadedUpTo(entry)[n-1])}
<1> DEFINE Step(X, n) == X \cup {m \in {n} \ {entry} : Preloadable(m, X)}
           Rule(f, j) == [n \in 0..j |-> IF n = 0 THEN {} ELSE Step(f[n-1], n)]
           Good == {j \in Nat : \E f : f = Rule(f, j)}
<1>1. 0 \in Good
  <2>1. [n \in 0..0 |-> {}] = Rule([n \in 0..0 |-> {}], 0)
    <3> HIDE DEF Step
    <3> QED OBVIOUS
  <2> QED BY <2>1
<1>2. ASSUME NEW j \in Nat, j \in Good PROVE j + 1 \in Good
  <2> HIDE DEF Step
  <2>1. PICK f : f = Rule(f, j) BY <1>2
  <2> DEFINE g == [n \in 0..(j+1) |-> IF n <= j THEN f[n] ELSE Step(f[n-1], n)]
  <2>2. \A n \in 0..j : f[n] = IF n = 0 THEN {} ELSE Step(f[n-1], n) BY <2>1
  <2>3. \A n \in 0..j : g[n] = f[n] OBVIOUS
  <2>4. \A n \in 1..(j+1) : g[n-1] = f[n-1] OBVIOUS
  <2>5. \A n \in 0..(j+1) : g[n] = IF n = 0 THEN {} ELSE Step(g[n-1], n)
    <3> TAKE n \in 0..(j+1)
    <3>1. CASE n <= j BY <3>1, <2>2, <2>3, <2>4
    <3>2. CASE n = j + 1 BY <3>2, <2>4
    <3> QED BY <3>1, <3>2
  <2> HIDE DEF g
  <2>6. g = Rule(g, j + 1) BY <2>5 DEF g
  <2>7. \E h : h = Rule(h, j + 1)
    <3> HIDE DEF Rule
    <3> WITNESS g
    <3> QED BY <2>6
  <2> HIDE DEF Rule
  <2> QED BY <2>7
<1>3. N \in Good BY <1>1, <1>2, GraphAssumption, NatSetInduction
<1>4. PICK f : f = Rule(f, N) BY <1>3
<1>5. PreloadedUpTo(entry) = Rule(PreloadedUpTo(entry), N)
  BY <1>4 DEF PreloadedUpTo
<1> DEFINE p == PreloadedUpTo(entry)
<1> HIDE DEF p
<1>6. p = Rule(p, N) BY <1>5 DEF p
<1>7. ASSUME NEW n \in 0..N
      PROVE  p[n] = IF n = 0 THEN {} ELSE Step(p[n-1], n)
  <2> HIDE DEF Step
  <2> QED BY <1>6
<1>8. p[0] = {} /\ \A n \in 1..N : p[n] = Step(p[n-1], n)
  <2> HIDE DEF Step
  <2>1. 0 \in 0..N BY GraphAssumption
  <2>2. \A n \in 1..N : n \in 0..N /\ n # 0 OBVIOUS
  <2> QED BY <1>7, <2>1, <2>2
<1> QED BY <1>8 DEF p
\* planModuleCacheBuild marks a module after its dependencies.
LEMMA PublicImpactUpToDef ==
  ASSUME NEW key
  PROVE  /\ PublicImpactUpTo(key)[0] = {}
         /\ \A n \in 1..N : PublicImpactUpTo(key)[n] =
              PublicImpactUpTo(key)[n-1]
                \cup {m \in {n} : Impacted(key, m, PublicImpactUpTo(key)[n-1])}
<1> DEFINE Step(X, n) == X \cup {m \in {n} : Impacted(key, m, X)}
           Rule(f, j) == [n \in 0..j |-> IF n = 0 THEN {} ELSE Step(f[n-1], n)]
           Good == {j \in Nat : \E f : f = Rule(f, j)}
<1>1. 0 \in Good
  <2>1. [n \in 0..0 |-> {}] = Rule([n \in 0..0 |-> {}], 0)
    <3> HIDE DEF Step
    <3> QED OBVIOUS
  <2> QED BY <2>1
<1>2. ASSUME NEW j \in Nat, j \in Good PROVE j + 1 \in Good
  <2> HIDE DEF Step
  <2>1. PICK f : f = Rule(f, j) BY <1>2
  <2> DEFINE g == [n \in 0..(j+1) |-> IF n <= j THEN f[n] ELSE Step(f[n-1], n)]
  <2>2. \A n \in 0..j : f[n] = IF n = 0 THEN {} ELSE Step(f[n-1], n) BY <2>1
  <2>3. \A n \in 0..j : g[n] = f[n] OBVIOUS
  <2>4. \A n \in 1..(j+1) : g[n-1] = f[n-1] OBVIOUS
  <2>5. \A n \in 0..(j+1) : g[n] = IF n = 0 THEN {} ELSE Step(g[n-1], n)
    <3> TAKE n \in 0..(j+1)
    <3>1. CASE n <= j BY <3>1, <2>2, <2>3, <2>4
    <3>2. CASE n = j + 1 BY <3>2, <2>4
    <3> QED BY <3>1, <3>2
  <2> HIDE DEF g
  <2>6. g = Rule(g, j + 1) BY <2>5 DEF g
  <2>7. \E h : h = Rule(h, j + 1)
    <3> HIDE DEF Rule
    <3> WITNESS g
    <3> QED BY <2>6
  <2> HIDE DEF Rule
  <2> QED BY <2>7
<1>3. N \in Good BY <1>1, <1>2, GraphAssumption, NatSetInduction
<1>4. PICK f : f = Rule(f, N) BY <1>3
<1>5. PublicImpactUpTo(key) = Rule(PublicImpactUpTo(key), N)
  BY <1>4 DEF PublicImpactUpTo
<1> DEFINE p == PublicImpactUpTo(key)
<1> HIDE DEF p
<1>6. p = Rule(p, N) BY <1>5 DEF p
<1>7. ASSUME NEW n \in 0..N
      PROVE  p[n] = IF n = 0 THEN {} ELSE Step(p[n-1], n)
  <2> HIDE DEF Step
  <2> QED BY <1>6
<1>8. p[0] = {} /\ \A n \in 1..N : p[n] = Step(p[n-1], n)
  <2> HIDE DEF Step
  <2>1. 0 \in 0..N BY GraphAssumption
  <2>2. \A n \in 1..N : n \in 0..N /\ n # 0 OBVIOUS
  <2> QED BY <1>7, <2>1, <2>2
<1> QED BY <1>8 DEF p
-----------------------------------------------------------------------------
(* What preloading and planning promise.                                   *)

\* A preloaded module is not the entry, its sidecar is trusted, and every
\* dependency is preloaded with the interface the sidecar names.
LEMMA PreloadedFacts ==
  ASSUME NEW entry, NEW m \in Preloaded(entry)
  PROVE  /\ m \in Modules \cap Reach(entry)
         /\ m # entry
         /\ Trusted(m)
         /\ Imports[m] \subseteq Preloaded(entry)
         /\ \A d \in Imports[m] : sidecar[d].interface = sidecar[m].imports[d]
<1> DEFINE p == PreloadedUpTo(entry)
           Sound(X) == \A x \in X : /\ x # entry
                                    /\ Trusted(x)
                                    /\ Imports[x] \subseteq X
                                    /\ \A d \in Imports[x] :
                                          sidecar[d].interface = sidecar[x].imports[d]
           Good == {n \in Nat : n <= N => Sound(p[n])}
<1>1. /\ p[0] = {}
      /\ \A n \in 1..N : p[n] = p[n-1] \cup {x \in {n} \ {entry} : Preloadable(x, p[n-1])}
  BY PreloadedUpToDef
<1> HIDE DEF p
<1>2. 0 \in Good BY <1>1
<1>3. ASSUME NEW n \in Nat, n \in Good PROVE n + 1 \in Good
  <2> SUFFICES ASSUME n + 1 <= N PROVE Sound(p[n+1]) OBVIOUS
  <2>1. Sound(p[n]) BY <1>3, GraphAssumption
  <2>2. p[n+1] = p[n] \cup {x \in {n+1} \ {entry} : Preloadable(x, p[n])}
    <3>1. n + 1 \in 1..N /\ (n + 1) - 1 = n BY GraphAssumption
    <3> QED BY <1>1, <3>1
  <2> QED BY <2>1, <2>2 DEF Preloadable
<1>4. N \in Good BY <1>2, <1>3, GraphAssumption, NatSetInduction
<1>5. Sound(p[N]) BY <1>4, GraphAssumption
<1>6. Preloaded(entry) = p[N] \cap Reach(entry) BY DEF Preloaded, p
<1>7. m \in Modules \cap Reach(entry) BY <1>6 DEF Reach
<1>8. Imports[m] \subseteq Reach(entry)
  <2> SUFFICES ASSUME NEW d \in Imports[m] PROVE d \in Reach(entry) OBVIOUS
  <2>1. d \in Modules BY <1>7, GraphAssumption
  <2> QED BY <1>7, <2>1 DEF Reach, Closed
<1> QED BY <1>5, <1>6, <1>7, <1>8

\* No preloaded module has public impact: its interface is the recorded one,
\* and so is that of everything it reaches.
LEMMA PreloadedUnimpacted ==
  ASSUME NEW entry, NEW level
  PROVE  Preloaded(entry) \cap PublicImpact(Plan(entry, level).key) = {}
<1> DEFINE key == Plan(entry, level).key
           P == Preloaded(entry)
           i == PublicImpactUpTo(key)
           Good == {n \in Nat : n <= N => P \cap i[n] = {}}
<1>1. ASSUME NEW m \in P PROVE ~InterfaceChanged(key, m)
  <2>0. Trusted(m) BY <1>1, PreloadedFacts
  <2>1. m \in DOMAIN manifest /\ manifest[m].interface = sidecar[m].interface
    BY <2>0 DEF Trusted, Recorded, SidecarKey
  <2>2. m \in Reach(entry) BY <1>1, PreloadedFacts
  <2>3. key[m].interface = sidecar[m].interface BY <1>1, <2>2 DEF Plan
  <2> QED BY <2>1, <2>3 DEF InterfaceChanged
<1>2. \A m \in P : Imports[m] \subseteq P BY PreloadedFacts
<1> HIDE DEF key, P
<1>3. /\ i[0] = {}
      /\ \A n \in 1..N : i[n] = i[n-1] \cup {m \in {n} : Impacted(key, m, i[n-1])}
  BY PublicImpactUpToDef
<1> HIDE DEF i
<1>4. 0 \in Good BY <1>3
<1>5. ASSUME NEW n \in Nat, n \in Good PROVE n + 1 \in Good
  <2> SUFFICES ASSUME n + 1 <= N PROVE P \cap i[n+1] = {} OBVIOUS
  <2>1. P \cap i[n] = {} BY <1>5, GraphAssumption
  <2>2. i[n+1] = i[n] \cup {m \in {n+1} : Impacted(key, m, i[n])}
    <3>1. n + 1 \in 1..N /\ (n + 1) - 1 = n BY GraphAssumption
    <3> QED BY <1>3, <3>1
  <2>3. \A m \in P : ~Impacted(key, m, i[n]) BY <1>1, <1>2, <2>1 DEF Impacted
  <2> QED BY <2>1, <2>2, <2>3
<1>6. N \in Good BY <1>4, <1>5, GraphAssumption, NatSetInduction
<1> QED BY <1>6, GraphAssumption DEF PublicImpact, key, P, i

-----------------------------------------------------------------------------
(* The inductive invariant.                                                *)

\* A key is about its module: the shape buildModuleCacheModules gives it.
KeyOf(m, k) ==
    /\ k.module = m
    /\ k.source \in DOMAIN Declares[m]
    /\ k.entry \in BOOLEAN
    /\ k.imports = [d \in Imports[m] |-> k.imports[d]]

\* So is a sidecar.
SidecarsOK ==
    \A m \in Modules : sidecar[m] # NoFile =>
        /\ sidecar[m].source \in DOMAIN Declares[m]
        /\ sidecar[m].entry \in BOOLEAN
        /\ sidecar[m].imports = [d \in Imports[m] |-> sidecar[m].imports[d]]

BuildFields == {"stage", "entry", "level", "preloaded", "names", "next", "key",
                "reused", "todo", "output"}

\* A running build holds a key per module of its graph, at its level, and the
\* names of every body it parsed include the names its interface shows.
BuildOK ==
    Running =>
        /\ BuildFields \subseteq DOMAIN build
        /\ build.todo \subseteq Graph
        /\ Graph \subseteq Modules
        /\ \A m \in Graph :
              /\ KeyOf(m, build.key[m])
              /\ build.key[m].level = build.level
              /\ m \notin build.preloaded => build.key[m].interface \subseteq build.names[m]

IInv == TypeOK /\ SidecarsOK /\ BuildOK /\ PreloadedReusedAtDefault

\* The two tests agree: a preloaded module whose record says neither another
\* level nor an entry is one the planner reuses.
LEMMA PreloadedReusable ==
  ASSUME SidecarsOK, NEW entry, NEW m \in Preloaded(entry), ~manifest[m].entry
  PROVE  m \in Reusable(Plan(entry, DefaultLevel).key)
<1> DEFINE key == Plan(entry, DefaultLevel).key
<1>1. /\ m \in Modules \cap Reach(entry)
      /\ m # entry
      /\ Trusted(m)
      /\ Imports[m] \subseteq Preloaded(entry)
      /\ \A d \in Imports[m] : sidecar[d].interface = sidecar[m].imports[d]
  BY PreloadedFacts
<1>2. \A d \in Imports[m] : d \in Reach(entry) BY <1>1, PreloadedFacts
<1>3. key[m] = [module |-> m, source |-> source[m],
                interface |-> sidecar[m].interface, level |-> DefaultLevel,
                entry |-> FALSE,
                imports |-> [d \in Imports[m] |-> sidecar[d].interface]]
  BY <1>1, <1>2 DEF Plan
<1>4. /\ sidecar[m] # NoFile
      /\ sidecar[m].source = source[m]
      /\ m \in DOMAIN manifest
      /\ manifest[m] = SidecarKey(m)
      /\ SidecarKey(m) \in DOMAIN products
  BY <1>1 DEF Trusted, Recorded
<1>5. key[m] = SidecarKey(m)
  <2>1. sidecar[m].entry = FALSE
    BY <1>1, <1>4 DEF SidecarKey, SidecarsOK
  <2>2. sidecar[m].imports = [d \in Imports[m] |-> sidecar[m].imports[d]]
    BY <1>1, <1>4 DEF SidecarsOK
  <2>3. sidecar[m].imports = [d \in Imports[m] |-> sidecar[d].interface]
    BY <1>1, <2>2
  <2> QED BY <1>3, <1>4, <2>1, <2>3 DEF SidecarKey
<1>6. m \in DOMAIN key BY <1>1 DEF Plan
<1>7. Imports[m] \cap PublicImpact(key) = {}
  BY <1>1, PreloadedUnimpacted
<1> QED BY <1>4, <1>5, <1>6, <1>7 DEF Reusable
\* Planning a build establishes what the steps of the build rely on.
LEMMA PlanOK ==
  ASSUME IInv, NEW entry, NEW level, build' = Plan(entry, level),
         UNCHANGED <<source, manifest, sidecar, products>>
  PROVE  BuildOK' /\ PreloadedReusedAtDefault'
<1> DEFINE b == Plan(entry, level)
           P == Preloaded(entry)
<1>1. /\ b.stage = "products"
      /\ b.level = level
      /\ b.preloaded = P
      /\ b.todo = Reach(entry)
      /\ b.reused = Reusable(b.key)
      /\ DOMAIN b.key = Reach(entry)
      /\ BuildFields \subseteq DOMAIN b
  BY DEF Plan, BuildFields
<1>2. Reach(entry) \subseteq Modules BY DEF Reach
<1>3. ASSUME NEW m \in Reach(entry)
      PROVE  /\ KeyOf(m, b.key[m])
             /\ b.key[m].level = level
             /\ m \notin P => b.key[m].interface \subseteq b.names[m]
  <2>1. source[m] \in DOMAIN Declares[m] BY <1>2, <1>3 DEF IInv, TypeOK
  <2>2. PICK interface :
          b.key[m] = [module |-> m, source |-> source[m],
                      interface |-> interface[m], level |-> level,
                      entry |-> m = entry,
                      imports |-> [d \in Imports[m] |-> interface[d]]]
    BY <1>3 DEF Plan
  <2>3. KeyOf(m, b.key[m]) /\ b.key[m].level = level BY <2>1, <2>2 DEF KeyOf
  <2>4. ASSUME m \notin P PROVE b.key[m].interface \subseteq b.names[m]
    <3>1. \A start : PublicNames(m, start) \subseteq AllNames(m, start)
      BY DEF PublicNames, AllNames, Names
    <3>2. \E start : b.key[m].interface = PublicNames(m, start)
                     /\ b.names[m] = AllNames(m, start)
      BY <1>3, <2>4 DEF Plan
    <3> QED BY <3>1, <3>2
  <2> QED BY <2>3, <2>4
<1>4. ASSUME NEW m \in P \ Reusable(b.key), level = DefaultLevel
      PROVE  m \in DOMAIN manifest /\ manifest[m].entry
  <2>1. Trusted(m) BY <1>4, PreloadedFacts
  <2>2. m \in DOMAIN manifest BY <2>1 DEF Trusted, Recorded
  <2>3. SidecarsOK BY DEF IInv
  <2>4. m \notin Reusable(Plan(entry, DefaultLevel).key) BY <1>4
  <2> QED BY <1>4, <2>2, <2>3, <2>4, PreloadedReusable
<1> HIDE DEF b, P
<1>5. build' = b BY DEF b
<1>6. BuildOK' BY <1>1, <1>2, <1>3, <1>5 DEF BuildOK, Graph
<1>7. PreloadedReusedAtDefault' BY <1>1, <1>4, <1>5 DEF PreloadedReusedAtDefault
<1> QED BY <1>6, <1>7
\* Moving on to the next file touches only the place the build has got to.
LEMMA AfterModuleFacts ==
  ASSUME NEW b, NEW m, BuildFields \subseteq DOMAIN b
  PROVE  LET a == AfterModule(b, m) IN
         /\ DOMAIN a = DOMAIN b
         /\ \A f \in BuildFields \ {"stage", "todo"} : a[f] = b[f]
         /\ a.todo \subseteq b.todo \/ a.todo = DOMAIN b.key
         /\ a.stage \in {b.stage, "sidecars", "manifest"}
BY DEF AfterModule, BuildFields

\* Emitting a product or a sidecar leaves the plan of the build as it was.
LEMMA StepKeepsBuild ==
  ASSUME BuildOK, Running, PreloadedReusedAtDefault, NEW m,
         (\E out : build' = AfterModule([build EXCEPT !.output = out], m))
           \/ build' = AfterModule(build, m),
         UNCHANGED <<manifest, source>>
  PROVE  BuildOK' /\ PreloadedReusedAtDefault'
<1>1. \E b : /\ build' = AfterModule(b, m)
             /\ (b = build \/ \E out : b = [build EXCEPT !.output = out])
  OBVIOUS
<1> PICK b : /\ build' = AfterModule(b, m)
             /\ (b = build \/ \E out : b = [build EXCEPT !.output = out])
  BY <1>1
<1>2. BuildFields \subseteq DOMAIN build BY DEF BuildOK
<1>3. /\ DOMAIN b = DOMAIN build
      /\ \A f \in BuildFields \ {"output"} : b[f] = build[f]
  BY <1>2 DEF BuildFields
<1>4. /\ DOMAIN build' = DOMAIN build
      /\ \A f \in BuildFields \ {"stage", "todo"} : build'[f] = b[f]
      /\ build'.todo \subseteq b.todo \/ build'.todo = DOMAIN b.key
      /\ build'.stage \in {b.stage, "sidecars", "manifest"}
  BY <1>2, <1>3, AfterModuleFacts
<1>5. /\ build'.key = build.key
      /\ build'.level = build.level
      /\ build'.preloaded = build.preloaded
      /\ build'.names = build.names
      /\ build'.reused = build.reused
      /\ build'.todo \subseteq build.todo \/ build'.todo = Graph
      /\ build'.stage \in {build.stage, "sidecars", "manifest"}
  BY <1>3, <1>4 DEF BuildFields, Graph
<1>6. BuildOK' BY <1>2, <1>4, <1>5 DEF BuildOK, Graph, KeyOf
<1>7. PreloadedReusedAtDefault' BY <1>5 DEF PreloadedReusedAtDefault
<1> QED BY <1>6, <1>7

LEMMA EmitKeepsBuild ==
  ASSUME BuildOK, Running, PreloadedReusedAtDefault, NEW m, NEW content,
         Emit(m, content), UNCHANGED <<manifest, source>>
  PROVE  BuildOK' /\ PreloadedReusedAtDefault'
<1> DEFINE out == [o \in DOMAIN build.output \cup {m} |->
                     IF o = m THEN content ELSE build.output[o]]
<1>1. build' = AfterModule([build EXCEPT !.output = out], m) BY DEF Emit
<1>2. \E x : build' = AfterModule([build EXCEPT !.output = x], m)
  <2> HIDE DEF out
  <2> QED BY <1>1, Zenon
<1> QED BY <1>2, StepKeepsBuild

\* A product, or its torn remains, goes under its own key.
LEMMA PutKeepsTypes ==
  ASSUME IInv, NEW m \in Graph, Running, m \notin build.preloaded,
         products' = Put(products, build.key[m], Product(m))
           \/ products' = Put(products, build.key[m], Torn),
         UNCHANGED <<source, manifest, sidecar>>
  PROVE  TypeOK'
<1>1. PICK content : /\ content \in {Product(m), Torn}
                     /\ products' = Put(products, build.key[m], content)
  OBVIOUS
<1>2. /\ KeyOf(m, build.key[m])
      /\ build.key[m].level = build.level
      /\ build.key[m].interface \subseteq build.names[m]
  BY DEF IInv, BuildOK
<1>3. ASSUME NEW k \in DOMAIN products', Whole(products'[k])
      PROVE  /\ products'[k].module = k.module
             /\ products'[k].source = k.source
             /\ products'[k].level = k.level
             /\ products'[k].uses = k.imports
             /\ k.interface \subseteq products'[k].defines
  <2>1. CASE k = build.key[m]
    <3>1. products'[k] = Product(m) BY <1>1, <1>3, <2>1 DEF Put, Whole
    <3> QED BY <1>2, <2>1, <3>1 DEF Product, KeyOf
  <2>2. CASE k # build.key[m]
    <3>1. k \in DOMAIN products /\ products'[k] = products[k]
      BY <1>1, <1>3, <2>2 DEF Put
    <3> QED BY <1>3, <3>1 DEF IInv, TypeOK
  <2> QED BY <2>1, <2>2
<1> QED BY <1>3 DEF IInv, TypeOK, Whole

LEMMA NextOK ==
  ASSUME IInv, [Next]_vars
  PROVE  IInv'
<1> USE DEF IInv
<1>1. ASSUME NEW entry \in Entries, NEW level \in Levels, StartBuild(entry, level)
      PROVE  IInv'
  <2>1. TypeOK' /\ SidecarsOK' BY <1>1 DEF StartBuild, TypeOK, SidecarsOK, Whole
  <2>2. BuildOK' /\ PreloadedReusedAtDefault' BY <1>1, PlanOK DEF StartBuild
  <2> QED BY <2>1, <2>2
<1>2. ASSUME NEW entry \in Entries, RejectStrict(entry)
      PROVE  IInv'
  BY <1>2 DEF RejectStrict, TypeOK, SidecarsOK, BuildOK, PreloadedReusedAtDefault,
              Running, Whole
<1>3. ASSUME NEW m \in Modules, ReuseProduct(m)
      PROVE  IInv'
  <2>1. TypeOK' /\ SidecarsOK' BY <1>3 DEF ReuseProduct, TypeOK, SidecarsOK, Whole
  <2>2. BuildOK' /\ PreloadedReusedAtDefault'
    BY <1>3, EmitKeepsBuild DEF ReuseProduct, At, Running
  <2> QED BY <2>1, <2>2
<1>4. ASSUME NEW m \in Modules, LowerPreloaded(m)
      PROVE  IInv'
  BY <1>4 DEF LowerPreloaded, TypeOK, SidecarsOK, BuildOK, PreloadedReusedAtDefault,
              Running, Whole
<1>5. ASSUME NEW m \in Modules, WriteProduct(m)
      PROVE  IInv'
  <2>1. Running /\ m \in Graph /\ m \notin build.preloaded
    BY <1>5 DEF WriteProduct, At, Running, BuildOK
  <2>2. TypeOK' BY <1>5, <2>1, PutKeepsTypes DEF WriteProduct
  <2>3. SidecarsOK' BY <1>5 DEF WriteProduct, SidecarsOK
  <2>4. BuildOK' /\ PreloadedReusedAtDefault'
    BY <1>5, <2>1, EmitKeepsBuild DEF WriteProduct
  <2> QED BY <2>2, <2>3, <2>4
<1>6. ASSUME NEW m \in Modules, WriteSidecar(m)
      PROVE  IInv'
  <2>1. Running /\ m \in Graph /\ build.stage = "sidecars"
    BY <1>6 DEF WriteSidecar, At, Running, BuildOK
  <2>2. KeyOf(m, build.key[m]) BY <2>1 DEF BuildOK
  <2>3. /\ DOMAIN sidecar' = Modules
        /\ \A x \in Modules \ {m} : sidecar'[x] = sidecar[x]
        /\ sidecar'[m].source = build.key[m].source
        /\ sidecar'[m].entry = build.key[m].entry
        /\ sidecar'[m].imports = build.key[m].imports
    BY <1>6 DEF WriteSidecar, TypeOK
  <2>4. SidecarsOK' BY <2>2, <2>3 DEF SidecarsOK, KeyOf
  <2>5. DOMAIN sidecar'[m].imports = Imports[m] BY <2>2, <2>3 DEF KeyOf
  <2>6. TypeOK' BY <1>6, <2>2, <2>3, <2>5 DEF WriteSidecar, TypeOK, KeyOf, Whole
  <2>7. BuildOK' /\ PreloadedReusedAtDefault'
    BY <1>6, <2>1, StepKeepsBuild DEF WriteSidecar
  <2> QED BY <2>4, <2>6, <2>7
<1>7. CASE WriteManifest
  <2>1. \A m \in Graph : build.key[m].module = m
    BY <1>7 DEF WriteManifest, Running, BuildOK, KeyOf
  <2>2. TypeOK' /\ SidecarsOK'
    BY <1>7, <2>1 DEF WriteManifest, TypeOK, SidecarsOK, Graph, Whole
  <2>3. build'.stage = "done"
    BY <1>7 DEF WriteManifest, BuildOK, BuildFields, Running
  <2> QED BY <2>2, <2>3 DEF BuildOK, PreloadedReusedAtDefault, Running
<1>8. CASE Crash
  <2>1. Running /\ build'.stage = "crashed" /\ source' = source BY <1>8 DEF Crash
  <2>2. BuildOK' /\ PreloadedReusedAtDefault'
    BY <2>1 DEF BuildOK, PreloadedReusedAtDefault, Running
  <2>3. CASE UNCHANGED <<manifest, sidecar, products>>
    BY <2>1, <2>2, <2>3 DEF TypeOK, SidecarsOK, Whole
  <2>4. ASSUME NEW m \in Graph, m \notin build.reused \cup build.preloaded,
               products' = Put(products, build.key[m], Torn),
               UNCHANGED <<manifest, sidecar>>
        PROVE  IInv'
    <3>1. TypeOK' BY <2>1, <2>4, PutKeepsTypes
    <3>2. SidecarsOK' BY <2>4 DEF SidecarsOK
    <3> QED BY <2>2, <3>1, <3>2
  <2>5. ASSUME NEW m \in Graph, sidecar' = [sidecar EXCEPT ![m] = NoFile],
               UNCHANGED <<manifest, products>>
        PROVE  IInv'
    <3>1. /\ DOMAIN sidecar' = Modules
          /\ \A x \in Modules : sidecar'[x] \in {NoFile, sidecar[x]}
      BY <2>5 DEF TypeOK
    <3>2. SidecarsOK' BY <3>1 DEF SidecarsOK
    <3>3. TypeOK' BY <2>1, <2>5, <3>1 DEF TypeOK, Whole
    <3> QED BY <2>2, <3>2, <3>3
  <2>6. ASSUME NEW k \in 0..N, manifest' = [m \in {g \in Graph : g <= k} |-> build.key[m]],
               UNCHANGED <<sidecar, products>>
        PROVE  IInv'
    <3>1. \A m \in Graph : build.key[m].module = m BY <2>1 DEF BuildOK, KeyOf
    <3>2. \A m \in DOMAIN manifest' : manifest'[m].module = m BY <2>6, <3>1
    <3>3. TypeOK' /\ SidecarsOK' BY <2>1, <2>6, <3>2 DEF TypeOK, SidecarsOK, Whole
    <3> QED BY <2>2, <3>3
  <2> QED BY <1>8, <2>3, <2>4, <2>5, <2>6 DEF Crash
<1>9. ASSUME NEW m \in Modules, EditSource(m)
      PROVE  IInv'
  <2>1. /\ DOMAIN source' = Modules
        /\ \A x \in Modules : source'[x] \in DOMAIN Declares[x]
    BY <1>9 DEF EditSource, TypeOK
  <2>2. TypeOK' /\ SidecarsOK' BY <1>9, <2>1 DEF EditSource, TypeOK, SidecarsOK, Whole
  <2> QED BY <1>9, <2>2 DEF EditSource, BuildOK, PreloadedReusedAtDefault, Running
<1>10. CASE RemoveProduct
  <2>1. \A k \in DOMAIN products' : k \in DOMAIN products /\ products'[k] = products[k]
    BY <1>10 DEF RemoveProduct
  <2>2. TypeOK' /\ SidecarsOK' BY <1>10, <2>1 DEF RemoveProduct, TypeOK, SidecarsOK, Whole
  <2> QED BY <1>10, <2>2 DEF RemoveProduct, BuildOK, PreloadedReusedAtDefault, Running
<1>11. CASE UNCHANGED vars
  BY <1>11 DEF vars, TypeOK, SidecarsOK, BuildOK, PreloadedReusedAtDefault, Running,
               Graph, KeyOf, Whole
<1> QED
  BY <1>1, <1>2, <1>3, <1>4, <1>5, <1>6, <1>7, <1>8, <1>9, <1>10, <1>11 DEF Next
LEMMA InitOK ==
  ASSUME Init
  PROVE  IInv
<1>1. TypeOK BY SourceAssumption DEF Init, TypeOK, Whole
<1>2. SidecarsOK BY DEF Init, SidecarsOK
<1>3. build.stage = "idle" BY DEF Init, Idle
<1> QED BY <1>1, <1>2, <1>3 DEF IInv, BuildOK, PreloadedReusedAtDefault, Running

-----------------------------------------------------------------------------
\* Every step of every build, every crash, edit and deletion keeps the
\* inductive invariant.
THEOREM CacheInvariant == Spec => []IInv
<1>1. Init => IInv BY InitOK
<1>2. IInv /\ [Next]_vars => IInv' BY NextOK
<1> QED BY <1>1, <1>2, PTL DEF Spec

\* A product file that was written to the end holds a compilation of the
\* module, version, level and interfaces its name is the key of, so that the
\* copy writeModuleArtifacts makes by name alone is the copy it means.
THEOREM ProductsMatchKeys == Spec => []TypeOK
<1>1. IInv => TypeOK BY DEF IInv
<1> QED BY <1>1, CacheInvariant, PTL

\* loadCachedInterface and planModuleCacheBuild never disagree in a
\* default-level build about a module that was not recorded as an entry.
THEOREM TestsAgree == Spec => []PreloadedReusedAtDefault
<1>1. IInv => PreloadedReusedAtDefault BY DEF IInv
<1> QED BY <1>1, CacheInvariant, PTL
-----------------------------------------------------------------------------
(* The results of a build: a second invariant, on top of the first.        *)

\* A build that has been planned and was not given up.
Built == build.stage \in {"products", "sidecars", "manifest", "done"}

\* A sidecar carries a number past every name its interface shows.
SidecarNumbers ==
    \A m \in Modules : sidecar[m] # NoFile =>
        /\ sidecar[m].next \in Nat
        /\ \A name \in sidecar[m].interface :
              name.number \in Nat /\ name.number < sidecar[m].next

\* The keys of a build are made of one interface per module of its graph.
Planned ==
    Built =>
        /\ build.entry \in Modules
        /\ Graph = Reach(build.entry)
        /\ build.preloaded \subseteq Graph \ {build.entry}
        /\ \A m \in Graph :
              /\ build.key[m].source \in DOMAIN Declares[m]
              /\ build.key[m] =
                   [module |-> m, source |-> build.key[m].source,
                    interface |-> build.key[m].interface, level |-> build.level,
                    entry |-> m = build.entry,
                    imports |-> [d \in Imports[m] |-> build.key[d].interface]]

\* The public names of version v of m when its numbering starts at start.
Public(m, v, start) ==
    {[base |-> Declares[m][v][i].base, number |-> start + i - 1] :
        i \in {j \in DOMAIN Declares[m][v] : Declares[m][v][j].public}}

\* x is where an allocator starts behind the modules of P.
Highest(x, next, P) ==
    x \in {0} \cup {next[m] : m \in P} /\ \A m \in P : next[m] <= x

\* c counts the declarations of the bodies in the versions of the keys.
Counts(c, key, bodies) ==
    \A n \in 1..N : c[n] =
        c[n-1] + IF n \in bodies THEN Len(Declares[n][key[n].source]) ELSE 0

\* The numbers of a build: the bodies in graph order, from behind the modules
\* that were preloaded.
Numbered ==
    Built =>
        /\ \A m \in Graph :
              /\ build.next[m] \in Nat
              /\ \A name \in build.key[m].interface :
                    name.number \in Nat /\ name.number < build.next[m]
        /\ \E c \in [0..N -> Nat] :
              /\ Highest(c[0], build.next, build.preloaded)
              /\ Counts(c, build.key, Graph \ build.preloaded)
              /\ \A m \in Graph \ build.preloaded :
                    /\ build.next[m] = c[m]
                    /\ build.key[m].interface = Public(m, build.key[m].source, c[m-1])

\* What has been emitted is what the keys say, and away from the default level
\* no module is both preloaded and emitted.
Outputs ==
    Built =>
        /\ build.reused \subseteq Graph
        /\ build.level # DefaultLevel => build.reused \cap build.preloaded = {}
        /\ DOMAIN build.output \cap build.preloaded \subseteq build.reused
        /\ IF build.stage = "products"
             THEN /\ DOMAIN build.output \cup build.todo = Graph
                  /\ \A m \in build.reused : build.key[m] \in DOMAIN products
             ELSE DOMAIN build.output = Graph
        /\ \A m \in DOMAIN build.output : Whole(build.output[m]) =>
              /\ build.output[m].module = m
              /\ build.output[m].source = build.key[m].source
              /\ build.output[m].level = build.level
              /\ build.output[m].uses = build.key[m].imports
              /\ build.key[m].interface \subseteq build.output[m].defines

\* The stores once their stage of the build is over.
Written(m) ==
    sidecar[m] =
        [source |-> build.key[m].source, interface |-> build.key[m].interface,
         next |-> build.next[m], entry |-> build.key[m].entry,
         imports |-> build.key[m].imports]
Stored ==
    /\ build.stage = "sidecars" => \A m \in Graph \ build.todo : Written(m)
    /\ build.stage \in {"manifest", "done"} => \A m \in Graph : Written(m)
    /\ build.stage = "done" => manifest = build.key

Results == SidecarNumbers /\ Planned /\ Numbered /\ Outputs /\ Stored

-----------------------------------------------------------------------------
(* Numbering.                                                              *)

\* The allocator runs over the modules in load order.
LEMMA CounterDef ==
  ASSUME NEW bodies, NEW start
  PROVE  /\ Counter(bodies, start)[0] = start
         /\ \A n \in 1..N : Counter(bodies, start)[n] =
              Counter(bodies, start)[n-1]
                + (IF n \in bodies THEN Len(Declared(n)) ELSE 0)
         /\ Counter(bodies, start) = [n \in 0..N |-> Counter(bodies, start)[n]]
<1> DEFINE Step(x, n) == x + (IF n \in bodies THEN Len(Declared(n)) ELSE 0)
           Rule(f, j) == [n \in 0..j |-> IF n = 0 THEN start ELSE Step(f[n-1], n)]
           Good == {j \in Nat : \E f : f = Rule(f, j)}
<1>1. 0 \in Good
  <2>1. [n \in 0..0 |-> start] = Rule([n \in 0..0 |-> start], 0)
    <3> HIDE DEF Step
    <3> QED OBVIOUS
  <2> QED BY <2>1
<1>2. ASSUME NEW j \in Nat, j \in Good PROVE j + 1 \in Good
  <2> HIDE DEF Step
  <2>1. PICK f : f = Rule(f, j) BY <1>2
  <2> DEFINE g == [n \in 0..(j+1) |-> IF n <= j THEN f[n] ELSE Step(f[n-1], n)]
  <2>2. \A n \in 0..j : f[n] = IF n = 0 THEN start ELSE Step(f[n-1], n) BY <2>1
  <2>3. \A n \in 0..j : g[n] = f[n] OBVIOUS
  <2>4. \A n \in 1..(j+1) : g[n-1] = f[n-1] OBVIOUS
  <2>5. \A n \in 0..(j+1) : g[n] = IF n = 0 THEN start ELSE Step(g[n-1], n)
    <3> TAKE n \in 0..(j+1)
    <3>1. CASE n <= j BY <3>1, <2>2, <2>3, <2>4
    <3>2. CASE n = j + 1 BY <3>2, <2>4
    <3> QED BY <3>1, <3>2
  <2> HIDE DEF g
  <2>6. g = Rule(g, j + 1) BY <2>5 DEF g
  <2>7. \E h : h = Rule(h, j + 1)
    <3> HIDE DEF Rule
    <3> WITNESS g
    <3> QED BY <2>6
  <2> HIDE DEF Rule
  <2> QED BY <2>7
<1>3. N \in Good BY <1>1, <1>2, GraphAssumption, NatSetInduction
<1>4. PICK f : f = Rule(f, N) BY <1>3
<1>5. Counter(bodies, start) = Rule(Counter(bodies, start), N)
  BY <1>4 DEF Counter
<1> DEFINE p == Counter(bodies, start)
<1> HIDE DEF p
<1>6. p = Rule(p, N) BY <1>5 DEF p
<1>7. ASSUME NEW n \in 0..N
      PROVE  p[n] = IF n = 0 THEN start ELSE Step(p[n-1], n)
  <2> HIDE DEF Step
  <2> QED BY <1>6
<1>8. p[0] = start /\ \A n \in 1..N : p[n] = Step(p[n-1], n)
  <2> HIDE DEF Step
  <2>1. 0 \in 0..N BY GraphAssumption
  <2>2. \A n \in 1..N : n \in 0..N /\ n # 0 OBVIOUS
  <2> QED BY <1>7, <2>1, <2>2
<1>9. p = [n \in 0..N |-> p[n]]
  <2> HIDE DEF Step
  <2>1. DOMAIN p = 0..N BY <1>6
  <2>2. \E q : p = [n \in 0..N |-> q[n]]
    <3> DEFINE q == [n \in 0..N |-> IF n = 0 THEN start ELSE Step(p[n-1], n)]
    <3>1. p = [n \in 0..N |-> q[n]] BY <1>6
    <3> HIDE DEF q
    <3> QED BY <3>1
  <2> QED BY <2>1, <2>2
<1> QED BY <1>8, <1>9 DEF p

\* A version is a finite list of declarations.
LEMMA VersionFacts ==
  ASSUME NEW m \in Modules, NEW v \in DOMAIN Declares[m]
  PROVE  /\ Len(Declares[m][v]) \in Nat
         /\ DOMAIN Declares[m][v] = 1..Len(Declares[m][v])
BY SourceAssumption

LEMMA CounterCounts ==
  ASSUME NEW bodies, NEW start \in Nat, NEW key,
         \A n \in bodies \cap Modules :
            source[n] \in DOMAIN Declares[n] /\ key[n].source = source[n]
  PROVE  /\ Counter(bodies, start) \in [0..N -> Nat]
         /\ Counter(bodies, start)[0] = start
         /\ Counts(Counter(bodies, start), key, bodies)
<1> DEFINE c == Counter(bodies, start)
           Good == {n \in Nat : n <= N => c[n] \in Nat}
<1>1. /\ c[0] = start
      /\ \A n \in 1..N : c[n] =
           c[n-1] + (IF n \in bodies THEN Len(Declared(n)) ELSE 0)
      /\ c = [n \in 0..N |-> c[n]]
  BY CounterDef
<1> HIDE DEF c
<1>2. \A n \in 1..N : n \in bodies =>
        Declared(n) = Declares[n][key[n].source] /\ Len(Declared(n)) \in Nat
  BY VersionFacts DEF Declared, Modules
<1>3. 0 \in Good BY <1>1
<1>4. ASSUME NEW n \in Nat, n \in Good PROVE n + 1 \in Good
  <2> SUFFICES ASSUME n + 1 <= N PROVE c[n+1] \in Nat OBVIOUS
  <2>1. n + 1 \in 1..N /\ (n + 1) - 1 = n /\ n <= N BY GraphAssumption
  <2>2. c[n] \in Nat BY <1>4, <2>1
  <2>3. c[n+1] = c[n] + (IF n + 1 \in bodies THEN Len(Declared(n+1)) ELSE 0)
    BY <1>1, <2>1
  <2> QED BY <1>2, <2>1, <2>2, <2>3
<1>5. \A n \in 0..N : c[n] \in Nat
  <2>1. Nat \subseteq Good BY <1>3, <1>4, NatSetInduction
  <2> QED BY <2>1, GraphAssumption
<1>6. c \in [0..N -> Nat] BY <1>1, <1>5
<1>7. Counts(c, key, bodies) BY <1>1, <1>2 DEF Counts
<1> QED BY <1>1, <1>6, <1>7 DEF c

\* Counting never goes back, and where it stands somebody has put it.
Grown(c, bodies, n) ==
    /\ \A m \in 0..n : c[m] <= c[n]
    /\ c[n] = c[0] \/ \E m \in bodies \cap (1..n) : c[n] = c[m]

LEMMA CountsGrow ==
  ASSUME NEW key, NEW bodies, NEW c \in [0..N -> Nat], Counts(c, key, bodies),
         \A n \in bodies \cap Modules : key[n].source \in DOMAIN Declares[n],
         NEW n \in 0..N
  PROVE  Grown(c, bodies, n)
<1> DEFINE G(k) == /\ \A m \in 0..k : c[m] <= c[k]
                   /\ c[k] = c[0] \/ \E m \in bodies \cap (1..k) : c[k] = c[m]
           Good == {k \in Nat : k <= N => G(k)}
<1>1. G(0) BY GraphAssumption
<1>2. ASSUME NEW k \in Nat, k + 1 <= N, G(k) PROVE G(k + 1)
  <2>1. k + 1 \in 1..N /\ (k + 1) - 1 = k /\ k \in 0..N /\ k + 1 \in 0..N
    BY <1>2, GraphAssumption
  <2>2. c[k+1] = c[k] + IF k + 1 \in bodies
                          THEN Len(Declares[k+1][key[k+1].source]) ELSE 0
    BY <2>1 DEF Counts
  <2>3. k + 1 \in bodies => Len(Declares[k+1][key[k+1].source]) \in Nat
    BY <2>1, VersionFacts DEF Modules
  <2>4. c[k] <= c[k+1] /\ c[k] \in Nat /\ c[k+1] \in Nat BY <2>1, <2>2, <2>3
  <2>5. \A m \in 0..(k+1) : m \in 0..k \/ m = k + 1 OBVIOUS
  <2>6. \A m \in 0..N : c[m] \in Nat OBVIOUS
  <2>7. ASSUME NEW m \in 0..(k+1) PROVE c[m] <= c[k+1]
    <3>1. CASE m = k + 1 BY <2>4, <3>1
    <3>2. CASE m \in 0..k
      <4>1. m \in 0..N /\ c[m] <= c[k]
        BY <1>2, <2>1, <3>2, GraphAssumption
      <4>2. c[m] \in Nat BY <2>6, <4>1
      <4> QED BY <2>4, <4>1, <4>2
    <3> QED BY <2>5, <3>1, <3>2
  <2>8. c[k+1] = c[0] \/ \E m \in bodies \cap (1..(k+1)) : c[k+1] = c[m]
    <3>1. CASE k + 1 \in bodies BY <2>1, <3>1
    <3>2. CASE k + 1 \notin bodies
      <4>1. c[k+1] = c[k] BY <2>2, <2>4, <3>2
      <4>2. \A m \in 1..k : m \in 1..(k+1) OBVIOUS
      <4> QED BY <1>2, <4>1, <4>2
    <3> QED BY <3>1, <3>2
  <2> QED BY <2>7, <2>8
<1> HIDE DEF G
<1>3. 0 \in Good BY <1>1
<1>4. \A k \in Nat : k \in Good => k + 1 \in Good BY <1>2, GraphAssumption
<1>5. Nat \subseteq Good BY <1>3, <1>4, NatSetInduction
<1>6. G(n) BY <1>5, GraphAssumption
<1> QED BY <1>6 DEF G, Grown

\* The same versions and bodies, counted from the same number, count the same.
LEMMA CountsAgree ==
  ASSUME NEW key, NEW other, NEW bodies, NEW mine, NEW c, NEW d,
         Counts(c, key, bodies), Counts(d, other, mine), c[0] = d[0],
         NEW k \in 0..N,
         \A n \in 1..k : /\ n \in bodies <=> n \in mine
                         /\ n \in bodies => key[n].source = other[n].source,
         NEW n \in 0..k
  PROVE  c[n] = d[n]
<1> DEFINE Good == {i \in Nat : i <= k => c[i] = d[i]}
<1>1. 0 \in Good OBVIOUS
<1>2. ASSUME NEW i \in Nat, i \in Good PROVE i + 1 \in Good
  <2> SUFFICES ASSUME i + 1 <= k PROVE c[i+1] = d[i+1] OBVIOUS
  <2>1. i + 1 \in 1..N /\ i + 1 \in 1..k /\ (i + 1) - 1 = i BY GraphAssumption
  <2>2. c[i] = d[i] BY <1>2
  <2>3. c[i+1] = c[i] + IF i + 1 \in bodies
                          THEN Len(Declares[i+1][key[i+1].source]) ELSE 0
    BY <2>1 DEF Counts
  <2>4. d[i+1] = d[i] + IF i + 1 \in mine
                          THEN Len(Declares[i+1][other[i+1].source]) ELSE 0
    BY <2>1 DEF Counts
  <2> QED BY <2>1, <2>2, <2>3, <2>4
<1>3. Nat \subseteq Good BY <1>1, <1>2, NatSetInduction
<1>4. n \in Nat /\ n <= k BY GraphAssumption
<1> QED BY <1>3, <1>4

\* Finitely many numbers have a highest.
LEMMA HighestExists ==
  ASSUME NEW P \in SUBSET Modules, NEW f, \A m \in P : f[m] \in Nat
  PROVE  \E x \in Nat : Highest(x, f, P)
<1> DEFINE H(n) == \E x \in Nat : Highest(x, f, P \cap (1..n))
           Good == {n \in Nat : n <= N => H(n)}
<1>1. H(0)
  <2>1. P \cap (1..0) = {} OBVIOUS
  <2>2. Highest(0, f, {}) BY DEF Highest
  <2> QED BY <2>1, <2>2
<1>2. ASSUME NEW n \in Nat, H(n) PROVE H(n + 1)
  <2>1. PICK x \in Nat : Highest(x, f, P \cap (1..n)) BY <1>2
  <2>2. CASE n + 1 \notin P
    <3>1. P \cap (1..(n+1)) = P \cap (1..n) BY <2>2
    <3> QED BY <2>1, <3>1
  <2>3. CASE n + 1 \in P
    <3>1. P \cap (1..(n+1)) = (P \cap (1..n)) \cup {n + 1} BY <2>3
    <3> DEFINE Q == P \cap (1..n)
               y == IF f[n+1] <= x THEN x ELSE f[n+1]
    <3>2. \A m \in Q : f[m] \in Nat OBVIOUS
    <3>3. f[n+1] \in Nat BY <2>3
    <3>4. y \in Nat BY <3>3
    <3> HIDE DEF Q
    <3>5. Highest(y, f, Q \cup {n + 1})
      BY <2>1, <3>2, <3>3 DEF Highest, Q
    <3> QED BY <3>1, <3>4, <3>5 DEF Q
  <2> QED BY <2>2, <2>3
<1>3. 0 \in Good /\ \A n \in Nat : n \in Good => n + 1 \in Good
  <2> HIDE DEF H
  <2> QED BY <1>1, <1>2, GraphAssumption
<1>4. H(N)
  <2> HIDE DEF H
  <2>1. Nat \subseteq Good BY <1>3, NatSetInduction
  <2> QED BY <2>1, GraphAssumption
<1>5. P \cap (1..N) = P BY DEF Modules
<1> QED BY <1>4, <1>5

\* The allocator starts at the highest mark the preloaded sidecars carry: the
\* visible names are all below it.
LEMMA HighWaterIs ==
  ASSUME SidecarNumbers, NEW P \in SUBSET Modules,
         \A m \in P : sidecar[m] # NoFile,
         NEW next, \A m \in P : next[m] = sidecar[m].next,
         NEW x, Highest(x, next, P)
  PROVE  HighWater(P) = x /\ x \in Nat
<1> DEFINE S == {0} \cup {sidecar[m].next : m \in P}
                  \cup {name.number + 1 :
                          name \in UNION {sidecar[m].interface : m \in P}}
<1>1. ASSUME NEW m \in P
      PROVE  /\ sidecar[m].next \in Nat /\ sidecar[m].next <= x
             /\ \A name \in sidecar[m].interface :
                  name.number \in Nat /\ name.number < sidecar[m].next
  BY DEF SidecarNumbers, Highest
<1>2. x \in Nat BY <1>1 DEF Highest
<1>3. x \in S BY DEF Highest
<1>4. \A y \in S : x >= y /\ y \in Nat
  <2>1. ASSUME NEW name \in UNION {sidecar[m].interface : m \in P}
        PROVE  x >= name.number + 1 /\ name.number + 1 \in Nat
    <3>1. PICK m \in P : name \in sidecar[m].interface OBVIOUS
    <3> QED BY <1>1, <1>2, <3>1
  <2>2. x >= 0 BY <1>2 DEF Highest
  <2> QED BY <1>1, <1>2, <2>1, <2>2
<1> HIDE DEF S
<1>5. \A y \in S : (\A z \in S : y >= z) => y = x
  BY <1>2, <1>3, <1>4
<1>6. Max(S) \in S /\ \A z \in S : Max(S) >= z
  BY <1>3, <1>4 DEF Max
<1>7. Max(S) = x BY <1>5, <1>6
<1> QED BY <1>2, <1>7 DEF HighWater, S

-----------------------------------------------------------------------------
(* The steps of a build keep its results in order.                         *)

\* A module's graph holds what it imports, and nothing after it.
LEMMA ReachFacts ==
  ASSUME NEW entry \in Modules
  PROVE  /\ entry \in Reach(entry)
         /\ Reach(entry) \subseteq Modules
         /\ \A m \in Reach(entry) : m <= entry /\ Imports[m] \subseteq Reach(entry)
<1>1. entry \in Reach(entry) /\ Reach(entry) \subseteq Modules BY DEF Reach
<1>2. ASSUME NEW m \in Reach(entry)
      PROVE  m <= entry /\ Imports[m] \subseteq Reach(entry)
  <2> DEFINE S == {n \in Modules : n <= entry}
  <2>1. Closed(S)
    <3> SUFFICES ASSUME NEW n \in S, NEW d \in Imports[n] PROVE d \in S
      BY DEF Closed
    <3>1. n \in Modules /\ d \in Modules /\ d < n BY GraphAssumption
    <3> QED BY <3>1, GraphAssumption DEF Modules
  <2>2. entry \in S /\ S \in SUBSET Modules BY GraphAssumption DEF Modules
  <2>3. m \in S BY <2>1, <2>2, <1>2 DEF Reach
  <2>4. Imports[m] \subseteq Modules BY <1>1, GraphAssumption
  <2>5. Imports[m] \subseteq Reach(entry) BY <1>2, <2>4 DEF Reach, Closed
  <2> QED BY <2>3, <2>5
<1> QED BY <1>1, <1>2

\* The names of a version are numbered from where it starts to where it ends.
LEMMA PublicFacts ==
  ASSUME NEW m \in Modules, NEW v \in DOMAIN Declares[m], NEW start \in Nat,
         NEW name \in Public(m, v, start)
  PROVE  name.number \in Nat /\ name.number < start + Len(Declares[m][v])
<1> DEFINE L == Len(Declares[m][v])
<1>1. L \in Nat /\ DOMAIN Declares[m][v] = 1..L BY VersionFacts
<1>2. PICK i \in 1..L :
        name = [base |-> Declares[m][v][i].base, number |-> start + i - 1]
  <2> HIDE DEF L
  <2> QED BY <1>1 DEF Public
<1>3. name.number = start + i - 1 BY <1>2
<1> HIDE DEF L
<1> QED BY <1>1, <1>2, <1>3 DEF L

\* Planning a build.
LEMMA PlanResults ==
  ASSUME IInv, SidecarNumbers, NEW entry \in Modules, NEW level,
         build' = Plan(entry, level),
         UNCHANGED <<source, manifest, sidecar, products>>
  PROVE  Planned' /\ Numbered' /\ Outputs' /\ Stored'
<1> DEFINE b == Plan(entry, level)
           P == Preloaded(entry)
           g == Reach(entry)
           start == HighWater(P)
           c == Counter(g \ P, start)
           interface == [m \in g |-> IF m \in P THEN sidecar[m].interface
                                     ELSE PublicNames(m, c[m-1])]
<1>1. /\ b.stage = "products" /\ b.entry = entry /\ b.level = level
      /\ b.preloaded = P /\ b.todo = g /\ DOMAIN b.key = g
      /\ b.reused = Reusable(b.key) /\ b.output = [m \in {} |-> Torn]
      /\ b.next = [m \in g |-> IF m \in P THEN sidecar[m].next ELSE c[m]]
  BY DEF Plan
<1>2. b.key = [m \in g |->
                 [module |-> m, source |-> source[m],
                  interface |-> interface[m], level |-> level,
                  entry |-> m = entry,
                  imports |-> [d \in Imports[m] |-> interface[d]]]]
  BY DEF Plan
<1> HIDE DEF b
<1>3. /\ entry \in g /\ g \subseteq Modules
      /\ \A m \in g : Imports[m] \subseteq g
  BY ReachFacts
<1>4. /\ P \subseteq g \ {entry}
      /\ \A m \in P : Trusted(m)
  BY PreloadedFacts
<1>5. \A m \in g : source[m] \in DOMAIN Declares[m]
  BY <1>3 DEF IInv, TypeOK
<1>6. \A m \in P : /\ sidecar[m] # NoFile
                   /\ m \in Modules
                   /\ sidecar[m].next \in Nat
                   /\ b.next[m] = sidecar[m].next
  BY <1>1, <1>3, <1>4 DEF Trusted, SidecarNumbers
<1>7. PICK x \in Nat : Highest(x, b.next, P)
  <2>1. P \in SUBSET Modules /\ \A m \in P : b.next[m] \in Nat BY <1>6
  <2> HIDE DEF P
  <2> QED BY <2>1, HighestExists
<1>8. start = x
  <2>1. P \in SUBSET Modules BY <1>6
  <2> HIDE DEF P
  <2> QED BY <1>6, <1>7, <2>1, HighWaterIs
<1>9. \A m \in g : b.key[m].source = source[m] /\ b.key[m].interface = interface[m]
  BY <1>2
<1> HIDE DEF start, P
<1>10. c \in [0..N -> Nat] /\ c[0] = x /\ Counts(c, b.key, g \ P)
  BY <1>3, <1>5, <1>7, <1>8, <1>9, CounterCounts
<1> HIDE DEF c
<1>11. ASSUME NEW m \in g \ P
       PROVE  /\ b.next[m] = c[m]
              /\ b.key[m].interface = Public(m, b.key[m].source, c[m-1])
              /\ c[m-1] \in Nat /\ c[m] \in Nat
              /\ c[m] = c[m-1] + Len(Declares[m][source[m]])
  <2>1. m \in 1..N BY <1>3 DEF Modules
  <2>2. b.key[m].interface = PublicNames(m, c[m-1]) BY <1>9
  <2>3. PublicNames(m, c[m-1]) = Public(m, source[m], c[m-1])
    BY DEF PublicNames, Names, Public, Declared
  <2>4. b.next[m] = c[m] BY <1>1
  <2>5. c[m-1] \in Nat /\ c[m] \in Nat BY <1>10, <2>1, GraphAssumption
  <2>6. c[m] = c[m-1] + Len(Declares[m][source[m]])
    BY <1>9, <1>10, <2>1 DEF Counts
  <2> QED BY <1>9, <2>2, <2>3, <2>4, <2>5, <2>6
<1>12. build' = b BY DEF b
<1>13. Graph' = g BY <1>1, <1>12 DEF Graph
<1>14. ASSUME NEW m \in g
       PROVE  /\ b.next[m] \in Nat
              /\ \A name \in b.key[m].interface :
                    name.number \in Nat /\ name.number < b.next[m]
  <2>1. CASE m \in P
    <3>1. b.key[m].interface = sidecar[m].interface BY <1>9, <2>1
    <3> QED BY <1>6, <2>1, <3>1 DEF SidecarNumbers
  <2>2. CASE m \notin P
    <3>1. m \in Modules /\ source[m] \in DOMAIN Declares[m] BY <1>3, <1>5
    <3>2. b.key[m].interface = Public(m, source[m], c[m-1])
      BY <1>9, <1>11, <2>2
    <3> QED BY <1>11, <2>2, <3>1, <3>2, PublicFacts
  <2> QED BY <2>1, <2>2
<1>15. Numbered'
  <2>1. /\ Highest(c[0], b.next, b.preloaded)
        /\ Counts(c, b.key, g \ b.preloaded)
        /\ \A m \in g \ b.preloaded :
              /\ b.next[m] = c[m]
              /\ b.key[m].interface = Public(m, b.key[m].source, c[m-1])
    BY <1>1, <1>7, <1>10, <1>11
  <2> QED BY <1>10, <1>12, <1>13, <1>14, <2>1 DEF Numbered
<1>16. Planned'
  <2>1. \A m \in g :
          /\ b.key[m].source \in DOMAIN Declares[m]
          /\ b.key[m] = [module |-> m, source |-> b.key[m].source,
                         interface |-> b.key[m].interface, level |-> b.level,
                         entry |-> m = entry,
                         imports |-> [d \in Imports[m] |-> b.key[d].interface]]
    <3> TAKE m \in g
    <3>1. b.key[m] = [module |-> m, source |-> source[m],
                      interface |-> interface[m], level |-> level,
                      entry |-> m = entry,
                      imports |-> [d \in Imports[m] |-> interface[d]]]
      BY <1>2
    <3>2. \A d \in Imports[m] : b.key[d].interface = interface[d]
      BY <1>3, <1>9
    <3>3. [d \in Imports[m] |-> interface[d]]
            = [d \in Imports[m] |-> b.key[d].interface]
      BY <3>2
    <3> QED BY <1>1, <1>5, <1>9, <3>1, <3>3
  <2> QED BY <1>1, <1>3, <1>4, <1>12, <1>13, <2>1 DEF Planned
<1>17. Outputs'
  <2>1. Reusable(b.key) \subseteq g
        /\ \A m \in Reusable(b.key) : b.key[m] \in DOMAIN products
    BY <1>1 DEF Reusable
  <2>2. level # DefaultLevel => Reusable(b.key) \cap P = {}
    <3> SUFFICES ASSUME NEW m \in Reusable(b.key) \cap P PROVE level = DefaultLevel
      OBVIOUS
    <3>1. manifest[m] = b.key[m] BY DEF Reusable
    <3>2. manifest[m].level = DefaultLevel
      <4>1. manifest[m] = SidecarKey(m) BY <1>4 DEF Trusted, Recorded
      <4>2. SidecarKey(m).level = DefaultLevel BY DEF SidecarKey
      <4> QED BY <4>1, <4>2
    <3>3. b.key[m].level = level BY <1>2, <2>1
    <3> QED BY <3>1, <3>2, <3>3
  <2>3. DOMAIN b.output = {} BY <1>1
  <2> QED BY <1>1, <1>12, <1>13, <2>1, <2>2, <2>3 DEF Outputs
<1>18. Stored' BY <1>1, <1>12 DEF Stored
<1> QED BY <1>15, <1>16, <1>17, <1>18

\* What was planned stays planned.
LEMMA PlanKept ==
  ASSUME Built, Planned, Numbered,
         build'.key = build.key, build'.entry = build.entry,
         build'.level = build.level, build'.preloaded = build.preloaded,
         build'.next = build.next
  PROVE  Planned' /\ Numbered'
<1>1. Graph' = Graph BY DEF Graph
<1>2. Planned' BY <1>1 DEF Planned
<1>3. Numbered'
  <2>1. PICK c \in [0..N -> Nat] :
          /\ Highest(c[0], build.next, build.preloaded)
          /\ Counts(c, build.key, Graph \ build.preloaded)
          /\ \A m \in Graph \ build.preloaded :
                /\ build.next[m] = c[m]
                /\ build.key[m].interface = Public(m, build.key[m].source, c[m-1])
    BY DEF Numbered
  <2>2. /\ Highest(c[0], build'.next, build'.preloaded)
        /\ Counts(c, build'.key, Graph' \ build'.preloaded)
        /\ \A m \in Graph' \ build'.preloaded :
              /\ build'.next[m] = c[m]
              /\ build'.key[m].interface
                   = Public(m, build'.key[m].source, c[m-1])
    BY <1>1, <2>1
  <2>3. \A m \in Graph' :
          /\ build'.next[m] \in Nat
          /\ \A name \in build'.key[m].interface :
                name.number \in Nat /\ name.number < build'.next[m]
    BY <1>1 DEF Numbered
  <2> QED BY <2>2, <2>3 DEF Numbered
<1> QED BY <1>2, <1>3

\* The next file, or the first file of the next stage.
LEMMA AfterModuleStage ==
  ASSUME NEW b, NEW m, BuildFields \subseteq DOMAIN b
  PROVE  LET a == AfterModule(b, m) IN
         /\ \A f \in BuildFields \ {"stage", "todo"} : a[f] = b[f]
         /\ b.todo # {m} => a.todo = b.todo \ {m} /\ a.stage = b.stage
         /\ b.todo = {m} =>
              /\ a.todo = DOMAIN b.key
              /\ b.stage = "products" => a.stage = "sidecars"
              /\ b.stage # "products" => a.stage = "manifest"
<1>1. CASE b.todo = {m} BY <1>1 DEF AfterModule, BuildFields
<1>2. CASE b.todo # {m} BY <1>2 DEF AfterModule, BuildFields
<1> QED BY <1>1, <1>2

\* Emitting a product, copied or compiled.
LEMMA EmitResults ==
  ASSUME IInv, Results, NEW m, At("products", m), NEW content, Emit(m, content),
         UNCHANGED <<source, manifest, sidecar>>,
         DOMAIN products \subseteq DOMAIN products',
         m \in build.preloaded => m \in build.reused,
         Whole(content) =>
            /\ content.module = m
            /\ content.source = build.key[m].source
            /\ content.level = build.level
            /\ content.uses = build.key[m].imports
            /\ build.key[m].interface \subseteq content.defines
  PROVE  Results'
<1> DEFINE out == [o \in DOMAIN build.output \cup {m} |->
                     IF o = m THEN content ELSE build.output[o]]
           b == [build EXCEPT !.output = out]
<1>1. /\ build.stage = "products" /\ Running /\ Built
      /\ BuildFields \subseteq DOMAIN build
      /\ m \in Graph
  BY DEF At, Running, Built, IInv, BuildOK
<1>2. /\ BuildFields \subseteq DOMAIN b
      /\ b.output = out
      /\ \A f \in BuildFields \ {"output"} : b[f] = build[f]
  <2> HIDE DEF out
  <2> QED BY <1>1 DEF BuildFields
<1>3. build' = AfterModule(b, m) BY DEF Emit
<1> HIDE DEF b
<1>4. /\ \A f \in BuildFields \ {"stage", "todo"} : build'[f] = b[f]
      /\ b.todo # {m} => build'.todo = b.todo \ {m} /\ build'.stage = b.stage
      /\ b.todo = {m} =>
           /\ build'.todo = DOMAIN b.key
           /\ b.stage = "products" => build'.stage = "sidecars"
  BY <1>2, <1>3, AfterModuleStage
<1> HIDE DEF out
<1>5. /\ build'.key = build.key /\ build'.entry = build.entry
      /\ build'.level = build.level /\ build'.preloaded = build.preloaded
      /\ build'.next = build.next /\ build'.reused = build.reused
      /\ build'.output = out
      /\ \/ build.todo # {m} /\ build'.todo = build.todo \ {m}
            /\ build'.stage = "products"
         \/ build.todo = {m} /\ build'.todo = Graph /\ build'.stage = "sidecars"
  BY <1>1, <1>2, <1>4 DEF BuildFields, Graph
<1>6. Planned' /\ Numbered' BY <1>1, <1>5, PlanKept DEF Results
<1>7. Graph' = Graph BY <1>5 DEF Graph
<1>8. DOMAIN out = DOMAIN build.output \cup {m} BY DEF out
<1>9. ASSUME NEW o \in DOMAIN out, Whole(out[o])
      PROVE  /\ out[o].module = o
             /\ out[o].source = build.key[o].source
             /\ out[o].level = build.level
             /\ out[o].uses = build.key[o].imports
             /\ build.key[o].interface \subseteq out[o].defines
  <2>1. CASE o = m
    <3>1. out[o] = content BY <2>1, <1>8 DEF out
    <3> QED BY <1>9, <2>1, <3>1
  <2>2. CASE o # m
    <3>1. out[o] = build.output[o] /\ o \in DOMAIN build.output
      BY <2>2, <1>8 DEF out
    <3> QED BY <1>1, <1>9, <3>1 DEF Results, Outputs
  <2> QED BY <2>1, <2>2
<1>10. Outputs'
  <2>1. /\ build.reused \subseteq Graph
        /\ build.level # DefaultLevel => build.reused \cap build.preloaded = {}
        /\ DOMAIN build.output \cap build.preloaded \subseteq build.reused
        /\ DOMAIN build.output \cup build.todo = Graph
        /\ \A r \in build.reused : build.key[r] \in DOMAIN products
    BY <1>1 DEF Results, Outputs
  <2>2. DOMAIN out \cap build.preloaded \subseteq build.reused BY <1>8, <2>1
  <2>3. IF build'.stage = "products"
          THEN DOMAIN out \cup build'.todo = Graph ELSE DOMAIN out = Graph
    BY <1>1, <1>5, <1>8, <2>1
  <2>4. \A r \in build.reused : build.key[r] \in DOMAIN products' BY <2>1
  <2> QED BY <1>5, <1>7, <1>9, <2>1, <2>2, <2>3, <2>4 DEF Outputs, Whole
<1>11. SidecarNumbers' BY DEF Results, SidecarNumbers
<1>12. Stored' BY <1>5, <1>7 DEF Stored
<1> QED BY <1>6, <1>10, <1>11, <1>12 DEF Results

\* Saving a sidecar.
LEMMA SidecarResults ==
  ASSUME IInv, Results, NEW m, WriteSidecar(m)
  PROVE  Results'
<1>1. /\ build.stage = "sidecars" /\ m \in build.todo /\ Running /\ Built
      /\ BuildFields \subseteq DOMAIN build
      /\ m \in Graph /\ Graph \subseteq Modules
      /\ build' = AfterModule(build, m)
      /\ source' = source /\ manifest' = manifest /\ products' = products
  BY DEF WriteSidecar, At, Running, Built, IInv, BuildOK
<1>2. /\ \A f \in BuildFields \ {"stage", "todo"} : build'[f] = build[f]
      /\ build.todo # {m} =>
           build'.todo = build.todo \ {m} /\ build'.stage = build.stage
      /\ build.todo = {m} =>
           /\ build'.todo = DOMAIN build.key
           /\ build.stage # "products" => build'.stage = "manifest"
  BY <1>1, AfterModuleStage
<1>3. /\ build'.key = build.key /\ build'.entry = build.entry
      /\ build'.level = build.level /\ build'.preloaded = build.preloaded
      /\ build'.next = build.next /\ build'.reused = build.reused
      /\ build'.output = build.output
      /\ \/ build.todo # {m} /\ build'.todo = build.todo \ {m}
            /\ build'.stage = "sidecars"
         \/ build.todo = {m} /\ build'.stage = "manifest"
  BY <1>1, <1>2 DEF BuildFields
<1>4. Planned' /\ Numbered' BY <1>1, <1>3, PlanKept DEF Results
<1>5. Graph' = Graph BY <1>3 DEF Graph
<1>6. Outputs'
  <2>1. /\ build.reused \subseteq Graph
        /\ build.level # DefaultLevel => build.reused \cap build.preloaded = {}
        /\ DOMAIN build.output \cap build.preloaded \subseteq build.reused
        /\ DOMAIN build.output = Graph
        /\ \A o \in DOMAIN build.output : Whole(build.output[o]) =>
              /\ build.output[o].module = o
              /\ build.output[o].source = build.key[o].source
              /\ build.output[o].level = build.level
              /\ build.output[o].uses = build.key[o].imports
              /\ build.key[o].interface \subseteq build.output[o].defines
    BY <1>1 DEF Results, Outputs
  <2> QED BY <1>3, <1>5, <2>1 DEF Outputs, Whole
<1>7. /\ \A o \in Modules \ {m} : sidecar'[o] = sidecar[o]
      /\ sidecar'[m] =
           [source |-> build.key[m].source, interface |-> build.key[m].interface,
            next |-> build.next[m], entry |-> build.key[m].entry,
            imports |-> build.key[m].imports]
  BY <1>1 DEF WriteSidecar, IInv, TypeOK
<1>8. SidecarNumbers'
  <2>1. /\ build.next[m] \in Nat
        /\ \A name \in build.key[m].interface :
              name.number \in Nat /\ name.number < build.next[m]
    BY <1>1 DEF Results, Numbered
  <2>2. sidecar'[m].next = build.next[m]
        /\ sidecar'[m].interface = build.key[m].interface
    BY <1>7
  <2>3. \A o \in Modules : sidecar'[o] # NoFile =>
          /\ sidecar'[o].next \in Nat
          /\ \A name \in sidecar'[o].interface :
                name.number \in Nat /\ name.number < sidecar'[o].next
    BY <1>7, <2>1, <2>2 DEF Results, SidecarNumbers
  <2> QED BY <2>3 DEF SidecarNumbers
<1>9. \A o \in Graph \ (build.todo \ {m}) : Written(o)'
  <2> TAKE o \in Graph \ (build.todo \ {m})
  <2>1. CASE o = m BY <1>3, <1>7, <2>1 DEF Written
  <2>2. CASE o # m
    <3>1. Written(o) BY <1>1, <2>2 DEF Results, Stored
    <3> QED BY <1>1, <1>3, <1>7, <2>2, <3>1 DEF Written
  <2> QED BY <2>1, <2>2
<1>10. Stored' BY <1>3, <1>5, <1>9 DEF Stored
<1> QED BY <1>4, <1>6, <1>8, <1>10 DEF Results

\* Saving the manifest, which ends the build.
LEMMA ManifestResults ==
  ASSUME IInv, Results, WriteManifest
  PROVE  Results'
<1>1. /\ build.stage = "manifest" /\ Running /\ Built
      /\ BuildFields \subseteq DOMAIN build
      /\ build' = [build EXCEPT !.stage = "done", !.todo = {}]
      /\ sidecar' = sidecar /\ manifest' = build.key
  BY DEF WriteManifest, Running, Built, IInv, BuildOK
<1>2. /\ build'.key = build.key /\ build'.entry = build.entry
      /\ build'.level = build.level /\ build'.preloaded = build.preloaded
      /\ build'.next = build.next /\ build'.reused = build.reused
      /\ build'.output = build.output /\ build'.stage = "done"
  BY <1>1 DEF BuildFields
<1>3. Planned' /\ Numbered' BY <1>1, <1>2, PlanKept DEF Results
<1>4. Graph' = Graph BY <1>2 DEF Graph
<1>5. Outputs'
  <2>1. /\ build.reused \subseteq Graph
        /\ build.level # DefaultLevel => build.reused \cap build.preloaded = {}
        /\ DOMAIN build.output \cap build.preloaded \subseteq build.reused
        /\ DOMAIN build.output = Graph
        /\ \A o \in DOMAIN build.output : Whole(build.output[o]) =>
              /\ build.output[o].module = o
              /\ build.output[o].source = build.key[o].source
              /\ build.output[o].level = build.level
              /\ build.output[o].uses = build.key[o].imports
              /\ build.key[o].interface \subseteq build.output[o].defines
    BY <1>1 DEF Results, Outputs
  <2> QED BY <1>2, <1>4, <2>1 DEF Outputs, Whole
<1>6. SidecarNumbers' BY <1>1 DEF Results, SidecarNumbers
<1>7. Stored'
  <2>1. \A m \in Graph : Written(m) BY <1>1 DEF Results, Stored
  <2>2. \A m \in Graph : Written(m)' BY <1>1, <1>2, <2>1 DEF Written
  <2> QED BY <1>1, <1>2, <1>4, <2>2 DEF Stored
<1> QED BY <1>3, <1>5, <1>6, <1>7 DEF Results

\* A build that was given up has no results.
LEMMA NoResults ==
  ASSUME ~(Built'), SidecarNumbers'
  PROVE  Results'
<1>1. build'.stage \notin {"products", "sidecars", "manifest", "done"}
  BY DEF Built
<1> QED BY <1>1 DEF Results, Built, Planned, Numbered, Outputs, Stored

LEMMA NextResults ==
  ASSUME IInv, Results, [Next]_vars
  PROVE  Results'
<1>1. ASSUME NEW entry \in Entries, NEW level \in Levels, StartBuild(entry, level)
      PROVE  Results'
  <2>1. entry \in Modules BY GraphAssumption
  <2>2. SidecarNumbers' BY <1>1 DEF StartBuild, Results, SidecarNumbers
  <2>3. /\ build' = Plan(entry, level)
        /\ UNCHANGED <<source, manifest, sidecar, products>>
    BY <1>1 DEF StartBuild
  <2>4. Planned' /\ Numbered' /\ Outputs' /\ Stored'
    BY <2>1, <2>3, PlanResults DEF Results
  <2> QED BY <2>2, <2>4 DEF Results
<1>2. ASSUME NEW entry \in Entries, RejectStrict(entry)
      PROVE  Results'
  BY <1>2, NoResults DEF RejectStrict, Built, Results, SidecarNumbers
<1>3. ASSUME NEW m \in Modules, ReuseProduct(m)
      PROVE  Results'
  <2> DEFINE content == products[build.key[m]]
  <2>1. /\ At("products", m) /\ m \in build.reused /\ Emit(m, content)
        /\ UNCHANGED <<source, manifest, sidecar>> /\ products' = products
    BY <1>3 DEF ReuseProduct
  <2>2. /\ build.stage = "products" /\ Built /\ Running /\ m \in Graph
        /\ build.key[m] \in DOMAIN products
    BY <2>1 DEF At, Built, Running, IInv, BuildOK, Results, Outputs
  <2>3. Whole(content) =>
          /\ content.module = m
          /\ content.source = build.key[m].source
          /\ content.level = build.level
          /\ content.uses = build.key[m].imports
          /\ build.key[m].interface \subseteq content.defines
    <3>1. build.key[m].module = m /\ build.key[m].level = build.level
      BY <2>2 DEF IInv, BuildOK, KeyOf
    <3> QED BY <2>2, <3>1 DEF IInv, TypeOK
  <2> HIDE DEF content
  <2> QED BY <2>1, <2>3, EmitResults
<1>4. ASSUME NEW m \in Modules, LowerPreloaded(m)
      PROVE  Results'
  BY <1>4, NoResults DEF LowerPreloaded, Built, Results, SidecarNumbers
<1>5. ASSUME NEW m \in Modules, WriteProduct(m)
      PROVE  Results'
  <2>1. /\ At("products", m) /\ m \notin build.preloaded
        /\ Emit(m, Product(m))
        /\ UNCHANGED <<source, manifest, sidecar>>
        /\ products' = Put(products, build.key[m], Product(m))
    BY <1>5 DEF WriteProduct
  <2>2. Running /\ m \in Graph BY <2>1 DEF At, Running, IInv, BuildOK
  <2>3. build.key[m].interface \subseteq build.names[m]
    BY <2>1, <2>2 DEF IInv, BuildOK
  <2>4. /\ Product(m).module = m
        /\ Product(m).source = build.key[m].source
        /\ Product(m).level = build.level
        /\ Product(m).uses = build.key[m].imports
        /\ build.key[m].interface \subseteq Product(m).defines
    BY <2>3 DEF Product
  <2>5. DOMAIN products \subseteq DOMAIN products' BY <2>1 DEF Put
  <2> QED BY <2>1, <2>4, <2>5, EmitResults
<1>6. ASSUME NEW m \in Modules, WriteSidecar(m)
      PROVE  Results'
  BY <1>6, SidecarResults
<1>7. CASE WriteManifest BY <1>7, ManifestResults
<1>8. CASE Crash
  <2>1. build'.stage = "crashed" BY <1>8 DEF Crash
  <2>2. \/ sidecar' = sidecar
        \/ \E m \in Graph : sidecar' = [sidecar EXCEPT ![m] = NoFile]
    BY <1>8 DEF Crash
  <2>3. \A o \in Modules : sidecar'[o] = sidecar[o] \/ sidecar'[o] = NoFile
    BY <2>2 DEF IInv, TypeOK
  <2>4. SidecarNumbers' BY <2>3 DEF Results, SidecarNumbers
  <2> QED BY <2>1, <2>4, NoResults DEF Built
<1>9. ASSUME sidecar' = sidecar, manifest' = manifest, build' = build,
             build.stage = "products" => products' = products
      PROVE  Results'
  <2>1. SidecarNumbers' BY <1>9 DEF Results, SidecarNumbers
  <2>2. Graph' = Graph /\ Built' = Built BY <1>9 DEF Graph, Built
  <2>3. CASE ~Built BY <2>1, <2>2, <2>3, NoResults
  <2>4. CASE Built
    <3>1. Planned' /\ Numbered' BY <1>9, <2>4, PlanKept DEF Results
    <3>2. Outputs' BY <1>9, <2>2 DEF Results, Outputs, Whole
    <3>3. Stored' BY <1>9, <2>2 DEF Results, Stored, Written
    <3> QED BY <2>1, <3>1, <3>2, <3>3 DEF Results
  <2> QED BY <2>3, <2>4
<1>10. ASSUME NEW m \in Modules, EditSource(m)
       PROVE  Results'
  BY <1>9, <1>10 DEF EditSource
<1>11. CASE RemoveProduct BY <1>9, <1>11 DEF RemoveProduct, Running
<1>12. CASE UNCHANGED vars BY <1>9, <1>12 DEF vars
<1> QED
  BY <1>1, <1>2, <1>3, <1>4, <1>5, <1>6, <1>7, <1>8, <1>10, <1>11, <1>12 DEF Next

\* The keys, the numbers, the outputs and the stores of a build go together
\* from its plan to its end, whatever is edited or deleted around it.
THEOREM ResultInvariant == Spec => []Results
<1>1. Init => Results
  <2>1. Init => ~Built /\ build.stage = "idle" BY DEF Init, Idle, Built
  <2>2. Init => SidecarNumbers BY DEF Init, SidecarNumbers
  <2> QED BY <2>1, <2>2 DEF Results, Planned, Numbered, Outputs, Stored
<1>2. IInv /\ Results /\ [Next]_vars => Results' BY NextResults
<1> QED BY <1>1, <1>2, CacheInvariant, PTL DEF Spec

\* The products a finished build put in the output directory link with each
\* other: each of them is of the version and level that were asked for, and
\* the names it uses are defined by the product next to it.
THEOREM OutputsLink == Spec => []OutputsFit
<1>1. Results => OutputsFit
  <2> SUFFICES ASSUME Results, build.stage = "done",
                      NEW m \in Graph, Whole(build.output[m])
               PROVE  /\ build.output[m].module = m
                      /\ build.output[m].source = build.key[m].source
                      /\ build.output[m].level = build.level
                      /\ \A d \in Imports[m] : Whole(build.output[d]) =>
                            build.output[m].uses[d] \subseteq build.output[d].defines
    BY DEF OutputsFit
  <2>1. Built /\ Graph = DOMAIN build.output BY DEF Results, Outputs, Built
  <2>2. \A o \in Graph : Whole(build.output[o]) =>
              /\ build.output[o].module = o
              /\ build.output[o].source = build.key[o].source
              /\ build.output[o].level = build.level
              /\ build.output[o].uses = build.key[o].imports
              /\ build.key[o].interface \subseteq build.output[o].defines
    BY <2>1 DEF Results, Outputs
  <2>3. build.key[m].imports = [d \in Imports[m] |-> build.key[d].interface]
    <3>1. build.key[m] =
            [module |-> m, source |-> build.key[m].source,
             interface |-> build.key[m].interface, level |-> build.level,
             entry |-> m = build.entry,
             imports |-> [d \in Imports[m] |-> build.key[d].interface]]
      BY <2>1 DEF Results, Planned
    <3> QED BY <3>1
  <2>4. Imports[m] \subseteq Graph
    BY <2>1, ReachFacts DEF Results, Planned
  <2> QED BY <2>2, <2>3, <2>4
<1> QED BY <1>1, ResultInvariant, PTL

-----------------------------------------------------------------------------
(* Building again.                                                         *)

\* A finished build whose sources and products are all still there.
Repeatable ==
    /\ build.stage = "done"
    /\ \A m \in Graph : source[m] = build.key[m].source
    /\ \A m \in Graph : build.key[m] \in DOMAIN products

\* What the next build finds.
LEMMA RepeatFinds ==
  ASSUME IInv, Results, Repeatable
  PROVE  /\ build.entry \in Graph /\ Graph \subseteq Modules
         /\ Graph = Reach(build.entry)
         /\ manifest = build.key
         /\ \A m \in Graph :
               /\ build.key[m] =
                    [module |-> m, source |-> source[m],
                     interface |-> build.key[m].interface, level |-> build.level,
                     entry |-> m = build.entry,
                     imports |-> [d \in Imports[m] |-> build.key[d].interface]]
               /\ source[m] \in DOMAIN Declares[m]
               /\ Written(m)
               /\ m <= build.entry /\ Imports[m] \subseteq Graph
<1>1. Built BY DEF Repeatable, Built
<1>2. /\ build.entry \in Modules /\ Graph = Reach(build.entry)
      /\ \A m \in Graph :
            /\ build.key[m].source \in DOMAIN Declares[m]
            /\ build.key[m] =
                 [module |-> m, source |-> build.key[m].source,
                  interface |-> build.key[m].interface, level |-> build.level,
                  entry |-> m = build.entry,
                  imports |-> [d \in Imports[m] |-> build.key[d].interface]]
  BY <1>1 DEF Results, Planned
<1>3. /\ manifest = build.key /\ \A m \in Graph : Written(m)
      /\ \A m \in Graph : source[m] = build.key[m].source
  BY DEF Results, Stored, Repeatable
<1> QED BY <1>2, <1>3, ReachFacts

\* At the default level every import stands behind its sidecar again, and at
\* another level none does.
LEMMA RepeatPreloads ==
  ASSUME IInv, Results, Repeatable
  PROVE  Preloaded(build.entry) = IF build.level = DefaultLevel
                                    THEN Graph \ {build.entry} ELSE {}
<1> DEFINE e == build.entry
           key == build.key
           p == PreloadedUpTo(e)
           U == Graph \ {e}
<1>1. /\ e \in Graph /\ Graph \subseteq Modules
      /\ Graph = Reach(e) /\ manifest = key
      /\ \A m \in Graph :
            /\ key[m] = [module |-> m, source |-> source[m],
                         interface |-> key[m].interface, level |-> build.level,
                         entry |-> m = e,
                         imports |-> [d \in Imports[m] |-> key[d].interface]]
            /\ sidecar[m] =
                 [source |-> key[m].source, interface |-> key[m].interface,
                  next |-> build.next[m], entry |-> key[m].entry,
                  imports |-> key[m].imports]
            /\ m <= e /\ Imports[m] \subseteq Graph
  BY RepeatFinds DEF Written
<1>2. Preloaded(e) \subseteq U BY <1>1, PreloadedFacts
<1>3. Graph = DOMAIN key BY DEF Graph
<1>4. CASE build.level # DefaultLevel
  <2> SUFFICES ASSUME NEW m \in Preloaded(e) PROVE FALSE BY <1>4
  <2>1. manifest[m] = SidecarKey(m)
    BY PreloadedFacts DEF Trusted, Recorded
  <2>2. manifest[m].level = DefaultLevel BY <2>1 DEF SidecarKey
  <2>3. m \in Graph /\ manifest[m] = key[m] BY <1>1, <1>2
  <2>4. key[m].level = build.level
    <3>1. key[m] = [module |-> m, source |-> source[m],
                    interface |-> key[m].interface, level |-> build.level,
                    entry |-> m = e,
                    imports |-> [d \in Imports[m] |-> key[d].interface]]
      BY <1>1, <2>3
    <3> QED BY <3>1
  <2> QED BY <1>4, <2>2, <2>3, <2>4
<1>5. CASE build.level = DefaultLevel
  <2>1. ASSUME NEW m \in U
        PROVE  /\ Trusted(m)
               /\ \A d \in Imports[m] :
                    d \in U /\ d < m /\ sidecar[d].interface = sidecar[m].imports[d]
    <3>1. /\ key[m] = [module |-> m, source |-> source[m],
                       interface |-> key[m].interface, level |-> build.level,
                       entry |-> m = e,
                       imports |-> [d \in Imports[m] |-> key[d].interface]]
          /\ sidecar[m].source = key[m].source
          /\ sidecar[m].interface = key[m].interface
          /\ sidecar[m].entry = key[m].entry
          /\ sidecar[m].imports = key[m].imports
          /\ sidecar[m] # NoFile
      <4>1. /\ key[m] = [module |-> m, source |-> source[m],
                         interface |-> key[m].interface, level |-> build.level,
                         entry |-> m = e,
                         imports |-> [d \in Imports[m] |-> key[d].interface]]
            /\ sidecar[m] =
                 [source |-> key[m].source, interface |-> key[m].interface,
                  next |-> build.next[m], entry |-> key[m].entry,
                  imports |-> key[m].imports]
        BY <1>1
      <4>2. sidecar[m] # NoFile BY <4>1 DEF NoFile
      <4> QED BY <4>1, <4>2
    <3>2. SidecarKey(m) = key[m] BY <1>5, <3>1 DEF SidecarKey
    <3>3. m \in DOMAIN manifest /\ manifest[m] = key[m] BY <1>1, <1>3
    <3>4. key[m] \in DOMAIN products BY DEF Repeatable
    <3>5. Trusted(m) BY <3>1, <3>2, <3>3, <3>4 DEF Trusted, Recorded
    <3>6. ASSUME NEW d \in Imports[m]
          PROVE  d \in U /\ d < m /\ sidecar[d].interface = sidecar[m].imports[d]
      <4>1. d \in Graph /\ m \in Modules /\ e \in Modules BY <1>1
      <4>2. d \in Modules /\ d < m /\ m <= e BY <1>1, <4>1, GraphAssumption
      <4>3. d \in Nat /\ m \in Nat /\ e \in Nat
        BY <4>1, <4>2, GraphAssumption DEF Modules
      <4>4. d \in U BY <4>1, <4>2, <4>3
      <4>5. sidecar[d].interface = key[d].interface
        <5>1. sidecar[d] =
                [source |-> key[d].source, interface |-> key[d].interface,
                 next |-> build.next[d], entry |-> key[d].entry,
                 imports |-> key[d].imports]
          BY <1>1, <4>1
        <5> QED BY <5>1
      <4>6. key[m].imports = [x \in Imports[m] |-> key[x].interface]
        BY <3>1
      <4> QED BY <3>1, <4>2, <4>4, <4>5, <4>6
    <3> QED BY <3>5, <3>6
  <2> DEFINE Good == {n \in Nat : n <= N => U \cap (1..n) \subseteq p[n]}
  <2>2. /\ p[0] = {}
        /\ \A n \in 1..N : p[n] = p[n-1] \cup {m \in {n} \ {e} : Preloadable(m, p[n-1])}
    BY PreloadedUpToDef
  <2> HIDE DEF p, U
  <2>3. 0 \in Good BY <2>2
  <2>4. ASSUME NEW n \in Nat, n \in Good PROVE n + 1 \in Good
    <3> SUFFICES ASSUME n + 1 <= N PROVE U \cap (1..(n+1)) \subseteq p[n+1]
      OBVIOUS
    <3>1. n + 1 \in 1..N /\ (n + 1) - 1 = n /\ n <= N BY GraphAssumption
    <3>2. U \cap (1..n) \subseteq p[n] BY <2>4, <3>1
    <3>3. p[n+1] = p[n] \cup {m \in {n+1} \ {e} : Preloadable(m, p[n])}
      BY <2>2, <3>1
    <3>4. \A m \in 1..(n+1) : m \in 1..n \/ m = n + 1 OBVIOUS
    <3>5. ASSUME n + 1 \in U PROVE n + 1 \in p[n+1]
      <4>1. Imports[n+1] \subseteq p[n]
        <5> SUFFICES ASSUME NEW d \in Imports[n+1] PROVE d \in p[n] OBVIOUS
        <5>1. d \in U /\ d < n + 1 BY <2>1, <3>5
        <5>2. d \in 1..n BY <1>1, <5>1, GraphAssumption DEF Modules, U
        <5> QED BY <3>2, <5>1, <5>2
      <4>2. Preloadable(n+1, p[n]) BY <2>1, <3>5, <4>1 DEF Preloadable
      <4>3. n + 1 # e BY <3>5 DEF U
      <4> QED BY <3>3, <4>2, <4>3
    <3> QED BY <3>2, <3>3, <3>4, <3>5
  <2>5. Nat \subseteq Good BY <2>3, <2>4, NatSetInduction
  <2>6. U \cap (1..N) \subseteq p[N] BY <2>5, GraphAssumption
  <2>7. U \subseteq 1..N /\ U \subseteq Reach(e) BY <1>1 DEF U, Modules
  <2>8. U \subseteq Preloaded(e) BY <2>6, <2>7 DEF Preloaded, p
  <2> QED BY <1>2, <1>5, <2>8 DEF U
<1> QED BY <1>4, <1>5

\* The next build numbers the bodies it parses as the last one did.
LEMMA RepeatInterfaces ==
  ASSUME IInv, Results, Repeatable
  PROVE  LET key == Plan(build.entry, build.level).key IN
         DOMAIN key = Graph /\ \A m \in Graph : key[m] = build.key[m]
<1> DEFINE e == build.entry
           P == Preloaded(e)
           start == HighWater(P)
           d == Counter(Graph \ P, start)
           key == Plan(e, build.level).key
           interface == [m \in Graph |-> IF m \in P THEN sidecar[m].interface
                                         ELSE PublicNames(m, d[m-1])]
<1>1. /\ e \in Graph /\ Graph \subseteq Modules
      /\ Graph = Reach(e)
      /\ \A m \in Graph :
            /\ build.key[m] =
                 [module |-> m, source |-> source[m],
                  interface |-> build.key[m].interface, level |-> build.level,
                  entry |-> m = e,
                  imports |-> [x \in Imports[m] |-> build.key[x].interface]]
            /\ source[m] \in DOMAIN Declares[m]
            /\ Written(m)
            /\ m <= e /\ Imports[m] \subseteq Graph
  BY RepeatFinds
<1>2. key = [m \in Graph |->
               [module |-> m, source |-> source[m],
                interface |-> interface[m], level |-> build.level,
                entry |-> m = e,
                imports |-> [x \in Imports[m] |-> interface[x]]]]
  BY <1>1 DEF Plan
<1>3. P = IF build.level = DefaultLevel THEN Graph \ {e} ELSE {}
  BY RepeatPreloads
<1>4. /\ Built
      /\ build.preloaded \subseteq Graph \ {e}
      /\ \A m \in Graph : build.next[m] \in Nat
  BY DEF Built, Repeatable, Results, Planned, Numbered
<1>5. PICK c \in [0..N -> Nat] :
        /\ Highest(c[0], build.next, build.preloaded)
        /\ Counts(c, build.key, Graph \ build.preloaded)
        /\ \A m \in Graph \ build.preloaded :
              /\ build.next[m] = c[m]
              /\ build.key[m].interface = Public(m, build.key[m].source, c[m-1])
  BY <1>4 DEF Results, Numbered
<1>6. \A m \in Graph : /\ sidecar[m].interface = build.key[m].interface
                       /\ sidecar[m].next = build.next[m]
                       /\ sidecar[m] # NoFile
                       /\ build.key[m].source = source[m]
  <2> TAKE m \in Graph
  <2>1. Written(m) BY <1>1
  <2>2. build.key[m].source = source[m] BY DEF Repeatable
  <2> QED BY <2>1, <2>2 DEF Written, NoFile
<1>7. /\ e \in 1..N /\ N \in Nat /\ e - 1 \in 0..N
      /\ \A m \in Graph : m \in 1..N /\ m - 1 \in 0..N
  BY <1>1, GraphAssumption DEF Modules
<1> HIDE DEF P, start, d
<1>8. P \in SUBSET Modules BY <1>1, <1>3
<1>9. ASSUME NEW x, Highest(x, build.next, P)
      PROVE  /\ x \in Nat /\ d \in [0..N -> Nat] /\ d[0] = x
             /\ Counts(d, build.key, Graph \ P)
  <2>1. start = x /\ x \in Nat
    BY <1>3, <1>6, <1>8, <1>9, HighWaterIs DEF Results, start
  <2> DEFINE bodies == Graph \ P
  <2>2. \A n \in bodies \cap Modules :
          source[n] \in DOMAIN Declares[n] /\ build.key[n].source = source[n]
    BY <1>1, <1>6
  <2> HIDE DEF bodies
  <2>3. /\ Counter(bodies, x) \in [0..N -> Nat]
        /\ Counter(bodies, x)[0] = x
        /\ Counts(Counter(bodies, x), build.key, bodies)
    BY <2>1, <2>2, CounterCounts
  <2> QED BY <2>1, <2>3 DEF d, bodies
<1>10. ASSUME NEW m \in Graph \ P, d[m-1] = c[m-1], m \notin build.preloaded
       PROVE  PublicNames(m, d[m-1]) = build.key[m].interface
  <2>1. PublicNames(m, d[m-1]) = Public(m, source[m], d[m-1])
    BY DEF PublicNames, Names, Public, Declared
  <2>2. build.key[m].interface = Public(m, source[m], c[m-1])
    BY <1>5, <1>6, <1>10
  <2> QED BY <1>10, <2>1, <2>2
<1>11. ASSUME NEW m \in Graph \ P
       PROVE  PublicNames(m, d[m-1]) = build.key[m].interface
  <2>1. CASE build.level = DefaultLevel
    <3> DEFINE B == Graph \ build.preloaded
    <3>1. m = e /\ P = Graph \ {e} BY <1>3, <1>11, <2>1
    <3> PICK k \in 0..N : k = e - 1 BY <1>7
    <3>2. /\ \A n \in 0..k : c[n] <= c[k]
          /\ c[k] = c[0] \/ \E n \in B \cap (1..k) : c[k] = c[n]
      <4>1. \A n \in B \cap Modules : build.key[n].source \in DOMAIN Declares[n]
        BY <1>1, <1>6
      <4>2. Counts(c, build.key, B) BY <1>5
      <4> HIDE DEF B
      <4>3. Grown(c, B, k) BY <4>1, <4>2, CountsGrow
      <4> QED BY <4>3 DEF Grown
    <3>3. Highest(c[k], build.next, P)
      <4>1. ASSUME NEW n \in P PROVE build.next[n] <= c[k]
        <5>1. n \in Graph /\ n # e /\ n \in 1..N /\ n \in 0..k
          <6>1. n \in Graph /\ n # e /\ n <= e /\ n \in 1..N
            BY <1>1, <1>7, <3>1
          <6> QED BY <1>7, <6>1
        <5>2. CASE n \in B
          <6>1. build.next[n] = c[n] BY <1>5, <5>2
          <6>2. c[n] <= c[k] BY <3>2, <5>1
          <6> QED BY <6>1, <6>2
        <5>3. CASE n \in build.preloaded
          <6>1. build.next[n] <= c[0] BY <1>5, <5>3 DEF Highest
          <6>2. c[0] <= c[k] BY <1>7, <3>2
          <6>3. build.next[n] \in Nat BY <1>4, <5>1
          <6>4. 0 \in 0..N BY <1>7
          <6>5. c[0] \in Nat /\ c[k] \in Nat BY <6>4
          <6> HIDE DEF B
          <6> QED BY <6>1, <6>2, <6>3, <6>5
        <5> QED BY <5>1, <5>2, <5>3
      <4>2. c[k] \in {0} \cup {build.next[n] : n \in P}
        <5>1. CASE c[k] = c[0]
          <6>1. c[0] \in {0} \cup {build.next[n] : n \in build.preloaded}
            BY <1>5 DEF Highest
          <6>2. build.preloaded \subseteq P BY <1>4, <3>1
          <6> QED BY <5>1, <6>1, <6>2
        <5>2. ASSUME NEW n \in B \cap (1..k), c[k] = c[n]
              PROVE  c[k] \in {0} \cup {build.next[i] : i \in P}
          <6>1. n \in P BY <1>7, <3>1
          <6>2. build.next[n] = c[n] BY <1>5
          <6> QED BY <5>2, <6>1, <6>2
        <5> QED BY <3>2, <5>1, <5>2
      <4> QED BY <4>1, <4>2 DEF Highest
    <3>4. /\ d \in [0..N -> Nat] /\ d[0] = c[k]
          /\ Counts(d, build.key, Graph \ P)
      BY <1>9, <3>3
    <3>5. Graph \ P = {e} BY <1>1, <3>1
    <3>6. d[k] = d[0]
      <4>1. \A n \in {e} \cap Modules : build.key[n].source \in DOMAIN Declares[n]
        BY <1>1, <1>6
      <4>2. Counts(d, build.key, {e}) BY <3>4, <3>5
      <4>3. d[k] = d[0] \/ \E n \in {e} \cap (1..k) : d[k] = d[n]
        <5>1. Grown(d, {e}, k) BY <3>4, <4>1, <4>2, CountsGrow
        <5> QED BY <5>1 DEF Grown
      <4>4. {e} \cap (1..k) = {} BY <1>7
      <4> QED BY <4>3, <4>4
    <3> QED BY <1>4, <1>10, <3>1, <3>4, <3>6
  <2>2. CASE build.level # DefaultLevel
    <3>1. P = {} BY <1>3, <2>2
    <3>2. build.preloaded = {}
      <4>1. /\ build.reused \cap build.preloaded = {}
            /\ DOMAIN build.output \cap build.preloaded \subseteq build.reused
            /\ DOMAIN build.output = Graph
        BY <1>4, <2>2 DEF Results, Outputs, Repeatable
      <4> QED BY <1>4, <4>1
    <3>3. Highest(0, build.next, P) /\ c[0] = 0 BY <1>5, <3>1, <3>2 DEF Highest
    <3>4. d[0] = 0 /\ Counts(d, build.key, Graph) BY <1>9, <3>1, <3>3
    <3>5. Counts(c, build.key, Graph) BY <1>5, <3>2
    <3>6. d[m-1] = c[m-1]
      <4>1. N \in 0..N /\ m - 1 \in 0..N BY <1>7
      <4> QED BY <3>3, <3>4, <3>5, <4>1, CountsAgree
    <3> QED BY <1>10, <3>2, <3>6
  <2> QED BY <2>1, <2>2
<1>12. \A m \in Graph : interface[m] = build.key[m].interface
  BY <1>6, <1>11
<1> HIDE DEF interface
<1>13. ASSUME NEW m \in Graph PROVE key[m] = build.key[m]
  <2>1. key[m] = [module |-> m, source |-> source[m],
                  interface |-> interface[m], level |-> build.level,
                  entry |-> m = e,
                  imports |-> [x \in Imports[m] |-> interface[x]]]
    BY <1>2
  <2>2. build.key[m] =
          [module |-> m, source |-> source[m],
           interface |-> build.key[m].interface, level |-> build.level,
           entry |-> m = e,
           imports |-> [x \in Imports[m] |-> build.key[x].interface]]
    BY <1>1
  <2>3. Imports[m] \subseteq Graph BY <1>1
  <2>4. [x \in Imports[m] |-> interface[x]]
          = [x \in Imports[m] |-> build.key[x].interface]
    BY <1>12, <2>3
  <2> QED BY <1>12, <2>1, <2>2, <2>4
<1>14. DOMAIN key = Graph BY <1>2
<1> QED BY <1>13, <1>14

\* A module whose key is the recorded one has no public impact.
LEMMA RecordedUnimpacted ==
  ASSUME NEW key, \A m \in DOMAIN key : m \in DOMAIN manifest /\ manifest[m] = key[m]
  PROVE  PublicImpact(key) = {}
<1> DEFINE i == PublicImpactUpTo(key)
           Good == {n \in Nat : n <= N => i[n] = {}}
<1>1. /\ i[0] = {}
      /\ \A n \in 1..N : i[n] = i[n-1] \cup {m \in {n} : Impacted(key, m, i[n-1])}
  BY PublicImpactUpToDef
<1> HIDE DEF i
<1>2. 0 \in Good BY <1>1
<1>3. ASSUME NEW n \in Nat, n \in Good PROVE n + 1 \in Good
  <2> SUFFICES ASSUME n + 1 <= N PROVE i[n+1] = {} OBVIOUS
  <2>1. n + 1 \in 1..N /\ (n + 1) - 1 = n /\ n <= N BY GraphAssumption
  <2>2. i[n] = {} BY <1>3, <2>1
  <2>3. i[n+1] = i[n] \cup {m \in {n+1} : Impacted(key, m, i[n])} BY <1>1, <2>1
  <2>4. \A m : ~Impacted(key, m, {}) BY DEF Impacted, InterfaceChanged
  <2> QED BY <2>2, <2>3, <2>4
<1>4. Nat \subseteq Good BY <1>2, <1>3, NatSetInduction
<1> QED BY <1>4, GraphAssumption DEF PublicImpact, i

\* Building again with nothing changed reuses every product, whatever the
\* module graph, and at the default level every import stays unparsed.
THEOREM RepeatedBuildReuses == Spec => []RepeatReuses
<1>1. IInv /\ Results => RepeatReuses
  <2> SUFFICES ASSUME IInv, Results, Repeatable
               PROVE  /\ Plan(build.entry, build.level).reused = Graph
                      /\ build.level = DefaultLevel =>
                           Preloaded(build.entry) = Graph \ {build.entry}
    BY DEF RepeatReuses, Repeatable
  <2> DEFINE key == Plan(build.entry, build.level).key
  <2>1. DOMAIN key = Graph /\ \A m \in Graph : key[m] = build.key[m]
    BY RepeatInterfaces
  <2>2. Plan(build.entry, build.level).reused = Reusable(key) BY DEF Plan
  <2> HIDE DEF key
  <2>3. manifest = build.key /\ DOMAIN manifest = Graph
    BY RepeatFinds DEF Graph
  <2>4. PublicImpact(key) = {} BY <2>1, <2>3, RecordedUnimpacted
  <2>5. \A m \in Graph : build.key[m] \in DOMAIN products BY DEF Repeatable
  <2>6. Reusable(key) = Graph BY <2>1, <2>3, <2>4, <2>5 DEF Reusable
  <2> QED BY <2>2, <2>6, RepeatPreloads
<1> QED BY <1>1, CacheInvariant, ResultInvariant, PTL
=============================================================================
