---------------------------- MODULE ModuleCache ----------------------------
(***************************************************************************)
(* The persistent module-product cache behind                              *)
(*   compiler_design --emit-module-bytecode OUT --module-cache DIR         *)
(* Three stores survive a build: the manifest (one record per module of    *)
(* the last build), one interface sidecar per module, and the product      *)
(* files, each named by its cache key.  A build loads the module graph,    *)
(* standing a trusted sidecar in for an imported body; numbers the linkage *)
(* names of the bodies it does check; plans which products to copy; then   *)
(* writes products, sidecars and manifest in that order, each in place, so *)
(* that a killed process leaves any prefix of those writes.                *)
(*                                                                         *)
(* A module is a number and imports only smaller ones: the order in which  *)
(* loadFile completes units.  A source text is the index of a version; a   *)
(* version is its sequence of top-level declarations.  Hashes are taken as *)
(* injective.  One entry per build.                                        *)
(***************************************************************************)
EXTENDS Naturals, Sequences, FiniteSets, FiniteSetsExt

CONSTANTS
    N,            \* number of modules
    Imports,      \* Imports[m]: the modules whose paths m imports
    Declares,     \* Declares[m][v]: the declarations of version v of m
    Levels,       \* optimisation levels a build may be asked for
    Entries,      \* modules a build may be asked for
    MaxBuilds, MaxEdits, MaxCrashes, MaxRemovals  \* bounds of the model

Modules == 1..N
DefaultLevel == "O0"
NoFile == [missing |-> TRUE]
Torn == [torn |-> TRUE]

ASSUME GraphAssumption ==
    /\ N \in Nat \ {0}
    /\ Imports \in [Modules -> SUBSET Modules]
    /\ \A m \in Modules : \A d \in Imports[m] : d < m
    /\ Entries \subseteq Modules

ASSUME SourceAssumption ==
    /\ DOMAIN Declares = Modules
    /\ \A m \in Modules : 1 \in DOMAIN Declares[m]
    /\ \A m \in Modules : \A v \in DOMAIN Declares[m] :
          Declares[m][v] \in Seq([base : STRING, public : BOOLEAN])
    /\ DefaultLevel \in Levels

VARIABLES
    source,       \* the version of each source file
    manifest,     \* module-cache.cdbc: a record (its key) per module
    sidecar,      \* interfaces/interface-*.cdi, or NoFile if unreadable
    products,     \* products/product-KEY.cdbc: contents, or Torn
    build,        \* the running, or the last, build
    spent         \* how much of each bound has been used

vars == <<source, manifest, sidecar, products, build, spent>>

-----------------------------------------------------------------------------
(* Loading: which imported modules stay behind their sidecars.             *)

\* The modules loadFile reaches: what every import-closed set around the
\* entry contains.
Closed(S) == \A m \in S : Imports[m] \subseteq S
Reach(entry) == {m \in Modules : \A S \in SUBSET Modules : entry \in S /\ Closed(S) => m \in S}

\* The key the front end expects of a sidecar's product: ModuleCacheModule's
\* default optimisation identity, whatever level this build was asked for.
SidecarKey(m) ==
    [module |-> m, source |-> sidecar[m].source,
     interface |-> sidecar[m].interface, level |-> DefaultLevel,
     entry |-> sidecar[m].entry, imports |-> sidecar[m].imports]

\* Seeded fault: trusting a sidecar with a product, without the manifest preflight.
RecordedAnyway(m) == TRUE

Recorded(m) == m \in DOMAIN manifest /\ manifest[m] = SidecarKey(m)

Trusted(m) ==
    /\ sidecar[m] # NoFile
    /\ sidecar[m].source = source[m]
    /\ Recorded(m)
    /\ SidecarKey(m) \in DOMAIN products

\* An entry is always parsed; an import stands behind its sidecar only when
\* every dependency does, with the interface the sidecar was checked against.
\* Dependencies are loaded first, so the modules are decided in order.
Preloadable(m, before) ==
    /\ Trusted(m)
    /\ Imports[m] \subseteq before
    /\ \A d \in Imports[m] : sidecar[d].interface = sidecar[m].imports[d]

PreloadedUpTo(entry) ==
    LET upTo[n \in 0..N] ==
            IF n = 0 THEN {}
            ELSE upTo[n-1] \cup {m \in {n} \ {entry} : Preloadable(m, upTo[n-1])}
    IN  upTo

Preloaded(entry) == PreloadedUpTo(entry)[N] \cap Reach(entry)

-----------------------------------------------------------------------------
(* Checking: linkage names "base#number" and public interfaces.            *)

\* Seeded fault: starting past the visible names only.
HighWaterOfNames(preloaded) ==
    Max({0} \cup {name.number + 1 : name \in UNION {sidecar[m].interface : m \in preloaded}})

\* Where the allocator starts: past every name a preloaded interface shows
\* and past the high-water mark its sidecar carries.
HighWater(preloaded) ==
    Max({0} \cup {sidecar[m].next : m \in preloaded}
            \cup {name.number + 1 : name \in UNION {sidecar[m].interface : m \in preloaded}})

Declared(m) == Declares[m][source[m]]

\* The allocator after each module: bodies are checked in graph order.
Counter(bodies, start) ==
    LET counter[m \in 0..N] ==
            IF m = 0 THEN start
            ELSE counter[m-1] + (IF m \in bodies THEN Len(Declared(m)) ELSE 0)
    IN  counter

\* The linkage names of m's declarations when numbering starts at start.
Names(m, start, which) ==
    {[base |-> Declared(m)[i].base, number |-> start + i - 1] :
        i \in {j \in DOMAIN Declared(m) : which \subseteq {Declared(m)[j].public}}}

AllNames(m, start) == Names(m, start, {})
PublicNames(m, start) == Names(m, start, {TRUE})

-----------------------------------------------------------------------------
(* Planning: which products the cache already holds.                       *)

InterfaceChanged(key, m) ==
    m \notin DOMAIN manifest \/ manifest[m].interface # key[m].interface

\* Modules whose own public interface, or that of a module they reach, is
\* not the one in the manifest; dependencies are evaluated first.
Impacted(key, m, before) ==
    m \in DOMAIN key /\ (InterfaceChanged(key, m) \/ Imports[m] \cap before # {})

PublicImpactUpTo(key) ==
    LET upTo[n \in 0..N] ==
            IF n = 0 THEN {}
            ELSE upTo[n-1] \cup {m \in {n} : Impacted(key, m, upTo[n-1])}
    IN  upTo

PublicImpact(key) == PublicImpactUpTo(key)[N]

Reusable(key) ==
    {m \in DOMAIN key :
        /\ m \in DOMAIN manifest
        /\ manifest[m] = key[m]
        /\ Imports[m] \cap PublicImpact(key) = {}
        /\ key[m] \in DOMAIN products}

Plan(entry, level) ==
    LET graph     == Reach(entry)
        preloaded == Preloaded(entry)
        counter   == Counter(graph \ preloaded, HighWater(preloaded))
        interface == [m \in graph |-> IF m \in preloaded THEN sidecar[m].interface
                                      ELSE PublicNames(m, counter[m-1])]
        key       == [m \in graph |->
                        [module |-> m, source |-> source[m],
                         interface |-> interface[m], level |-> level,
                         entry |-> m = entry,
                         imports |-> [d \in Imports[m] |-> interface[d]]]]
    IN  [stage |-> "products", entry |-> entry, level |-> level,
         preloaded |-> preloaded,
         names |-> [m \in graph \ preloaded |-> AllNames(m, counter[m-1])],
         next |-> [m \in graph |-> IF m \in preloaded THEN sidecar[m].next
                                   ELSE counter[m]],
         key |-> key, reused |-> Reusable(key),
         todo |-> graph, output |-> [m \in {} |-> Torn]]

-----------------------------------------------------------------------------
(* The steps of a build.                                                   *)

Idle == [stage |-> "idle"]
Running == build.stage \in {"products", "sidecars", "manifest"}
Graph == DOMAIN build.key
At(stage, m) ==
    build.stage = stage /\ m \in build.todo /\ \A o \in build.todo : m <= o

Init ==
    /\ source = [m \in Modules |-> 1]
    /\ manifest = [m \in {} |-> Torn]
    /\ sidecar = [m \in Modules |-> NoFile]
    /\ products = [k \in {} |-> Torn]
    /\ build = Idle
    /\ spent = [builds |-> 0, edits |-> 0, crashes |-> 0, removals |-> 0]

Spend(what, max) ==
    /\ spent[what] < max
    /\ spent' = [spent EXCEPT ![what] = @ + 1]

\* loadFiles, check, buildModuleCacheModules and planModuleCacheBuild: all
\* reads of the stores come before the first write.
StartBuild(entry, level) ==
    /\ ~Running
    /\ Spend("builds", MaxBuilds)
    /\ build' = Plan(entry, level)
    /\ UNCHANGED <<source, manifest, sidecar, products>>

\* --module-cache-strict stops at the first import without a trusted sidecar.
RejectStrict(entry) ==
    /\ ~Running
    /\ Spend("builds", MaxBuilds)
    /\ Preloaded(entry) # Reach(entry) \ {entry}
    /\ build' = [stage |-> "rejected"]
    /\ UNCHANGED <<source, manifest, sidecar, products>>

\* The build record after the file of module m, the next stage's when it was
\* the last one.
AfterModule(b, m) ==
    IF b.todo # {m} THEN [b EXCEPT !.todo = @ \ {m}]
    ELSE [b EXCEPT !.todo = DOMAIN b.key,
                   !.stage = IF @ = "products" THEN "sidecars" ELSE "manifest"]

Emit(m, content) ==
    build' = AfterModule([build EXCEPT
                 !.output = [o \in DOMAIN @ \cup {m} |-> IF o = m THEN content ELSE @[o]]], m)

Product(m) ==
    [module |-> m, source |-> build.key[m].source, level |-> build.level,
     defines |-> build.names[m], uses |-> build.key[m].imports]

Put(store, k, content) ==
    [o \in DOMAIN store \cup {k} |-> IF o = k THEN content ELSE store[o]]

ReuseProduct(m) ==
    /\ At("products", m)
    /\ m \in build.reused
    /\ Emit(m, products[build.key[m]])
    /\ UNCHANGED <<source, manifest, sidecar, products, spent>>

\* A module to be rebuilt whose body was never parsed: compileModule throws.
LowerPreloaded(m) ==
    /\ At("products", m)
    /\ m \in build.preloaded \ build.reused
    /\ build' = [stage |-> "failed", unlowered |-> build.preloaded \ build.reused]
    /\ UNCHANGED <<source, manifest, sidecar, products, spent>>

\* Seeded fault: writing to the path of the module's previous record.
WriteProductAtOldPath(m) ==
    /\ At("products", m)
    /\ m \notin build.reused \cup build.preloaded
    /\ products' = Put(products, IF m \in DOMAIN manifest THEN manifest[m] ELSE build.key[m],
                       Product(m))
    /\ Emit(m, Product(m))
    /\ UNCHANGED <<source, manifest, sidecar, spent>>

\* Seeded fault: a path that leaves the optimisation level out.
WriteProductAnyLevel(m) ==
    /\ At("products", m)
    /\ m \notin build.reused \cup build.preloaded
    /\ products' = Put(products, [build.key[m] EXCEPT !.level = DefaultLevel], Product(m))
    /\ Emit(m, Product(m))
    /\ UNCHANGED <<source, manifest, sidecar, spent>>

WriteProduct(m) ==
    /\ At("products", m)
    /\ m \notin build.reused \cup build.preloaded
    /\ products' = Put(products, build.key[m], Product(m))
    /\ Emit(m, Product(m))
    /\ UNCHANGED <<source, manifest, sidecar, spent>>

WriteSidecar(m) ==
    /\ At("sidecars", m)
    /\ sidecar' = [sidecar EXCEPT ![m] =
           [source |-> build.key[m].source, interface |-> build.key[m].interface,
            next |-> build.next[m], entry |-> build.key[m].entry,
            imports |-> build.key[m].imports]]
    /\ build' = AfterModule(build, m)
    /\ UNCHANGED <<source, manifest, products, spent>>

WriteManifest ==
    /\ build.stage = "manifest"
    /\ manifest' = build.key
    /\ build' = [build EXCEPT !.stage = "done", !.todo = {}]
    /\ UNCHANGED <<source, sidecar, products, spent>>

-----------------------------------------------------------------------------
(* What happens around the builds.                                         *)

\* The process is killed.  The file being written was truncated when it was
\* opened: a torn product is only a name, a torn sidecar is unreadable, and a
\* manifest cut between two records is a valid shorter one.
Crash ==
    /\ Running
    /\ Spend("crashes", MaxCrashes)
    /\ build' = [stage |-> "crashed"]
    /\ source' = source
    /\ \/ UNCHANGED <<manifest, sidecar, products>>
       \/ \E m \in Graph :
            /\ At("products", m)
            /\ m \notin build.reused \cup build.preloaded
            /\ products' = Put(products, build.key[m], Torn)
            /\ UNCHANGED <<manifest, sidecar>>
       \/ \E m \in Graph :
            /\ At("sidecars", m)
            /\ sidecar' = [sidecar EXCEPT ![m] = NoFile]
            /\ UNCHANGED <<manifest, products>>
       \/ \E k \in 0..N :
            /\ build.stage = "manifest"
            /\ manifest' = [m \in {g \in Graph : g <= k} |-> build.key[m]]
            /\ UNCHANGED <<sidecar, products>>

\* A file is saved.  A running build has read its sources already.
EditSource(m) ==
    /\ ~Running
    /\ Spend("edits", MaxEdits)
    /\ \E v \in DOMAIN Declares[m] \ {source[m]} : source' = [source EXCEPT ![m] = v]
    /\ UNCHANGED <<manifest, sidecar, products, build>>

\* A product file is deleted.
RemoveProduct ==
    /\ ~Running
    /\ Spend("removals", MaxRemovals)
    /\ \E k \in DOMAIN products : products' = [o \in DOMAIN products \ {k} |-> products[o]]
    /\ UNCHANGED <<source, manifest, sidecar, build>>

Next ==
    \/ \E entry \in Entries : \E level \in Levels : StartBuild(entry, level)
    \/ \E entry \in Entries : RejectStrict(entry)
    \/ \E m \in Modules : ReuseProduct(m)
    \/ \E m \in Modules : LowerPreloaded(m)
    \/ \E m \in Modules : WriteProduct(m)
    \/ \E m \in Modules : WriteSidecar(m)
    \/ WriteManifest
    \/ Crash
    \/ \E m \in Modules : EditSource(m)
    \/ RemoveProduct

Spec == Init /\ [][Next]_vars
-----------------------------------------------------------------------------
(* Properties.                                                             *)

Whole(content) == content # Torn

\* The stores have their shapes, and a product that was written to the end is
\* a compilation of exactly the module, version, level and dependency
\* interfaces its file name stands for: what makes copying by name sound.
TypeOK ==
    /\ DOMAIN source = Modules /\ DOMAIN sidecar = Modules
    /\ \A m \in Modules : source[m] \in DOMAIN Declares[m]
    /\ \A m \in DOMAIN manifest : manifest[m].module = m
    /\ \A m \in Modules : sidecar[m] # NoFile =>
          sidecar[m].source \in DOMAIN Declares[m] /\ DOMAIN sidecar[m].imports = Imports[m]
    /\ \A k \in DOMAIN products : Whole(products[k]) =>
          /\ products[k].module = k.module
          /\ products[k].source = k.source
          /\ products[k].level = k.level
          /\ products[k].uses = k.imports
          /\ k.interface \subseteq products[k].defines

\* What a finished build leaves in the output directory links: each product
\* is of the version and the level the build was asked for, and the names it
\* was lowered against are names the emitted product of its dependency
\* defines, whichever of the two was copied and whichever was rebuilt.
OutputsFit ==
    build.stage = "done" =>
        \A m \in Graph : Whole(build.output[m]) =>
            /\ build.output[m].module = m
            /\ build.output[m].source = build.key[m].source
            /\ build.output[m].level = build.level
            /\ \A d \in Imports[m] : Whole(build.output[d]) =>
                  build.output[m].uses[d] \subseteq build.output[d].defines

\* The front end's test of a sidecar (loadCachedInterface, with the manifest
\* preflight) and the planner's test of a product agree, after crashes and
\* deletions too, for a build at the default level of modules that were not
\* entries: no body is left unparsed that the planner then wants lowered.
PreloadedReusedAtDefault ==
    build.stage = "products" =>
        \A m \in build.preloaded \ build.reused :
            build.level # DefaultLevel \/ (m \in DOMAIN manifest /\ manifest[m].entry)

\* Building again with nothing changed reuses every product, the entry's
\* too, although its names are numbered anew behind preloaded interfaces;
\* at the default level the strict policy then has nothing to reject.
RepeatReuses ==
    ( /\ build.stage = "done"
      /\ \A m \in Graph : source[m] = build.key[m].source
      /\ \A m \in Graph : build.key[m] \in DOMAIN products )
    =>
      /\ Plan(build.entry, build.level).reused = Graph
      /\ build.level = DefaultLevel => Preloaded(build.entry) = Graph \ {build.entry}
=============================================================================
