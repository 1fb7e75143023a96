# Verification of the Cd compiler and its virtual machine

The repository holds a compiler for the language Cd, written in C++ (`src/`,
`include/`), and the virtual machine that links and runs its bytecode, written
in Rust (`vm-rs/`).  This directory holds TLA+ models of its stateful parts,
TLC configurations that check them, and TLAPS proofs.  Paths below are relative
to the repository's root.

## Inventory

| Component | Source | State | Operations | What makes it correct |
|---|---|---|---|---|
| Cooperative scheduler | `vm-rs/src/scheduler.rs` | task map, FIFO queue, running task, two join tables, identity counter | new, spawn, dispatch, wake, cancel, join, cancel_pending_except | queue = ready tasks; join tables inverse of each other; no lost wake-up; FIFO; final outcomes |
| Cooperative session | `vm-rs/src/vm.rs` (`CooperativeRun`) | task payloads (frames, outcome, trace), budgets, output and event lists, debugger state, cancellation token | spawn, step, run_until_waiting, join, wake, cancel, take_* , token.cancel from any thread | fail-fast, outcome always present, budgets cumulative, one event order, exact debugger snapshots |
| Interpreter and natives | `vm-rs/src/vm.rs`, `value.rs` | frame registers, globals, natives' temporaries | one per instruction, natives with and without callbacks | budgets charged before effects; callbacks see what they should |
| Heap | `vm-rs/src/runtime.rs` | ledger of weak allocations, identities, byte estimate | allocate, drop, collect | collects exactly the cyclic garbage, never a live object |
| JIT | `vm-rs/src/jit.rs`, bridge in `vm.rs` | hot counters, code cache with generations, fallback reasons | admit, reserve, insert, clear, resolve, execute, fall back | a handle never names other code; same budgets and results as the interpreter |
| Linker | `vm-rs/src/link.rs` | contexts and offsets per module, expansion state | new, expand, finish | each module once, before its users; cycles reported; indices in range |
| Artifact format | `vm-rs/src/format.rs`, `bytecode.rs` | none | parse, validate | rejects what the VM cannot run |
| VM command line, debugger | `vm-rs/src/main.rs` | breakpoints, stepping mode | run, trace, debug, profile | pauses where asked |
| Module cache | `src/ModuleCache.cpp`, `src/main.cpp` | manifest, products and interfaces on disk | read, plan, reuse, rebuild, write | a reused product equals a rebuilt one, also after a crash |
| Front-end session | `src/FrontendSession.cpp` | source units, loading stack, module graph | loadFile, resolveImportPath, loadCachedInterface | each file once, imports before importers, cycles reported |
| Language server | `src/LanguageServer.cpp`, `DeclarationIndex.cpp` | open documents, analyses | didOpen, didChange, didClose, queries | diagnostics of the latest text |
| Lexer, parser, trees, formatter | `src/Lexer.cpp`, `Parser.cpp`, `Ast.cpp`, `LosslessSource.cpp`, `Formatter.cpp` | tokens and place reached, block depth, constructor switch, errors; the formatter's group and indentation stacks | scan, parse a declaration and recover, number nodes, dump, format | recovery consumes, restores the switches and reports where it read; formatting keeps the program and its comments, and twice is once |
| Type checker | `src/TypeChecker.cpp` ... | scopes, flow facts | check | |
| IR, CFG, dominance, SSA, optimizer | `src/IR*.cpp`, `ControlFlowGraph.cpp`, `Dominance.cpp`, `SSA.cpp`, `Optimizer.cpp` | a function at a time | build, analyse, rewrite | dominators and phis match their definitions; passes keep meaning |

The compiler front end reads files (directly or through the cache) and writes
`.cdbc` artifacts; the linker joins artifacts into a program; the VM runs it
alone, with a trace, a debugger or a profiler, or as a cooperative session that
a host drives.  Inside the VM everything runs on one thread; the only state
shared with other threads is the flag of `CancellationToken`.

What is hard here: the order of host calls around a session, callbacks that run
between a decision and its effect (dispatch, debugger hooks), the token set at
any moment, failure with frames and traces open, budgets over several tasks,
garbage with cycles, native callbacks that change what is being walked, compiled
code given up half-way, passes over code with joins, and a build that is killed
between its files.

## Modules

**`SchedulerOps`** - the operations of `CooperativeScheduler<T>` as operators on
a record with the struct's fields, and the predicate `WellFormed` all of them
keep.  A missing map entry is `"Absent"`, `<<>>` or `NoTask`.  An operation that
returns an error is the identity.  `cancel_pending_except` is the loop in
identity order, as in the code.  `usize::MAX` is the constant `MaxTaskId`.

**`CooperativeScheduler`** - the scheduler as a state machine.  `dispatch` is two
steps, `DispatchStarts` and `DispatchEnds(step)`; the executor callback runs
between them.  The other actions are enabled only when no dispatch is in
progress, because the callback holds the only mutable borrow.

**`TaskLifecycle`** - the abstract specification: states of tasks and who waits
for whom, without queue, reverse index or loop.  `LifecycleSpec` says that
`CooperativeScheduler` implements it; the state map is the identity on
`state` and `waitingOn`.

**`CooperativeRun`** - the session on top of `SchedulerOps`.  One action per host
method, and `step` split into `StepBegins` (snapshot and dispatch), one action
per part of a slice iteration, `DispatchReturns`, and `StepEnds` (fail-fast,
release of frames, reply).  The split is where the code reads the token:
`TokenCancelled` may come between any two of them.  An instruction continues,
allocates, prints, calls, returns or raises; a frame is its place in the stack,
a trace frame likewise.  `mode` is how the session was started.  The session is
also shown to use its scheduler only as `CooperativeScheduler` allows
(`SchedulerSpec`).

**`ModuleCache`** - a build with `--emit-module-bytecode` and `--module-cache`,
end to end across the front-end session, the type checker, the planner and the
driver.  `manifest`, `sidecar` and `products` are the files that survive a
build; `source` is what the user has on disk; `build` is the running process.
`StartBuild` is everything a build reads (`loadFiles`, `check`,
`planModuleCacheBuild`) in one step, because no store is written before the
plan is complete and no other process is modelled; then one action per file
written, in the order of `writeModuleArtifacts`.  `Crash` may come between any
two writes or inside one, and leaves what opening the file for output leaves.
A hash is the value it is a hash of; a source text is a version number, a version
the sequence of its top-level names; a linkage name is a base and the number
the allocator gave it.  Modules are numbered in loading order, which makes the
recursions over the graph recursions over `1..N`.

**`Heap`** - `vm-rs/src/runtime.rs`.  An object is its place in the allocation
order and holds a sequence of references; `held` counts the references from
registers and globals, `borrow` is a `RefCell` borrow that is open.  Dropping
the last reference frees an object and what only it kept alive; a collection
inspects the graph, marks from every object with more strong references than
edges, and clears the rest.

**`ControlFlow`**, **`Lowering`**, **`Execution`**, **`SSAForm`**,
**`OptimizerPasses`**, **`CompilePipeline`** - from checked syntax to optimised
code.  `Lowering` is `IRCompiler.cpp` on syntax nodes, `ControlFlow` the blocks,
edges and dominance of a stream, `SSAForm` the way into SSA form, its
verification and the way out, `OptimizerPasses` one operator per pass, and
`CompilePipeline` the state machine that takes each stream through
`optimizeIRFunctionWithStats`, one action per pass.  `Execution` says what a
stream does when the VM runs it, as the sequence of things it makes happen; a
dependency happens the first time control arrives at its offset.

**`Linker`**, **`LinkedProgram`** - `vm-rs/src/link.rs` over lists of products: records
of the shape the reader of the text format makes, whatever is in them.  One action
for the verification of a product, of the set, and for each step of the expansion
(an instruction copied, a dependency entered, a dependency already expanded, a
module left).  Nothing in the linker's state says where a linked instruction came
from; `Homes` finds it in the part of the table of sources the instruction refers
to.  `LinkedProgram` makes the products from lowered modules, as
`BytecodeCompiler.cpp` does, and compares the linked program with the program the
same modules make when they are lowered together.

**`Jit`** - `vm-rs/src/jit.rs` and the bridge in `vm.rs`: admission (eligibility,
lowering, reservation, a code generator that fails, or one that emits more than
was reserved, upon which the whole module goes), the cache with its capacity,
clearing, handles kept from any time, and calls in compiled code, which may ask
for the interpreter half-way.
Generated code is the sequence of helper calls of its function.

**`NativeCalls`** - arrays, maps and ranges, the natives on them, and the natives
that call back.  `stack` holds the natives that wait for a callback.  The program
around them is any program: with control it may perform any operation, also on
the array a native below it is walking.

**`Workspace`** - `LanguageServer.cpp` with the loader (`FrontendSession.cpp`) and
the checker's module pass (`TypeChecker.cpp`).  An action is one message, `Synchronize`
(`handleDidOpen`, `handleDidChange`) or `DidClose`; each rebuilds the analyses of
all open documents.  A text
is a sequence of declarations, uses, imports, exports and re-exports of names, or
does not parse.  The recursive loads and checks are operators on the session's
state, with the loading stack and the handlers that move an error to the file
that is answerable for it.

**`Grammar`**, **`Ast`**, **`Parser`**, **`Lexer`**, **`Formatter`**, **`Editing`** - a
document that is edited, read and formatted.  `Grammar` has one rule for each
function of `Parser.cpp`, under its name: a sequence of instructions (take a
token, parse a rule, choose, repeat, fail, make a node).  `Parser` is the machine
that runs them; the calls in progress are an explicit stack, and an error unwinds
it to the innermost of the three recovery loops, restoring `blockDepth_` and
`allowStructConstructors_` on the way as the guards' destructors do.  `Ast` gives
the fields of each class, the part of the source a tree covers, the numbering of
its nodes and its dump.  In `Lexer` a text is a sequence of chunks: lexemes, blanks,
line ends and comments; two lexemes side by side may be read as one.
`Formatter` is the pass over the pieces of a lossless source.  `Editing` is the
state machine: a round of the loop in `Parser::parse`, an edit by the user,
and formatting in the editor (`FormatDocument`, a text that loads nothing) or on
the command line (`FormatFile`).  Widths count one for each lexeme.

**`SchedulerOpsProofs`**, **`CooperativeSchedulerProofs`**, **`CooperativeRunProofs`**,
**`ModuleCacheProofs`**, **`HeapProofs`**, **`JitProofs`**, **`NativeCallsProofs`**,
**`LinkerProofs`** - the proofs; those about the operators of `ControlFlow`, which
`Jit` extends, are the second part of `JitProofs`.  The `MC` modules give TLC a root and the
instances.  An operator whose comment says "Seeded fault" is a wrong version of
a definition after it, kept to show that the property it is paired with in
`PROJECT.json` notices.

## Runs

| Run | Bounds | Shows |
|---|---|---|
| `scheduler` | 4 identities | `Consistent` (types, queue, join tables, books); FIFO; release of joiners; refinement of the lifecycle; no starvation |
| `session` | 3 tasks, quantum 2, 3 steps, call depth 1, 1 element, 1 byte; plain and debugger | `Budgeted`, fail-fast and release of frames, replies and snapshots, outcomes, token, refinement, `run_until_waiting` returns |
| `session_trace` | 2 tasks, quantum 1, 2 steps, 2 bytes | shared sequence, nesting of trace events |
| `module_cache` | 3 modules, 2 entries, 2 levels, 3 builds, 2 edits, a crash, a deleted product | products are what their names say; emitted products fit; trust and reuse agree; an unchanged rebuild reuses all |
| `heap` | 3 objects with up to 2 references, 4 edges, 1 outside reference and 1 borrow per object | counters exact; a collection keeps the reachable and, at a safepoint, nothing else |
| `compile` | 911 programs, 8 inputs, runs of 100 instructions | dominance; forms, graphs and streams stay sound; each pass keeps the meaning |
| `compile_branches` | the same; violation | a branch is decided by a constant from another path |
| `link` | 159 sets of products, 4 inputs, registers to 60, runs of 60 instructions | verdicts; order of expansion; the linked program means what the modules mean |
| `jit` | 9 functions, capacity 7, 3 generations, limit 8, 3 calls, 2 modules | cache bounded; handles never stale; calls as interpreted; calls end |
| `natives` | 8 steps, 9 elements, callbacks 2 deep, 3 native calls | budgets; callbacks; merges and ranges |
| `workspace` | documents `a`, `b`, untitled `u`; files `a`, `b`, `c`; 14 disks, 4 messages | analyses current; verdicts and errors as deserved; go-to-definition |
| `editing` | 9 documents, 18 chunks to type, 1 edit, lines of 14 | recovery of the parser; formatting keeps the program and is stable |

Why the bounds are enough: four tasks give a joiner of a joiner, two joiners of
one target, a bystander, and the identity overflow in one run.  In the session
every budget is smaller than the program can ask for, so each is exhausted in
each position; three tasks give a running, a joined and a bystander task for
fail-fast; a quantum of 2 ends slices inside and outside calls.  Trace lists
record history and make states distinct, hence the smaller trace run, whose
quantum of 1 interleaves at every instruction.

In the cache model a leaf, a library and a program that imports both give direct and
transitive dependents and an import that was an entry before; the leaf has a
private edit that moves its public name's number and a public edit.  Three
builds are a cold one, one that fails or is killed, and the repair.  The passing
run was repeated once with four builds (8.7 million states) without a violation.

Three objects with two references each give cycles of every length, cycles that
hang on each other, an object that refers to itself and two edges between the
same objects, where counting strong references goes wrong first.  The programs of
`compile` combine thirteen conditions with every statement that makes a join or a
loop, in functions, around imports and inside operands; with four parallel moves
among five values every chain and cycle of copies occurs (`CopiesAreParallel`).
Four modules give a diamond, the same module imported twice, and a cycle below
an entry; sixteen damaged sets exercise each refusal.  In `jit` the estimates
are above and below the bytes emitted, the code generator fails on one function,
some cannot be lowered, and the capacity holds two or three of them.  The natives' budgets
end inside a walk, and two levels of callbacks let the inner one change the array
of the outer.  Four messages are the shortest history in which both files are
open, one is changed and one closed again while an untitled document comes and
goes; every disk has a chain, a cycle, a torn or a missing file behind them.
The nine documents use every rule of the grammar, and their lines are longer than
the line width in some groups and shorter in others.  One edit
removes any chunk or puts any of the eighteen at any place, so an error is met
in every rule at every place, also inside nested blocks, cases and argument
lists, and a comment or line end stands between any two tokens.

Deadlock is checked for the scheduler, the session and the workspace, where a
host or an editor can always call something.  The others stop when their bounded
inputs, builds or calls are used up.

Fairness.  `CooperativeScheduler!FairSpec`: the executor returns (a slice is at
most a quantum of instructions) and the host goes on calling `dispatch`.
`CooperativeRun!FairSpec`: the thread inside `step` makes progress, and
`run_until_waiting` calls `step` again.  Nothing is assumed about the host.
`Jit!Spec`: a call that has been entered takes its next step; it is a
single-threaded loop.

### Disagreements between code and documents

One is a run:

- `compile_branches`.  `normalizeKnownConditionBranches` (`src/Optimizer.cpp:856`)
  runs after SSA form has been left and walks a stream in the order of offsets
  with one table of known constants.  A register written on two paths, as `&&`,
  `||` and `match` make one, is then known by the last constant of the walk:
  `if (a && true) { return 1; } return 2;` returns 1 at O1 for `a = false`.

`PassKeepsMeaning` is stated so that this does not hide further faults: it leaves
out the steps `KnownWrong` describes.

Seen in the models and not given a run of their own, because they are a variant
of a property that is checked:

- `docs/bytecode-text-format.md:63-64` says a dependency is expanded at its offset.
  `expand` (`vm-rs/src/link.rs:359`) maps that offset to the instruction behind the
  expanded module, so the jump an `if` without `else` leaves in front of an import
  skips it.  `LinkedMeansProgram` leaves out the modules that jump to a dependency.
- `docs/decisions/m2b-parser-recovery-001.md:17` says diagnostics retain source
  order.  In `1 = fun() { let; };` the error in the body is recorded while the
  value is parsed, and the one about the target, at the `=`, when the assignment
  is made of it.  `RecoverySound` therefore says where errors are and not in
  which order.
- `docs/decisions/v5b-vm-task-host-result-001.md:23-24` says `Complete` means every
  spawned task is terminal.  After a debugger quit the quit flag stays set
  (`vm-rs/src/vm.rs:5935`), and a step that dispatched a task spawned afterwards
  answers `Complete` whatever that task's state.
- `docs/decisions/v5a-vm-concurrency-contract-001.md:39-40` says a task failure stops
  new user execution; the session accepts a spawn after it and runs the task
  (`vm-rs/src/vm.rs:5897`).
- `docs/decisions/m3b-module-boundary-001.md` and `docs/bytecode-text-format.md` say
  that only source-backed modules are lowered and that a changed optimisation
  identity rebuilds the affected product.  The front end compares a sidecar with
  a key at the default level (`src/FrontendSession.cpp:458`), so after a build at
  `O0` one at `O1` leaves imports unparsed that the planner then wants rebuilt,
  and `IRCompiler::compileModule` throws.
- The first of these documents says a repair build's program behaves as a cold
  one's.  Linkage numbers are dealt out per build to the bodies that are parsed
  (`src/TypeChecker.cpp:648`); a copied product keeps the numbers of an older
  build, and a module rebuilt next to it may be given the same name and number,
  so the two share a global.
- `docs/decisions/m3b-module-cache.md` says a cache hit copies a previously validated
  product; the planner asks only whether the file exists
  (`src/ModuleCache.cpp:649`), and files are written in place, so a truncated
  product under an unchanged key is copied.
- `docs/bytecode-text-format.md` says a private change rebuilds only its module; a
  private declaration placed before a public one moves the public linkage
  number, hence the interface hash, and dependents are rebuilt too.  The result
  is right, only slower.
- `mergeLinearBlocks` (`src/Optimizer.cpp:1213`) moves an entry that is jumped back to
  behind another block, and sends a jump to a jump it removes to whatever follows.
- A phi with a predecessor that nothing reaches, as dead code behind a `return`
  leaves one, makes `optimizeIRFunctionWithStats` hand the stream on as it came or
  reject the program; pruning may drop a `MakeFunction`, which the final check of
  function references then refuses.
- `docs/decisions/m5b-lsp-001.md:14-15`: a file that cannot be loaded masks the errors
  of every other open document, which are published clean; a cycle between two
  open documents is blamed on the one loaded second; open documents without
  imports are checked as one flat program, so a name of one is in scope in
  another; and only the edited document is published, so what the editor shows
  of the others can be old although their analyses are not.
- A NaN key can be put into a map again and again and is never found.

## Proofs

The theorems hold for every value of the constants that the named assumptions
allow, so for every number of tasks, objects, modules or elements, and for every
quantum, limit and capacity.  The runs check the same definitions on the
instances above; each inductive invariant was first checked as an invariant of
such a run.  Everything rests on the assumptions of the modules, on no others.

| Module of proofs | About | Properties proved |
|---|---|---|
| `CooperativeSchedulerProofs` | scheduler | `Consistent`, `FifoOrder`, `JoinersReleased`, `OutcomesFinal`, `LifecycleSpec` |
| `CooperativeRunProofs` | session | `Budgeted`, `FailFastReleases`, `RepliesExact`, `SequenceShared`, `TraceExact`, `OutcomesKept`, `CancelObserved`, `DrainKeepsCounting`, `SchedulerSpec` |
| `ModuleCacheProofs` | module cache | `TypeOK`, `PreloadedReusedAtDefault`, `OutputsFit`, `RepeatReuses` |
| `HeapProofs` | heap | `LedgerExact`, `ReachableKept`, `GarbageGone` |
| `JitProofs` | JIT | `HandlesCurrent`, `CallsAsInterpreted`, `CacheBounded` |
| | control flow | the graph and the dominance facts of every stream |
| `NativeCallsProofs` | natives | `ContentSound`, `CallbacksExact`, `CollectionsExact` |
| `LinkerProofs` | linker | `VerdictExact`, `ExpansionSound` |

`SchedulerOpsProofs` holds one lemma per scheduler operation, shared by the first
two.  A module whose proofs need induction states `NatSetInduction`: induction over
the numbers as a statement about sets, from well-foundedness, because the
library's induction theorems take an operator as a parameter.  `FunctionByStep`, in
`NativeCallsProofs` and `JitProofs`, is that a function given by its first value and a step exists,
which is what makes the equations of the models' recursive functions usable.

Two of them are proved and not run as well, because they follow from what is run:
`OutcomesFinal` from `LifecycleSpec`, and `DrainKeepsCounting` from the effects that
`SequenceShared` rests on.

### Scheduler

Assumed: `MaxTaskId \in Nat`, `NoTask` is no identity.  The inductive invariant
is `WellFormed(sched)`: the type, `ReadyQueued`, `Mirrored`, `WaitersBlocked`,
`TargetsLive` and `Booked`.  None of the parts is inductive alone: that the
queue holds exactly the ready tasks after a wake-up needs that listed waiters
are blocked and listed once (`Mirrored`, `WaitersBlocked`); that no waiter is
left on an ended task needs that `join` met a live target and that the step that
ends a task empties its list.  One lemma per operation shows that it keeps
`WellFormed`; `wake_joiners` runs in a state where `TargetsLive` is broken for
the one target that has just ended, and its lemma says that it repairs it.

`FifoOrder` and `JoinersReleased` say what one step does to the queue: a lemma per
operation gives the queue after it as the old one with tasks removed and tasks
appended, and for the two loops (`wake_joiners`, `cancel_pending_except`) that
follows by induction over what they have visited.  `ImplementsLifecycle` maps each
operation to one step of `TaskLifecycle` or none; `cancel_pending_except`, a loop over
all tasks that wakes joiners as it goes, is shown to do what the one step
`StopOthers` says.

### Session

Assumed: a positive quantum, limits that are numbers, printed sizes that are
positive (`LimitsAssumption`), known modes (`ModesAssumption`).  The invariant
`SessionInv` joins `WellFormed` of the scheduler, on which it rests through
`SchedulerOpsProofs`, with the budgets and three parts about the payloads:
`CallFollows` ties the step under way to the scheduler (who is running, and that
what the executor hands back describes the payload), `TasksFollow` says which
frames and which outcome a task in each state has, except for the one task whose
change the step has not yet told the scheduler of, and `LogFollows` gives the
trace stack in which the last event of each task left it.  The last is what
`TraceExact` needs to be inductive: that the next event of a task fits behind
its last one, however many events of other tasks came between.  An iteration of
a slice has the same effect whichever instruction it runs (`SliceEffect`), so the
invariant is proved once for the effect and the effect once per instruction.

`OutcomesKept`, `CancelObserved` and `DrainKeepsCounting` are properties of steps and
follow from the same effects; `ImplementsScheduler` shows that every step of a
session is one of the operations of `CooperativeScheduler`, with its guard, or
leaves the scheduler as it is.

### Module cache

Assumed: the module graph is numbered in loading order, entries are modules,
every module has a first version, a version is a sequence of declarations and the
default level is a level.  The number of modules, versions, levels, builds, edits,
crashes and deletions is arbitrary.  The inductive invariant `IInv` adds two parts
to `TypeOK` and `PreloadedReusedAtDefault`.  `BuildOK` ties the running build to its
plan: each key is of its own module, and the names of a module to be written
include its public ones, which is what makes a freshly written product fit its
file name.  `SidecarsOK` says that a sidecar carries one interface for exactly the
imports its module has; without it the key the front end computes from a trusted
sidecar could differ from the planner's in the imports it lists.  `TestsAgree`
is the step that matters: by induction over the modules, an import the front
end preloads has preloaded imports, each of them recorded with the interface
its sidecar shows, so neither its key nor its public impact differs from the
manifest (`PreloadedReusable`), whatever crash or deletion came before.

`OutputsFit` and `RepeatReuses` need more of the history: `Results` says how a
build's numbers were dealt out (`Numbered`: the allocator counts the declarations
of the parsed bodies from behind every preloaded module), that every interface
is the public part of its body under those numbers, which product each module
was given, and which stores are finished at each stage (`Stored`).  A later build
over the same sources then finds the same sidecars trusted, preloads or parses
the same modules, and computes the keys it finds in the manifest.

### Heap

Assumed: bounds that are numbers, and at least one reference per object
(`MaxHeld > 0`: an allocation returns one).  `HeapInv` says that the ledger is the
live storage (`Sound`: the identities, the counts by kind and by size, references
that lead to live objects only), that every object is held or referred to (`Kept`,
which is what reference counting gives) and that what is held or borrowed exists
(`Outside`).  The cascade of `drop` and the marking of `collect` are least sets
closed under a step; `LeastIsFixed` and `LeastIsLeast` give the two facts the proofs
use of them.  An object has more strong references than edges from inspected
objects exactly when it is held or referred to by one that could not be
inspected (`RootDef`): the count of edges is by pairs of holder and position, so
two references from one object count twice.  `ReachableKept` follows by leastness,
`GarbageGone` by what a safepoint excludes.

### JIT

Assumed: the functions are verified (`FunctionsAssumption`: registers exist and a
return has its operand, as `validate_program` of `format.rs` has checked before),
and the numbers are numbers.  `CodeInv` is about the cache: entries are live in the
module in place, generations were given once and in increasing order, and the
bytes emitted fit those reserved, also when a generator that failed left bytes
behind.  `CallInv` is about the call under way: in compiled code and in the
interpreter alike, what the rest of the interpreter's run from here makes is an
outcome of the call from its beginning (`AtWork`), and compiled code's handles
mirror the registers, so that falling back half-way continues the same run.

### Natives

Assumed: bounds that are numbers, `NaN` is a key, and inputs that are what their
names say (`InputsAssumption`; the element set, the keys and the program are
arbitrary).  `NInv` consists of `ContainersOK` (containers whole, map keys that differ,
and no more in them than was charged), `RangeOK`, the counters, and `StackOK`:
every active native satisfies `FrameOK`, and the call depth counts those whose
callback runs.  `FrameOK` is what makes `CallbacksExact` inductive: besides the
result it says of which kind the answers are and that a native has decided
exactly when its answers decide, so that a native which goes on asking has been
given no deciding answer.  One lemma per family of natives shows that an answer
keeps it.  The budget is additive: `SizesAppend` and `SizesExcept` say what one
container more, or one changed, does to the total, and each operation is shown
to charge at least that; a map is charged after its duplicates are gone, which
`WithEntryPlaces` and `NormalizedDef` account for.  `MergesExact` is by induction over
the entries merged so far, `RangesExact` counts the steps before the end by
integer division, for every start, stop and step.

### Linker

Assumed: `MaxIndex \in Nat`, and `LinksAssumption`: what is linked are lists of
`ModuleArtifacts`, and the location of an instruction of a main stream is its offset.
Nothing is assumed about the indices in the products, their dependencies or their
number.  The inductive invariant `LinkerInv` adds to the two properties:

- `ReadOK` while products are read: those read are valid, found under their
  identities, and no two have one.
- `StackOK`: every module on the stack waits at a dependency for the one above it,
  and all its dependencies before that are expanded.
- `GraphOK`: everything reached is in `Needed`; an expanded module has all it depends
  on expanded and does not need itself; the stack is a chain of needs.  So a module
  met again on the stack is a cycle in the products, and when the entries are
  expanded there is none, because `Needed` is the least set (`NeededLeast`).
- `TablesOK`: a module's constants, names, sources and functions stand in the linked
  tables behind its offsets, the parts of two modules are apart, and the register
  count is that of the modules reached, in whatever order they were reached
  (`RegistersIn` adds them in the order of the products; `SumsDef`).  An addition that
  overflows is therefore an overflow of `Needed` (`Overflows`).
- `CodeOK`: every linked instruction is one of its module with its indices shifted,
  behind all it depends on; an expanded module stands there completely; the module
  being expanded remembers where each of its offsets went.

The hard step is the end of a module, which rewrites the jumps of all its
instructions at once: the remembered places increase with the offsets, although
other modules stand between them, so a jump still separates the instructions it
separated (`LeaveFacts`, `LeavesMapped`).  Others are that the sorted entries are in
the order of their numbers exactly when these are `1..n` (`SortedOnto`,
`SetVerdictExact`), and that a linked program passes the verification it began with
(`FinishValid`), so that `invalidLinked` is never answered.

### Control flow

Three theorems about operators rather than about a specification: for every stream
whose jumps lead into it or to its end, and without a bound on its length.

- `GraphOfEveryStream`: the graph passes `ControlFlowGraph::verify` (`GraphVerified`),
  and, which that function does not look at, control enters a block only at its
  first instruction and leaves it only at its last (`BlocksAreStraight`).  A block's
  number is the rank of its leader (`RanksDef`), from which everything follows.
- `DominanceOfEveryGraph`, and `DominanceOfEveryStream` for the graphs of streams: the
  dominators, immediate dominators and frontiers computed are those the paths
  define (`DominanceIsByPaths`).  `d` dominates `b` when `b` is not reached once `d` is
  removed; as the removed graph's reach is the least set closed under its edges
  (`AvoidingDef`), dominance is an order in which the dominators of a block form a
  chain (`AboveTransitive`, `AboveAntisymmetric`, `AboveChain`), so that there is a
  closest one (`ClosestExists`).  The rounds never drop a dominator, and after `k` of
  them `d` is gone from every block that `k` edges lead to without it
  (`DominatorsDef`): as many rounds as there are blocks are enough.  A climb from a
  predecessor to the join's immediate dominator meets exactly what dominates the
  one and not the other (`ClimbMeets`), which is the definition of the frontier.

The property `DominanceExact` of the run says the second of the form that a
compilation has; it is not itself a theorem, because `CompilePipeline` reaches
recursive operators.  That the jumps of the streams in the pipeline do lead into
them is `StreamsValid`, which is model-checked.

### Only model-checked

Liveness under fairness, which the prover cannot express: `ReadyLeavesQueue`,
`DriveReturns` and `CallsEnd`.  The properties of the compile pipeline, but for what
is proved of the operators of `ControlFlow`, and `LinkedMeansProgram`: what streams
mean is defined by running them, over syntax trees and streams that are walked by
recursive operators.  Those of the workspace, whose loader and checker are
recursive over the files on disk.
`RecoverySound`, `FormatKeepsProgram` and `FormatStable`: trees, and a run of the
parser until its work is done, are recursive, and what a recursive operator
computes for every input is out of the prover's reach.

## Not modelled

- Session: the profile counters, exhaustion of the 64-bit event sequence, errors
  of `make_task` (they change nothing), what instructions compute, and the
  garbage collection at the end of each call.  `context.cancellation_requested`
  is read as in the code, although `Booked` shows it is never set.
- Cache: several entries in one build, imports that change between versions,
  re-exports, builds that stop at a type error before any write,
  `--module-interface-cache` without products, the rebuild report, two builds
  running at once, and hash collisions.
- Heap: peaks, the identity counters, and what values hold besides references.
- Natives: strings, numbers and output, structs and enums, the remaining
  instructions.  What a failed call has charged before it failed is left out:
  an execution ends there.
- JIT: the code Cranelift generates, and a failure of finalisation after the
  emission.
- Compiler: capability operators, promotion of memory slots, operators that
  differ from a modelled one only in the value they compute, source spans,
  statistics.  Binding metadata is taken to be present.
- Linker: debug tables beyond the source of an instruction.  The refusal of an
  unknown dependency in `Linker::new` is unreachable, because the verification of
  a product has refused it before.
- Workspace: types, structs and enums, namespace aliases, standard-library
  modules, path resolution; completion, hover, references, rename, symbols;
  the framing of messages.
- Syntax: errors of the lexer, decimal numbers, the contents of strings, byte
  positions and the wording of errors, `ModuleStmt`, which the loader makes and
  the parser does not.
- Not at all: the command lines and their output, the `.cdbc` text parser (a pure
  conversion over unbounded text), the library written in Cd and the editor
  extension (inputs and clients of the system).  Inside the type checker: types, assignability and flow facts.

## Plan

Theorems that could follow.  The functions that bound a stream of the pipeline
(`StreamsSound`: every jump inside its function, every slot below the count it
declares) need the recursion over syntax trees written as a recursive function
before anything can be proved about them.

Models that could follow: flow facts and assignability as operators, rename and
references of the language server against the bindings of the checker, promotion
of memory slots.
