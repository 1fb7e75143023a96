--------------------------- MODULE CompilePipeline ---------------------------
(***************************************************************************)
(* Compilation at level O1, pass by pass: the program is lowered, and then *)
(* its streams, the main one first and the functions after it, each go     *)
(* through optimizeIRFunctionWithStats (src/src/Optimizer.cpp).  A stream  *)
(* on which a register has no value on some edge is handed on as it came;  *)
(* any other error rejects the program.                                    *)
(*                                                                         *)
(* Programs are the programs of the run as they are lowered: what Lowered  *)
(* makes of some modules, the module that is compiled, and whether it is   *)
(* compiled on its own.  Inputs are the values the variables may have when *)
(* a stream starts.                                                        *)
(***************************************************************************)
EXTENDS Lowering, OptimizerPasses

CONSTANTS Programs, Inputs, Answer

VARIABLES
  program,    \* the program as lowered: main stream, dependencies, functions
  place,      \* which stream is being optimized: 0 is the main one
  pass,       \* the pass that produced what follows
  form,       \* the stream in SSA form, while it is
  stream,     \* the stream, as instructions and dependencies
  done,       \* the streams that are finished
  verdict     \* whether the program is still being compiled, and what came of it

vars == <<program, place, pass, form, stream, done, verdict>>

SSAPasses    == {"lift", "copies", "constants", "dead"}
StreamPasses == {"lower", "leave", "branches", "prune", "thread", "pruneAgain", "jumps", "merge",
                 "identity"}
Accepted == {"compiling", "accepted"}
Rejected == {"undefinedRegister", "undefinedIncoming", "malformed", "functionReferences"}

Lowered(p) == IF p.alone THEN LowerModule(p.modules, p.entry) ELSE LowerProgram(p.modules, p.entry)

SourceStream(p, k) == IF k = 0 THEN [code |-> p.main, deps |-> p.deps]
                      ELSE [code |-> p.funs[k], deps |-> <<>>]

NoForm == [verdict |-> "none"]

Init ==
  /\ program \in Programs
  /\ place = 0 /\ pass = "lower"
  /\ form = NoForm
  /\ stream = SourceStream(program, 0)
  /\ done = <<>>
  /\ verdict = "compiling"

Now(p) == verdict = "compiling" /\ pass = p

(* A form that does not pass its check rejects the program; if it is a phi *)
(* without a value that fails it, the code reports the value.              *)
LacksIncoming(f) ==
  \E b \in 1..f.g.exit : \E phi \in ToSet(f.phis[b]) : \E p \in DOMAIN phi.from : phi.from[p] = NoValue

Check(f) ==
  verdict' = IF Verified(f) THEN verdict ELSE IF LacksIncoming(f) THEN "undefinedIncoming" ELSE "malformed"

Identity == pass' = "identity" /\ UNCHANGED <<form, verdict>>
Refuse   == verdict' = "undefinedRegister" /\ UNCHANGED <<pass, form>>
Accept(f) == pass' = "lift" /\ form' = f /\ Check(f)

LiftToSSA ==
  /\ Now("lower")
  /\ \E f \in {Lift(stream.code, stream.deps)} :
        \/ f.verdict = "noIncoming" /\ Identity
        \/ f.verdict = "undefined" /\ Refuse
        \/ f.verdict = "lifted" /\ Accept(f)
  /\ UNCHANGED <<program, place, stream, done>>

SSAPass(from, to, transformed) ==
  /\ Now(from)
  /\ pass' = to /\ form' = transformed /\ Check(form')
  /\ UNCHANGED <<program, place, stream, done>>

SimplifyCopies   == SSAPass("lift", "copies", SimplifyCopiesAndPhis(form))
FoldConstants    == SSAPass("copies", "constants", FoldKnownConstants(form))
EliminateDead    == SSAPass("constants", "dead", EliminateDeadValues(form))

LeaveSSA ==
  /\ Now("dead")
  /\ pass' = "leave" /\ stream' = Leave(form) /\ form' = NoForm
  /\ UNCHANGED <<program, place, done, verdict>>

StreamPass(from, to, transformed) ==
  /\ Now(from)
  /\ pass' = to /\ stream' = transformed
  /\ UNCHANGED <<program, place, form, done, verdict>>

Branches       == StreamPass("leave", "branches", NormalizeBranches(stream))
Prune          == StreamPass("branches", "prune", PruneUnreachable(stream))
Thread         == StreamPass("prune", "thread", ThreadEmptyJumpBlocks(stream))
PruneThreaded  == StreamPass("thread", "pruneAgain", PruneUnreachable(stream))
RemoveJumps    == StreamPass("pruneAgain", "jumps", RemoveFallthroughJumps(stream))
Merge          == StreamPass("jumps", "merge", MergeLinearBlocks(stream))

(* The next stream, or, after the last, the check of the whole program: no *)
(* stream makes other functions than it did (SSADeSSAProgramResult::verify). *)
SameReferences(finished) ==
  \A k \in DOMAIN finished :
     FunctionReferences(finished[k]) = FunctionReferences(SourceStream(program, k - 1))

NextStream ==
  /\ Now("merge") \/ Now("identity")
  /\ place < Len(program.funs)
  /\ place' = place + 1 /\ pass' = "lower"
  /\ stream' = SourceStream(program, place')
  /\ done' = Append(done, stream)
  /\ UNCHANGED <<program, form, verdict>>

FinishProgram ==
  /\ Now("merge") \/ Now("identity")
  /\ place = Len(program.funs)
  /\ done' = Append(done, stream)
  /\ verdict' = IF SameReferences(done') THEN "accepted" ELSE "functionReferences"
  /\ UNCHANGED <<program, place, pass, form, stream>>

Next ==
  \/ LiftToSSA \/ SimplifyCopies \/ FoldConstants \/ EliminateDead \/ LeaveSSA
  \/ Branches \/ Prune \/ Thread \/ PruneThreaded \/ RemoveJumps \/ Merge
  \/ NextStream \/ FinishProgram

Spec == Init /\ [][Next]_vars
-----------------------------------------------------------------------------
(* The state of a compilation is as one pass leaves it for the next.       *)
TypeOK ==
  /\ place \in 0..Len(program.funs) /\ Len(done) \in place..place + 1
  /\ pass \in SSAPasses \cup StreamPasses
  /\ verdict \in Accepted \cup Rejected
  /\ pass \in SSAPasses <=> form # NoForm

(* The dominators, the immediate dominators and the frontiers that the     *)
(* data-flow rounds and the climbs arrive at are those that the paths of   *)
(* the graph define (Dominance.cpp).                                       *)
DominanceExact == pass = "lift" => DominanceIsByPaths(form.g, form.info)

(* No pass over the SSA form loses a definition that is still used, or     *)
(* moves one to where it does not dominate its uses: a program that can be *)
(* lifted is never rejected by the check after a pass (SSAFunction::verify). *)
FormsKept == verdict # "malformed"

(* Every jump of a stream goes to an offset of it, its graph passes its    *)
(* check and has straight blocks, and every dependency keeps its module    *)
(* and stays in order.                                                     *)
StreamsValid ==
  /\ TargetsInRange(stream.code)
  /\ GraphVerified(stream.code, ControlFlowGraph(stream.code))
  /\ BlocksAreStraight(stream.code, ControlFlowGraph(stream.code))
  /\ [k \in DOMAIN stream.deps |-> stream.deps[k].module]
       = [k \in DOMAIN SourceStream(program, place).deps |-> SourceStream(program, place).deps[k].module]
  /\ \A k \in DOMAIN stream.deps : stream.deps[k].at \in 1..Len(stream.code) + 1
  /\ DependenciesInOrder(stream)

(* What a stream makes happen, for every input.                            *)
SameForAll(a, b) == \A v \in Inputs : SameMeaning(Meaning(a, v, Answer), Meaning(b, v, Answer))

(* A stream whose branches test registers that are written once.           *)
TestsWrittenOnce(s) ==
  \A k \in DOMAIN s.code : IsConditional(s.code[k].op) =>
     Cardinality({j \in DOMAIN s.code : s.code[j].dest = s.code[k].args[1]}) = 1

(* A stream that jumps back to its first instruction.                      *)
ReentersEntry(s) == \E k \in DOMAIN s.code : IsJump(s.code[k].op) /\ s.code[k].at = 1

(* A stream with a jump to a jump.                                         *)
JumpsToJump(s) ==
  \E k \in DOMAIN s.code :
     IsJump(s.code[k].op) /\ s.code[k].at \in DOMAIN s.code /\ s.code[s.code[k].at].op = "Jump"

(* The two steps that are known to be wrong.  The first is left to the     *)
(* property after the next; merging moves an entry that is jumped back to  *)
(* behind another block, and sends a jump to a jump it removes to whatever *)
(* follows it (Optimizer.cpp:1213).                                        *)
KnownWrong ==
  \/ pass' = "branches" /\ ~ TestsWrittenOnce(stream)
  \/ pass' = "merge" /\ (ReentersEntry(stream) \/ JumpsToJump(stream))

(* Each pass leaves a stream that makes the same things happen: in         *)
(* particular SSA form is left with every copy on the edge it belongs to,  *)
(* and no dependency is moved across anything.                             *)
PassKeepsMeaning ==
  [][place' = place /\ stream' # stream /\ ~ KnownWrong => SameForAll(stream, stream')]_vars

(* A branch is decided only if its condition has the one value on every    *)
(* path ("CFG pruning only removes blocks proven unreachable",             *)
(* m7-ir-ssa-optimization-001.md).                                         *)
BranchesKeepMeaning ==
  [][place' = place /\ pass' = "branches" => SameForAll(stream, stream')]_vars

(* Once unreachable code has been pruned, no later pass leaves any behind. *)
NothingUnreachable ==
  pass \in {"pruneAgain", "jumps"} =>
     LET g == ControlFlowGraph(stream.code) IN 1..g.exit - 1 \subseteq g.reachable

(* A compilation at any point: its streams and forms are sound.            *)
StreamsSound == TypeOK /\ FormsKept /\ StreamsValid /\ NothingUnreachable
=============================================================================
