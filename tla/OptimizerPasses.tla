--------------------------- MODULE OptimizerPasses ---------------------------
(***************************************************************************)
(* The passes of the optimizer, one operator each (src/src/Optimizer.cpp): *)
(* three on the SSA form, and five on the stream that leaves it.  A stream *)
(* is its instructions and its dependencies, each with the offset it is    *)
(* anchored at.  Statistics, span tables and the folded-constant table     *)
(* (constants stand in the instructions here) are left out.                *)
(***************************************************************************)
EXTENDS SSAForm, Execution

(***************************************************************************)
(* Copies and phis.                                                        *)
(***************************************************************************)

(* resolveAlias: NoValue when the aliases run in a circle.                 *)
ResolveAlias(v, aliases) ==
  LET chain[k \in 0..Cardinality(DOMAIN aliases)] ==
        IF k = 0 THEN v
        ELSE LET w == chain[k - 1] IN IF w \in DOMAIN aliases THEN aliases[w] ELSE w
      end == chain[Cardinality(DOMAIN aliases)]
  IN IF end \in DOMAIN aliases THEN NoValue ELSE end

(* canSimplifyPhi: the value that stands for a phi of block b, or NoValue. *)
PhiReplacement(f, at, b, phi, aliases) ==
  LET values == {ResolveAlias(phi.from[p], aliases) : p \in DOMAIN phi.from}
      same   == CHOOSE v \in values : TRUE
  IN IF /\ b \in f.g.reachable /\ Cardinality(values) = 1 /\ same \in DOMAIN at
        /\ same # phi.result /\ at[same][2] # b
        /\ Dominates(f, at[same][2], b)
     THEN same ELSE NoValue

AllPhis(f) == FlattenSeq([b \in 1..f.g.exit |-> [k \in DOMAIN f.phis[b] |-> <<b, f.phis[b][k]>>]])

CopyAliases(f) ==
  LET copies == {i \in UNION {ToSet(f.blocks[b]) : b \in 1..f.g.exit} : i.op = "Copy"}
  IN [v \in {i.dest : i \in copies} |-> (CHOOSE i \in copies : i.dest = v).args[1]]

PhiAlias(f, at, found, b, phi) ==
  LET v == PhiReplacement(f, at, b, phi, found.aliases)
  IN IF v = NoValue THEN found
     ELSE [aliases |-> (phi.result :> v) @@ found.aliases, gone |-> found.gone \cup {phi.result}]

RECURSIVE PhiAliases(_, _, _)
PhiAliases(f, at, found) ==
  LET more == FoldLeft(LAMBDA x, entry : PhiAlias(f, at, x, entry[1], entry[2]), found, AllPhis(f))
  IN IF more = found THEN found ELSE PhiAliases(f, at, more)

SimplifyCopiesAndPhis(f) ==
  LET found    == PhiAliases(f, DefinitionOf(f), [aliases |-> CopyAliases(f), gone |-> {}])
      Value(v) == LET r == ResolveAlias(v, found.aliases) IN IF r = NoValue THEN v ELSE r
      Phi(phi) == [phi EXCEPT !.from = [p \in DOMAIN @ |-> Value(@[p])]]
      Read(i)  == [i EXCEPT !.args = [k \in DOMAIN @ |-> Value(@[k])]]
      Kept(b)  == SelectSeq(f.phis[b], LAMBDA phi : phi.result \notin found.gone)
      Rest(b)  == SelectSeq(f.blocks[b], LAMBDA i : i.op # "Copy")
  IN [f EXCEPT !.phis   = [b \in 1..f.g.exit |-> [k \in DOMAIN Kept(b) |-> Phi(Kept(b)[k])]],
               !.blocks = [b \in 1..f.g.exit |-> [k \in DOMAIN Rest(b) |-> Read(Rest(b)[k])]]]

(***************************************************************************)
(* Constants.  What a phi, a copy or an operation on constants yields is   *)
(* constant; an operation that would trap is left to trap when it runs.    *)
(***************************************************************************)
Foldable == {"Not", "Negate", "Add", "Less", "Equal"}

LearnPhi(known, phi) ==
  LET from == {phi.from[p] : p \in DOMAIN phi.from}
  IN IF from # {} /\ from \subseteq DOMAIN known /\ Cardinality({known[v] : v \in from}) = 1
     THEN (phi.result :> known[CHOOSE v \in from : TRUE]) @@ known ELSE known

(* evaluateSSAConstantUnary and evaluateSSAConstantBinary.                 *)
CanEvaluate(i, known) ==
  /\ i.op \in Foldable
  /\ ToSet(i.args) \subseteq DOMAIN known
  /\ Demands(i, [k \in DOMAIN i.args |-> known[i.args[k]]])

Evaluate(i, known) == Computed(i, [k \in DOMAIN i.args |-> known[i.args[k]]])

LearnInstruction(known, i) ==
  CASE i.op = "Constant"      -> (i.dest :> i.val) @@ known
    [] i.op = "Copy" /\ i.args[1] \in DOMAIN known -> (i.dest :> known[i.args[1]]) @@ known
    [] CanEvaluate(i, known)  -> (i.dest :> Evaluate(i, known)) @@ known
    [] OTHER                  -> known

LearnBlock(f, known, b) == FoldLeft(LearnInstruction, FoldLeft(LearnPhi, known, f.phis[b]), f.blocks[b])

RECURSIVE Learn(_, _)
Learn(f, known) ==
  LET more == FoldLeft(LAMBDA k, b : LearnBlock(f, k, b), known, [b \in 1..f.g.exit |-> b])
  IN IF more = known THEN known ELSE Learn(f, more)

FoldKnownConstants(f) ==
  LET known == Learn(f, <<>>)
      Fold(i) == IF CanEvaluate(i, known)
                 THEN [i EXCEPT !.op = "Constant", !.args = <<>>, !.val = known[i.dest], !.name = ""]
                 ELSE i
  IN [f EXCEPT !.blocks = [b \in 1..f.g.exit |-> [k \in DOMAIN @[b] |-> Fold(@[b][k])]]]

(***************************************************************************)
(* Dead values: one sweep over what nothing uses and cannot be noticed.    *)
(***************************************************************************)
(* Seeded fault: what only a phi reads is taken to be unused.              *)
UsedValuesOfInstructions(f) ==
  UNION {UNION {ToSet(i.args) : i \in ToSet(f.blocks[b])} : b \in 1..f.g.exit}

UsedValues(f) ==
  UNION {UNION {{phi.from[p] : p \in DOMAIN phi.from} : phi \in ToSet(f.phis[b])}
           \cup UNION {ToSet(i.args) : i \in ToSet(f.blocks[b])} : b \in 1..f.g.exit}

EliminateDeadValues(f) ==
  LET used == UsedValues(f)
      Stays(i) == ~ (i.op \in {"Constant", "Copy"} /\ i.dest \notin used)
  IN [f EXCEPT !.blocks = [b \in 1..f.g.exit |-> SelectSeq(@[b], Stays)]]

(***************************************************************************)
(* normalizeKnownConditionBranches: one sweep over the stream in the order *)
(* of its offsets, in which a register keeps the last constant seen to be  *)
(* put in it.                                                              *)
(***************************************************************************)
NormalizeOne(x, k) ==
  LET i == x.code[k]
      known == IsConditional(i.op) /\ i.args[1] \in DOMAIN x.known
      taken == IsTruthy(x.known[i.args[1]]) <=> i.op = "JumpIfTrue"
  IN CASE known -> [x EXCEPT !.code[k] = [i EXCEPT !.op = "Jump", !.args = <<>>,
                                                   !.at = IF taken THEN @ ELSE k + 1]]
       [] ~ known /\ i.op = "Constant" -> [x EXCEPT !.known = (i.dest :> i.val) @@ @]
       [] ~ known /\ i.op = "Copy" /\ i.args[1] \in DOMAIN x.known ->
            [x EXCEPT !.known = (i.dest :> @[i.args[1]]) @@ @]
       [] OTHER -> x

NormalizeBranches(s) ==
  [s EXCEPT !.code = FoldLeft(NormalizeOne, [code |-> @, known |-> <<>>],
                              [k \in DOMAIN @ |-> k]).code]

(***************************************************************************)
(* compactIRInstructions: what is retained moves together, and an offset   *)
(* goes to the first retained instruction at or after it.                  *)
(***************************************************************************)
Relocate(s, code, new) ==
  [code |-> [k \in DOMAIN code |-> IF IsJump(code[k].op) THEN [code[k] EXCEPT !.at = new[@]]
                                   ELSE code[k]],
   deps |-> [k \in DOMAIN s.deps |-> [s.deps[k] EXCEPT !.at = new[@]]]]

Offsets(s) == 1..Len(s.code) + 1

Compact(s, retained) ==
  Relocate(s, [k \in 1..Cardinality(retained) |-> s.code[InOrder(retained)[k]]],
           [at \in Offsets(s) |-> Cardinality({k \in retained : k < at}) + 1])

PruneUnreachable(s) ==
  LET g == ControlFlowGraph(s.code)
  IN Compact(s, {k \in DOMAIN s.code : g.blockOf[k] \in g.reachable})

RemoveFallthroughJumps(s) ==
  Compact(s, {k \in DOMAIN s.code : ~ (s.code[k].op = "Jump" /\ s.code[k].at = k + 1)})

(* threadEmptyJumpBlocks: an unconditional jump goes through the blocks    *)
(* that only jump, up to the first it has been at before.                  *)
OnlyJumps(s, g, at) ==
  /\ at \in DOMAIN s.code
  /\ s.code[at].op = "Jump"
  /\ g.first[g.blockOf[at]] = at /\ g.end[g.blockOf[at]] = at + 1

Threaded(s, g, at) ==
  LET hop[k \in 0..Len(s.code)] ==
        IF k = 0 THEN [at |-> at, visited |-> {}]
        ELSE LET x == hop[k - 1]
             IN IF OnlyJumps(s, g, x.at) /\ x.at \notin x.visited
                THEN [at |-> s.code[x.at].at, visited |-> x.visited \cup {x.at}] ELSE x
  IN hop[Len(s.code)].at

ThreadEmptyJumpBlocks(s) ==
  LET g == ControlFlowGraph(s.code)
      One(x, k) == IF x.code[k].op = "Jump" THEN [x EXCEPT !.code[k].at = Threaded(x, g, @)] ELSE x
  IN FoldLeft(One, s, [k \in DOMAIN s.code |-> k])

(***************************************************************************)
(* mergeLinearBlocks: the first block that ends in a jump to a block       *)
(* entered from nowhere else has that block moved behind it and the jump   *)
(* removed, if every other block still falls into the same one, functions  *)
(* are made in the same order and dependencies stay in order; and again,   *)
(* until there is none.                                                    *)
(***************************************************************************)
Mergeable(s, g, b) ==
  LET jump == s.code[g.end[b] - 1]
      next == CHOOSE c \in g.succ[b] : TRUE
  IN /\ b \in g.reachable /\ b # g.exit /\ Cardinality(g.succ[b]) = 1
     /\ next \notin {b, g.exit} /\ g.pred[next] = {b}
     /\ jump.op = "Jump" /\ jump.at = g.first[next]

BlockOrder(g, b, next) ==
  LET rest == SelectSeq([k \in 1..g.exit - 1 |-> k], LAMBDA c : c # next)
      k    == CHOOSE j \in DOMAIN rest : rest[j] = b
  IN SubSeq(rest, 1, k) \o <<next>> \o SubSeq(rest, k + 1, Len(rest))

KeepsFallthroughs(s, g, order, b) ==
  \A k \in DOMAIN order :
     order[k] = b \/ NeverFallsThrough(s.code[g.end[order[k]] - 1].op)
       \/ (IF k = Len(order) THEN g.exit ELSE order[k + 1]) = Fallthrough(g, order[k])

Reordered(s, g, order, jump) ==
  LET kept == SelectSeq(FlattenSeq([k \in DOMAIN order |->
                          [j \in 1..g.end[order[k]] - g.first[order[k]] |-> g.first[order[k]] + j - 1]]),
                        LAMBDA k : k # jump)
      nextSurviving ==
        [at \in Offsets(s) |->
           LET later == {k \in DOMAIN s.code : k >= at /\ k # jump}
           IN IF later = {} THEN Len(kept) + 1
              ELSE CHOOSE n \in DOMAIN kept : kept[n] = Min(later)]
  IN Relocate(s, [n \in DOMAIN kept |-> s.code[kept[n]]], nextSurviving)

FunctionReferences(s) ==
  LET made == SelectSeq(s.code, LAMBDA i : i.op = "MakeFunction")
  IN [k \in DOMAIN made |-> made[k].val]

DependenciesInOrder(s) == \A j, k \in DOMAIN s.deps : j < k => s.deps[j].at <= s.deps[k].at

Merged(s, g, b) ==
  LET next == CHOOSE c \in g.succ[b] : TRUE
  IN Reordered(s, g, BlockOrder(g, b, next), g.end[b] - 1)

MayMerge(s, g, b) ==
  /\ Mergeable(s, g, b)
  /\ KeepsFallthroughs(s, g, BlockOrder(g, b, CHOOSE c \in g.succ[b] : TRUE), b)
  /\ FunctionReferences(Merged(s, g, b)) = FunctionReferences(s)
  /\ DependenciesInOrder(Merged(s, g, b))

RECURSIVE MergeLinearBlocks(_)
MergeLinearBlocks(s) ==
  LET g   == ControlFlowGraph(s.code)
      may == {b \in 1..g.exit - 1 : MayMerge(s, g, b)}
  IN IF may = {} THEN s ELSE MergeLinearBlocks(Merged(s, g, Min(may)))
=============================================================================
