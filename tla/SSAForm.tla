------------------------------ MODULE SSAForm -------------------------------
(***************************************************************************)
(* Static single assignment form of one instruction stream: building it,   *)
(* checking it, and leaving it again (src/src/SSA.cpp).                    *)
(*                                                                         *)
(* A form has the graph of the stream, the instructions that are left in   *)
(* each block, the phis at its head, and the dependencies of the stream.   *)
(* Values are named after what defines them: an instruction's value is the *)
(* instruction's offset, and the values of phis come after all of those.   *)
(* (The code numbers them in the order of its walk and keeps the register  *)
(* number for the first definition of a register; only their being         *)
(* different is used.)  Memory slots, parameters and source spans are left *)
(* out: the optimizer attaches none of the first two to a form.            *)
(***************************************************************************)
EXTENDS ControlFlow

NoValue == 0        \* invalidSSAValue

(* The same function, as a table rather than a rule (TLC evaluates a rule  *)
(* at every application).                                                  *)
Table(f) == f @@ <<>>

Defining(stream, g, slot) ==
  {g.blockOf[i] : i \in {j \in DOMAIN stream : stream[j].dest = slot}} \cap g.reachable

(* The blocks that need a phi for a register: the frontiers of its         *)
(* definitions, and those of the phis themselves, if it is defined in more *)
(* than one block.                                                         *)
PhiBlocks(g, info, defs) ==
  IF Cardinality(defs) < 2 THEN {}
  ELSE LET Frontier(B) == UNION {info.frontier[b] : b \in B} \ {g.exit}
           grown[k \in 0..g.exit] ==
             IF k = 0 THEN Frontier(defs)
             ELSE LET before == grown[k - 1] IN before \cup Frontier(before)
       IN grown[g.exit]

(* The walk over the dominator tree, children in block order.              *)
WalkOrder(g, info) ==
  LET Visit(w) == [walked  |-> Append(w.walked, Head(w.waiting)),
                   waiting |-> InOrder(info.children[Head(w.waiting)]) \o Tail(w.waiting)]
  IN FoldLeft(LAMBDA w, k : IF w.waiting = <<>> THEN w ELSE Visit(w),
              [walked |-> <<>>, waiting |-> <<g.entry>>], [k \in 1..g.exit |-> k]).walked

(***************************************************************************)
(* liftOrdinaryIRToSSA.  The verdict is "lifted", or "noIncoming" when a   *)
(* register has no value on an edge into a phi, or "undefined" when an     *)
(* instruction reads a register no definition of which is on the way up    *)
(* the dominator tree, whichever the walk meets first.                     *)
(***************************************************************************)
PhiValue(stream, g, b, slot) == Len(stream) * (slot + 1) + b

(* The registers' values after each block of the walk: those of the        *)
(* immediate dominator, then the block's phis, then its instructions.      *)
Renamed(stream, g, info, phiSlots) ==
  LET slots == {stream[i].dest : i \in DOMAIN stream} \ {NoReg}
      AtHead(held, b) ==
        LET above == IF info.idom[b] = NoBlock THEN [s \in slots |-> NoValue] ELSE held[info.idom[b]]
        IN Table([s \in slots |-> IF s \in phiSlots[b] THEN PhiValue(stream, g, b, s) ELSE above[s]])
      At(head, b, i, s) ==
        LET written == {j \in g.first[b]..i - 1 : stream[j].dest = s}
        IN IF s \notin slots THEN NoValue ELSE IF written = {} THEN head[s] ELSE Max(written)
      Visit(w, b) ==
        LET head == AtHead(w.after, b)
            used == Table([i \in g.first[b]..g.end[b] - 1 |->
                       [k \in DOMAIN stream[i].args |-> At(head, b, i, stream[i].args[k])]])
            end  == [s \in slots |-> At(head, b, g.end[b], s)]
            bad  == IF \E i \in DOMAIN used : \E k \in DOMAIN used[i] : used[i][k] = NoValue
                    THEN "undefined"
                    ELSE IF \E c \in g.succ[b] : \E s \in phiSlots[c] : end[s] = NoValue
                    THEN "noIncoming" ELSE "lifted"
        IN [after   |-> Table([w.after EXCEPT ![b] = Table(end)]),
            used    |-> used @@ w.used,
            verdict |-> IF w.verdict = "lifted" THEN bad ELSE w.verdict]
  IN FoldLeft(Visit,
              [after |-> [b \in 1..g.exit |-> [s \in slots |-> NoValue]], used |-> <<>>,
               verdict |-> "lifted"],
              WalkOrder(g, info))

(* An unreachable block reads the definitions of the unreachable code      *)
(* before it, or else one of the reachable code (the code takes the first  *)
(* its walk met).                                                          *)
UnreachableRead(stream, g, i, slot) ==
  LET defs   == {j \in DOMAIN stream : stream[j].dest = slot}
      before == {j \in defs : j < i /\ g.blockOf[j] \notin g.reachable}
      met    == {j \in defs : g.blockOf[j] \in g.reachable}
  IN IF before # {} THEN Max(before) ELSE IF met # {} THEN Min(met) ELSE NoValue

Lift(stream, deps) ==
  LET g        == ControlFlowGraph(stream)
      info     == DominanceInfo(g)
      slots    == {stream[i].dest : i \in DOMAIN stream} \ {NoReg}
      phiAt    == Table([s \in slots |-> PhiBlocks(g, info, Defining(stream, g, s))])
      phiSlots == Table([b \in 1..g.exit |-> {s \in slots : b \in phiAt[s]}])
      walk     == Renamed(stream, g, info, phiSlots)
      dead     == {i \in DOMAIN stream : g.blockOf[i] \notin g.reachable}
      Reads(i) == IF i \in dead
                  THEN [k \in DOMAIN stream[i].args |-> UnreachableRead(stream, g, i, stream[i].args[k])]
                  ELSE walk.used[i]
      Lifted(i) == [stream[i] EXCEPT !.args = Reads(i), !.org = i,
                                     !.dest = IF @ = NoReg THEN NoValue ELSE i]
      Phi(b, s) == [result |-> PhiValue(stream, g, b, s),
                    from   |-> [p \in g.pred[b] |-> IF p \in g.reachable THEN walk.after[p][s]
                                                    ELSE NoValue]]
      blocks   == [b \in 1..g.exit |-> [k \in 1..g.end[b] - g.first[b] |-> Lifted(g.first[b] + k - 1)]]
  IN [verdict |-> IF walk.verdict = "lifted" /\ \E i \in dead : \E k \in DOMAIN stream[i].args :
                                                                   Reads(i)[k] = NoValue
                  THEN "undefined" ELSE walk.verdict,
      g |-> g, info |-> info, blocks |-> blocks, deps |-> deps,
      phis |-> [b \in 1..g.exit |->
                  LET order == InOrder(phiSlots[b]) IN [k \in DOMAIN order |-> Phi(b, order[k])]]]

(***************************************************************************)
(* SSAFunction::verify: every value has one definition, and it dominates   *)
(* its uses, the one of a phi at the end of the predecessor it comes from. *)
(***************************************************************************)
Definitions(f) ==
  UNION {{<<f.phis[b][k].result, b, 0>> : k \in DOMAIN f.phis[b]}
           \cup {<<i.dest, b, i.org>> : i \in {x \in ToSet(f.blocks[b]) : x.dest # NoValue}}
         : b \in 1..f.g.exit}

DefinitionOf(f) ==
  LET defs == Definitions(f)
  IN Table([v \in {d[1] : d \in defs} |-> CHOOSE d \in defs : d[1] = v])

Dominates(f, a, b) == a \in f.g.reachable /\ a \in f.info.dominators[b]

DominatingUse(f, at, v, b) ==
  v \in DOMAIN at /\ (b \in f.g.reachable => Dominates(f, at[v][2], b))

PhisAreSound(f, at) ==
  \A b \in 1..f.g.exit : \A phi \in ToSet(f.phis[b]) :
     /\ DOMAIN phi.from = f.g.pred[b]
     /\ \A p \in f.g.pred[b] : DominatingUse(f, at, phi.from[p], p)

UsesAreSound(f, at) ==
  \A b \in 1..f.g.exit : \A i \in ToSet(f.blocks[b]) : \A k \in DOMAIN i.args :
     LET v == i.args[k]
     IN /\ DominatingUse(f, at, v, b)
        /\ b \in f.g.reachable /\ at[v][2] = b => at[v][3] < i.org

Verified(f) ==
  LET defs == Definitions(f)
      at   == DefinitionOf(f)
  IN /\ Cardinality(DOMAIN at) = Cardinality(defs)
     /\ f.phis[f.g.exit] = <<>>
     /\ PhisAreSound(f, at)
     /\ UsesAreSound(f, at)

(***************************************************************************)
(* lowerParallelCopies: the moves of one edge happen together.  A move is  *)
(* safe when no other still reads its destination; when none is, the first *)
(* destination is saved in a new temporary, which the others read instead. *)
(***************************************************************************)
Move(to, from) == [to |-> to, from |-> from]

FirstSafe(pending) ==
  LET sources == {pending[k].from : k \in DOMAIN pending}
      safe    == {k \in DOMAIN pending : pending[k].to \notin sources}
  IN IF safe = {} THEN 0 ELSE Min(safe)

OneMove(c) ==
  LET k == FirstSafe(c.pending)
      saved == Head(c.pending).to
  IN IF c.pending = <<>> THEN c
     ELSE IF k # 0 THEN [c EXCEPT !.ordered = Append(@, c.pending[k]),
                                  !.pending = RemoveAt(@, k)]
     ELSE [c EXCEPT !.ordered = Append(@, Move(c.temporary, saved)), !.temporary = @ + 1,
                    !.pending = [j \in DOMAIN @ |-> IF @[j].from = saved
                                                    THEN [@[j] EXCEPT !.from = c.temporary] ELSE @[j]]]

ParallelCopies(moves, temporary) ==
  FoldLeft(LAMBDA c, k : OneMove(c),
           [pending |-> SelectSeq(moves, LAMBDA m : m.to # m.from), ordered |-> <<>>,
            temporary |-> temporary],
           [k \in 1..2 * Len(moves) |-> k])

(* The moves of the edge from p to b, in the order of the block's phis.    *)
(* Seeded fault: every edge into a block makes the copies of the first.    *)
EdgeMovesOfFirst(f, p, b) ==
  [k \in DOMAIN f.phis[b] |-> Move(f.phis[b][k].result, f.phis[b][k].from[Min(f.g.pred[b])])]

EdgeMoves(f, p, b) ==
  [k \in DOMAIN f.phis[b] |-> Move(f.phis[b][k].result, f.phis[b][k].from[p])]

(* planSSADeSSACopies: the copies of every edge into a block with phis.    *)
(* Temporaries are shared by no two edges.                                 *)
CopyPlan(f) ==
  LET values == {d[1] : d \in Definitions(f)} \cup {NoValue}
      ends   == FoldLeft(LAMBDA es, b : es \o [k \in 1..Cardinality(f.g.pred[b]) |->
                                                 <<InOrder(f.g.pred[b])[k], b>>],
                         <<>>, SelectSeq(InOrder(1..f.g.exit), LAMBDA b : f.phis[b] # <<>>))
      Plan(plan, e) == LET c == ParallelCopies(EdgeMoves(f, e[1], e[2]), plan.temporary)
                       IN [temporary |-> c.temporary,
                           copies    |-> plan.copies \cup {<<e, c.ordered>>}]
      planned == FoldLeft(Plan, [temporary |-> Max(values) + 1, copies |-> {}], ends).copies
  IN {c \in planned : c[2] # <<>>}

(***************************************************************************)
(* lowerSSADeSSACopies and lowerSSADeSSAToIR: the blocks in their order,   *)
(* each with the copies of its edges.  A critical edge gets a piece of its *)
(* own, right behind the predecessor when control falls into it and behind *)
(* all blocks when it is jumped to; the last block may then not fall off   *)
(* its end.  In the pieces a jump's target is still a block.               *)
(***************************************************************************)
CopiesOf(moves, org) ==
  [k \in DOMAIN moves |->
     [Instruction("Copy", moves[k].to, <<moves[k].from>>, 0, Nil, "") EXCEPT !.org = org]]

JumpInstruction(at, org) == [Instruction("Jump", NoReg, <<>>, at, Nil, "") EXCEPT !.org = org]

NeverFallsThrough(op) == op \in {"Jump", "Return"}

IsCritical(g, e) == Cardinality(g.succ[e[1]]) > 1 /\ Cardinality(g.pred[e[2]]) > 1

(* The copies of the edges that satisfy a condition, in the edges' order.  *)
EdgesInOrder(C) ==
  LET From(p)  == InOrder({c[1][2] : c \in {x \in C : x[1][1] = p}})
      The(p, q) == CHOOSE c \in C : c[1] = <<p, q>>
      preds    == InOrder({c[1][1] : c \in C})
  IN FlattenSeq([k \in DOMAIN preds |->
                   [j \in DOMAIN From(preds[k]) |-> The(preds[k], From(preds[k])[j])]])
Moves(C) == FlattenSeq([k \in DOMAIN EdgesInOrder(C) |-> EdgesInOrder(C)[k][2]])

SourcePiece(f, plain, b) ==
  LET g      == f.g
      org    == g.end[b] - 1
      enters == {c \in plain : c[1][2] = b /\ Cardinality(g.pred[b]) = 1}
      leaves == {c \in plain : c[1][1] = b /\ Cardinality(g.pred[c[1][2]]) # 1}
      code   == [k \in DOMAIN f.blocks[b] |-> [f.blocks[b][k] EXCEPT
                   !.at = IF IsJump(f.blocks[b][k].op) THEN g.blockOf[@] ELSE @]]
      closed == code # <<>> /\ IsTerminator(Last(code).op)
      body   == IF closed THEN Front(code) ELSE code
      final  == IF closed THEN <<Last(code)>> ELSE <<>>
      fence  == IF b = g.exit - 1 /\ ~ (closed /\ NeverFallsThrough(Last(code).op))
                THEN <<JumpInstruction(g.exit, org)>> ELSE <<>>
      entry  == CopiesOf(Moves(enters), g.first[b])
  IN [of |-> b, to |-> NoBlock, entering |-> Len(entry),
      code |-> IF b = g.exit THEN <<>>
               ELSE entry \o body \o CopiesOf(Moves(leaves), org) \o final \o fence]

SplitPiece(f, c) ==
  LET org == f.g.end[c[1][1]] - 1
  IN [of |-> c[1][1], to |-> c[1][2], entering |-> 0,
      code |-> Append(CopiesOf(c[2], org), JumpInstruction(c[1][2], org))]

Layout(f) ==
  LET plan     == CopyPlan(f)
      critical == {c \in plan : IsCritical(f.g, c[1])}
      falling  == {c \in critical : c[1][2] = Fallthrough(f.g, c[1][1])}
      Splits(C) == [k \in DOMAIN EdgesInOrder(C) |-> SplitPiece(f, EdgesInOrder(C)[k])]
      Block(b) == <<SourcePiece(f, plan \ critical, b)>> \o Splits({c \in falling : c[1][1] = b})
  IN FlattenSeq([b \in 1..f.g.exit - 1 |-> Block(b)])
       \o Splits(critical \ falling) \o Block(f.g.exit)

(* Where the pieces start, the block of which a piece is, and what an      *)
(* offset of the stream the form was made from becomes.                    *)
PieceStarts(pieces) ==
  LET length[k \in 0..Len(pieces)] ==
        IF k = 0 THEN 0 ELSE LET before == length[k - 1] IN before + Len(pieces[k].code)
  IN Table([k \in DOMAIN pieces |-> length[k - 1] + 1])

PiecesOf(pieces, b, to) == {k \in DOMAIN pieces : pieces[k].of = b /\ pieces[k].to = to}

BlockPiece(pieces, b) == CHOOSE k \in PiecesOf(pieces, b, NoBlock) : TRUE

(* A jump out of a block goes through the piece of its edge if there is    *)
(* one.                                                                    *)
JumpTarget(pieces, start, p, b) ==
  LET split == IF p.to = NoBlock THEN PiecesOf(pieces, p.of, b) ELSE {}
  IN start[CHOOSE k \in (IF split = {} THEN {BlockPiece(pieces, b)} ELSE split) : TRUE]

InsertionOffset(f, pieces, start, at) ==
  LET b    == f.g.blockOf[at]
      here == BlockPiece(pieces, b)
  IN start[here] + IF at = f.g.first[b] THEN 0
                   ELSE pieces[here].entering + Len(SelectSeq(f.blocks[b], LAMBDA i : i.org < at))

Assembled(f, pieces, start) ==
  LET Placed(p) == [k \in DOMAIN p.code |->
                      IF IsJump(p.code[k].op)
                      THEN [p.code[k] EXCEPT !.at = JumpTarget(pieces, start, p, @)] ELSE p.code[k]]
  IN [code |-> FlattenSeq([k \in DOMAIN pieces |-> Placed(pieces[k])]),
      deps |-> [k \in DOMAIN f.deps |-> [f.deps[k] EXCEPT !.at = InsertionOffset(f, pieces, start, @)]]]

Leave(f) == LET pieces == Layout(f) IN Assembled(f, pieces, PieceStarts(pieces))
=============================================================================
