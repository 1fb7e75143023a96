---------------------------- MODULE ControlFlow ----------------------------
(***************************************************************************)
(* The control-flow graph of an instruction stream and its dominance       *)
(* facts: src/src/ControlFlowGraph.cpp and src/src/Dominance.cpp.          *)
(*                                                                         *)
(* A stream is a sequence of instructions.  Offsets are the code's plus    *)
(* one, so that they are positions of the sequence; an instruction's jump  *)
(* target (`at`) and a dependency's offset range over 1..Len(stream)+1,    *)
(* the last of which is the end of the stream.  Blocks are numbered from 1 *)
(* in stream order and the synthetic exit block is the last one.  The      *)
(* lists of successors and predecessors are sets, but for the fallthrough  *)
(* successor, which the block merger asks for.                             *)
(***************************************************************************)
EXTENDS Integers, Sequences, FiniteSets, SequencesExt, TLC

NoBlock == 0        \* std::nullopt for an optional block
NoReg   == 0        \* no destination register: registers count from 1

(* A run-time value: its type, and a number that tells it from the others  *)
(* of the type.                                                            *)
Val(t, n) == [t |-> t, n |-> n]
Nil     == Val("nil", 0)
Bool(b) == Val("bool", IF b THEN 1 ELSE 0)
Num(n)  == Val("num", n)

(* isTruthy.                                                               *)
IsTruthy(v) == v \notin {Nil, Bool(FALSE)}

(* An instruction: its operation, destination register, the registers it   *)
(* reads, jump target, value, name, and the offset of the source           *)
(* instruction it executes for.                                            *)
Instruction(op, dest, args, at, val, name) ==
  [op |-> op, dest |-> dest, args |-> args, at |-> at, val |-> val, name |-> name, org |-> 0]

(* The same list, as a table rather than a rule (TLC evaluates a rule at   *)
(* every application).                                                     *)
Listed(s) == s \o <<>>

(* The numbers of a set, in their order: the i-th is the one that i of     *)
(* them do not exceed.                                                     *)
Upto(S, i)  == {j \in S : j <= i}
IthOf(S, i) == CHOOSE j \in S : Cardinality(Upto(S, j)) = i
InOrder(S)  == Listed([i \in 1..Cardinality(S) |-> IthOf(S, i)])

IsConditional(op) == op \in {"JumpIfFalse", "JumpIfTrue"}
IsJump(op)        == op = "Jump" \/ IsConditional(op)
IsTerminator(op)  == IsJump(op) \/ op = "Return"

TargetsInRange(stream) ==
  \A i \in DOMAIN stream : IsJump(stream[i].op) => stream[i].at \in 1..Len(stream) + 1

(* Block starts: the first instruction, every instruction after a          *)
(* terminator and every jump target inside the stream.                     *)
Leaders(stream) ==
  (IF stream = <<>> THEN {} ELSE {1})
    \cup {i + 1 : i \in {j \in 1..Len(stream) - 1 : IsTerminator(stream[j].op)}}
    \cup {t \in {stream[i].at : i \in {j \in DOMAIN stream : IsJump(stream[j].op)}} :
             t <= Len(stream)}

(* Blocks reached from the entry, by as many rounds as there are blocks.   *)
Reached(entry, exit, succ) ==
  LET within[k \in 0..exit] ==
        IF k = 0 THEN {entry}
        ELSE LET before == within[k - 1] IN before \cup UNION {succ[b] : b \in before}
  IN within[exit]

(* Successors of block b, which ends before instruction `end`.             *)
Successors(stream, end, blockOf) ==
  LET last == stream[end - 1] IN
  CASE last.op = "Jump"       -> {blockOf[last.at]}
    [] IsConditional(last.op) -> {blockOf[end], blockOf[last.at]}
    [] last.op = "Return"     -> {blockOf[Len(stream) + 1]}
    [] OTHER                  -> {blockOf[end]}

(* buildControlFlowGraph.                                                  *)
ControlFlowGraph(stream) ==
  LET starts  == InOrder(Leaders(stream))
      exit    == Len(starts) + 1
      past    == Len(stream) + 1
      first   == Append(starts, past)
      end     == [b \in 1..exit |-> IF b >= exit - 1 THEN past ELSE starts[b + 1]]
      blockOf == Listed([i \in 1..past |->
                          IF i = past THEN exit ELSE Cardinality({k \in DOMAIN starts : starts[k] <= i})])
      succ    == Listed([b \in 1..exit |->
                          IF b = exit THEN {} ELSE Successors(stream, end[b], blockOf)])
  IN [entry |-> 1, exit |-> exit, first |-> first, end |-> Listed(end), blockOf |-> blockOf,
      succ |-> succ,
      pred |-> Listed([b \in 1..exit |-> {a \in 1..exit : b \in succ[a]}]),
      reachable |-> Reached(1, exit, succ)]

(* fallthroughSuccessor: the block the end of b runs into, and for a       *)
(* conditional jump the first of its two successors.                       *)
Fallthrough(g, b) == g.blockOf[g.end[b]]

ReachablePred(g, b) == g.pred[b] \cap g.reachable

(***************************************************************************)
(* Dominance: the iterative data-flow solution, in rounds until nothing    *)
(* can change any more.  (The code goes through the blocks of a round one  *)
(* after the other, which leads to the same solution.)                     *)
(***************************************************************************)
DominatorRound(g, dom) ==
  Listed([b \in 1..g.exit |->
           IF b \notin g.reachable \/ b = g.entry THEN dom[b]
           ELSE {b} \cup {d \in g.reachable : \A p \in ReachablePred(g, b) : d \in dom[p]}])

Dominators(g) ==
  LET initial == [b \in 1..g.exit |->
                    IF b \notin g.reachable THEN {}
                    ELSE IF b = g.entry THEN {b} ELSE g.reachable]
      round[k \in 0..g.exit] ==
        IF k = 0 THEN Listed(initial) ELSE LET before == round[k - 1] IN DominatorRound(g, before)
  IN round[g.exit]

(* The strict dominator that every other strict dominator dominates.       *)
ImmediateDominators(g, dom) ==
  Listed([b \in 1..g.exit |->
     LET strict    == dom[b] \ {b}
         immediate == {c \in strict : strict \ {c} \subseteq dom[c]}
     IN IF immediate = {} THEN NoBlock ELSE CHOOSE c \in immediate : TRUE])

(* addFrontierAlongIdomChain: the blocks met climbing the tree of          *)
(* immediate dominators from a predecessor until the join's own immediate  *)
(* dominator, which is left out, or the root.                              *)
ClimbFrom(g, idom, start, stop) ==
  LET climb[k \in 0..g.exit] ==
        IF k = 0 THEN <<>>
        ELSE LET walked == climb[k - 1]
                 runner == IF k = 1 THEN start
                           ELSE IF walked[k - 1] = NoBlock THEN NoBlock
                           ELSE idom[walked[k - 1]]
             IN Append(walked, IF runner = stop THEN NoBlock ELSE runner)
  IN ToSet(climb[g.exit]) \ {NoBlock}

(* Seeded fault: only blocks with several predecessors are in a frontier,  *)
(* not an entry that is jumped back to.                                    *)
DominanceFrontiersOfJoins(g, idom) ==
  LET met == Listed([c \in 1..g.exit |->
                UNION {ClimbFrom(g, idom, p, idom[c]) :
                         p \in IF Cardinality(g.pred[c]) > 1 THEN ReachablePred(g, c) ELSE {}}])
  IN Listed([b \in 1..g.exit |-> {c \in 1..g.exit : b \in met[c]}])

(* A block is in the frontiers of all that is met climbing from its        *)
(* predecessors.                                                           *)
DominanceFrontiers(g, idom) ==
  LET met == Listed([c \in 1..g.exit |-> UNION {ClimbFrom(g, idom, p, idom[c]) : p \in ReachablePred(g, c)}])
  IN Listed([b \in 1..g.exit |-> {c \in 1..g.exit : b \in met[c]}])

(* buildDominanceInfo.                                                     *)
DominanceInfo(g) ==
  LET dom  == Dominators(g)
      idom == ImmediateDominators(g, dom)
  IN [dominators |-> dom, idom |-> idom,
      children   |-> Listed([b \in 1..g.exit |-> {c \in 1..g.exit : idom[c] = b}]),
      frontier   |-> DominanceFrontiers(g, idom)]

(***************************************************************************)
(* What the graph has to satisfy, and what the two analyses are defined to *)
(* compute, on paths of the graph.                                         *)
(***************************************************************************)

(* ControlFlowGraph::verify, but for the anchors of dependencies, which are *)
(* not kept: blocks follow one another from the first instruction to the   *)
(* last, every instruction is in its block, and edges have both ends.      *)
GraphVerified(stream, g) ==
  /\ g.entry \in 1..g.exit
  /\ g.first[1] = 1
  /\ g.first[g.exit] = Len(stream) + 1 /\ g.end[g.exit] = Len(stream) + 1 /\ g.succ[g.exit] = {}
  /\ \A b \in 1..g.exit - 1 : g.first[b] < g.end[b] /\ g.end[b] = g.first[b + 1]
  /\ \A i \in 1..Len(stream) :
        g.blockOf[i] \in 1..g.exit - 1 /\ i \in g.first[g.blockOf[i]]..g.end[g.blockOf[i]] - 1
  /\ \A b \in 1..g.exit : g.succ[b] \cup g.pred[b] \subseteq 1..g.exit
  /\ \A a, b \in 1..g.exit : b \in g.succ[a] <=> a \in g.pred[b]
  /\ g.reachable = Reached(g.entry, g.exit, g.succ)

(* What makes it a graph of control: a block is entered at its first       *)
(* instruction and left at its last.                                       *)
BlocksAreStraight(stream, g) ==
  /\ \A b \in 1..g.exit - 1 : \A i \in g.first[b]..g.end[b] - 1 :
        IsTerminator(stream[i].op) => i = g.end[b] - 1
  /\ \A i \in DOMAIN stream : IsJump(stream[i].op) => g.first[g.blockOf[stream[i].at]] = stream[i].at

(* d dominates b when b cannot be reached once d is removed.               *)
PathDominators(g) ==
  LET Without(d) == [x \in 1..g.exit |-> IF x = d THEN {} ELSE g.succ[x] \ {d}]
      reached    == Listed([d \in 1..g.exit |->
                             IF d = g.entry THEN {} ELSE Reached(g.entry, g.exit, Without(d))])
  IN Listed([b \in 1..g.exit |-> {d \in g.reachable : b \in g.reachable /\
                                                    (d = b \/ b \notin reached[d])}])

(* DominanceInfo::verify and the definition of the frontier.               *)
DominanceIsByPaths(g, info) ==
  LET dom == PathDominators(g)
  IN \A b, c \in 1..g.exit :
        /\ info.dominators[b] = dom[b]
        /\ info.idom[b] = c <=>
             c # b /\ c \in dom[b] /\ \A d \in dom[b] \ {b} : d \in dom[c]
        /\ c \in info.frontier[b] <=>
             /\ \E p \in ReachablePred(g, c) : b \in dom[p]
             /\ ~ (b \in dom[c] /\ b # c)
=============================================================================
