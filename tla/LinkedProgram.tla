---------------------------- MODULE LinkedProgram ----------------------------
(***************************************************************************)
(* What a linked program does, compared with the modules compiled          *)
(* together: products made from lowered modules as                         *)
(* src/src/BytecodeCompiler.cpp makes them, given to Linker.               *)
(*                                                                         *)
(* The order within a table is immaterial: here the functions come before  *)
(* the main stream.                                                        *)
(***************************************************************************)
EXTENDS Linker, Lowering, Execution

CONSTANTS
  Inputs,     \* the values the variables may have when a program starts
  Answer      \* what a call answers

(***************************************************************************)
(* Products.                                                               *)
(***************************************************************************)
UsesConstant(i) == i.op = "Constant"
UsesName(i)     == i.name # ""

(* What the instructions of a lowered module put into the tables, in the   *)
(* order they are emitted.                                                 *)
Emitted(p) == FlattenSeq(Append(p.funs, p.main))

Registers(code) ==
  Max({0} \cup {code[k].dest : k \in DOMAIN code}
          \cup UNION {ToSet(code[k].args) : k \in DOMAIN code})

(* The instruction, `before` others having been emitted.                   *)
Encoded(i, before) ==
  [op |-> i.op, dest |-> i.dest, args |-> i.args, at |-> i.at,
   imm    |-> IF i.op \in {"Constant", "MakeFunction"} THEN Nil ELSE i.val,
   const  |-> IF UsesConstant(i) THEN Len(SelectSeq(before, UsesConstant)) + 1 ELSE 0,
   name   |-> IF UsesName(i) THEN Len(SelectSeq(before, UsesName)) + 1 ELSE 0,
   fun    |-> IF i.op = "MakeFunction" THEN i.val.n ELSE 0,
   source |-> 1, line |-> i.org]

EncodedBody(code, before) ==
  [code |-> [k \in DOMAIN code |-> Encoded(code[k], before \o SubSeq(code, 1, k - 1))],
   regs |-> Registers(code)]

ModuleProduct(id, place, p) ==
  LET all == Emitted(p)
      values == SelectSeq(all, UsesConstant)
      named  == SelectSeq(all, UsesName)
  IN [id |-> id, order |-> place, deps |-> p.deps,
      consts  |-> [k \in DOMAIN values |-> values[k].val],
      names   |-> [k \in DOMAIN named |-> named[k].name],
      sources |-> <<id>>,
      main |-> EncodedBody(p.main, FlattenSeq(p.funs)),
      funs |-> [f \in DOMAIN p.funs |->
                  EncodedBody(p.funs[f], FlattenSeq(SubSeq(p.funs, 1, f - 1)))]]

(* The program the same modules make when they are compiled together: a    *)
(* root imports the entries, in their order.                               *)
Together(sources, ids) ==
  LowerProgram(("root" :> [k \in DOMAIN ids |-> Node("import", ids[k], Nil, <<>>)]) @@ sources, "root")

(* The linked main stream with its tables looked up; a function is told    *)
(* from others by its place among those of the whole program.              *)
SameBody(f, code) ==
  /\ Len(linked.funs[f].code) = Len(code)
  /\ \A k \in DOMAIN code :
        LET i == linked.funs[f].code[k] IN
        /\ Entry(linked.consts, i.const, i.imm) = code[k].val
        /\ Entry(linked.names, i.name, "") = code[k].name
        /\ <<i.op, i.dest, i.args, i.at>> = <<code[k].op, code[k].dest, code[k].args, code[k].at>>

LookedUp(i) ==
  Instruction(i.op, i.dest, i.args, i.at,
    IF i.fun # 0
    THEN Val("fun", Max({0} \cup {f \in DOMAIN input.whole.funs : SameBody(i.fun, input.whole.funs[f])}))
    ELSE Entry(linked.consts, i.const, i.imm),
    Entry(linked.names, i.name, ""))

LinkedStream == [code |-> [g \in DOMAIN linked.main.code |-> LookedUp(linked.main.code[g])], deps |-> <<>>]

SameProgram ==
  \A v \in Inputs :
     SameMeaning(Meaning(LinkedStream, v, Answer), Meaning([code |-> input.whole.main, deps |-> <<>>], v, Answer))

(* A module with a jump to an offset at which it has a dependency.         *)
JumpsToDependency ==
  \E m \in Given : \E i \in ToSet(m.main.code) :
     IsJump(i.op) /\ \E k \in DOMAIN m.deps : m.deps[k].at = i.at

(* Linking the modules one by one gives a program that does what the       *)
(* modules compiled together do.  Left out are modules with such a jump:   *)
(* `expand` maps the offset past the dependency, so the jump skips it.     *)
LinkedMeansProgram == verdict = "linked" /\ ~ JumpsToDependency => SameProgram
=============================================================================
