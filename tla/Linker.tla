-------------------------------- MODULE Linker --------------------------------
(***************************************************************************)
(* Linking module products into one program: src/vm-rs/src/link.rs, with   *)
(* the verification of src/vm-rs/src/format.rs it calls.                   *)
(*                                                                         *)
(* In a product an instruction names its constant, its name, its function  *)
(* and its source by their place in a table of the product; 0 stands for   *)
(* none.  Whatever else sits in a table without being an index (the field  *)
(* number of a pattern) is immediate.  The debug location of an            *)
(* instruction is its source and the offset it was emitted at.             *)
(***************************************************************************)
EXTENDS ControlFlow

CONSTANTS
  Links,      \* what the linker is given: lists of products, and what they were made from
  MaxIndex    \* the largest register count (usize::MAX)

ASSUME MaxIndexAssumption == MaxIndex \in Nat

(***************************************************************************)
(* Products, as the reader of the text format makes them (ModuleArtifact). *)
(***************************************************************************)
Values == [t : STRING, n : Int]

ProductInstructions ==
  [op : STRING, dest : Nat, args : Seq(Nat), at : Nat, imm : Values,
   const : Nat, name : Nat, fun : Nat, source : Nat, line : Nat]

Bodies == [code : Seq(ProductInstructions), regs : Nat]

ModuleArtifacts ==
  [id : STRING, order : Nat, deps : Seq([module : STRING, at : Nat]),
   consts : Seq(Values), names : Seq(STRING), sources : Seq(STRING),
   main : Bodies, funs : Seq(Bodies)]

(* A table with one more entry, which takes the place of one there.        *)
Put(f, x, v) == [y \in {x} \cup DOMAIN f |-> IF y = x THEN v ELSE f[y]]

NotEntry == 0        \* entry_order is absent; the orders of the code start at 0, these at 1

ASSUME LinksAssumption ==
  \A link \in Links :
     /\ link.products \in Seq(ModuleArtifacts)
     /\ \A m \in ToSet(link.products) : \A k \in DOMAIN m.main.code : m.main.code[k].line = k

(***************************************************************************)
(* Verification (validate_program, validate_module_envelope): every index  *)
(* of every instruction is within its table, dependencies lie in the main  *)
(* stream and do not go back.                                              *)
(***************************************************************************)
InstructionValid(i, regs, count, p) ==
  /\ i.dest \in 0..regs /\ ToSet(i.args) \subseteq 1..regs
  /\ i.const \in 0..Len(p.consts) /\ (i.op = "Constant" => i.const # 0)
  /\ i.name \in 0..Len(p.names)
  /\ i.fun \in 0..Len(p.funs) /\ (i.op = "MakeFunction" => i.fun # 0)
  /\ IsJump(i.op) => i.at \in 1..count + 1

BodyValid(body, p) ==
  \A k \in DOMAIN body.code :
     /\ InstructionValid(body.code[k], body.regs, Len(body.code), p)
     /\ body.code[k].source \in DOMAIN p.sources

ProgramValid(p) == BodyValid(p.main, p) /\ \A f \in DOMAIN p.funs : BodyValid(p.funs[f], p)

EnvelopeValid(m) ==
  /\ \A k \in DOMAIN m.deps : m.deps[k].at \in 1..Len(m.main.code) + 1
  /\ \A k \in DOMAIN m.deps : k > 1 => m.deps[k - 1].at <= m.deps[k].at

(***************************************************************************)
(* The linker.                                                             *)
(***************************************************************************)
VARIABLES
  input,      \* what it was given
  given,      \* the products not looked at yet
  modules,    \* the products by identity
  entries,    \* the entry modules not expanded yet, in their order
  stack,      \* the modules being expanded, each inside the one before it
  expanded,   \* the modules that are
  order,      \* expansion_order
  linked,     \* the program so far
  bases,      \* the contexts: where each module's part of the tables starts
  verdict

vars == <<input, given, modules, entries, stack, expanded, order, linked, bases, verdict>>

NothingLinked ==
  [consts |-> <<>>, names |-> <<>>, sources |-> <<>>, funs |-> <<>>,
   main |-> [code |-> <<>>, regs |-> 0]]

Init ==
  /\ input \in Links
  /\ given = input.products
  /\ modules = <<>> /\ bases = <<>>
  /\ entries = <<>> /\ stack = <<>> /\ expanded = {} /\ order = <<>>
  /\ linked = NothingLinked
  /\ verdict = "reading"

(* Seeded fault: a product takes the place of one of the same identity.    *)
RefusalUnlessDuplicate(m) == IF ProgramValid(m) /\ EnvelopeValid(m) THEN "reading" ELSE "invalidModule"

(* Linker::new: the products are verified one by one ...                   *)
Refusal(m) ==
  CASE ~ (ProgramValid(m) /\ EnvelopeValid(m)) -> "invalidModule"
    [] ProgramValid(m) /\ EnvelopeValid(m) ->
         IF m.id \in DOMAIN modules THEN "duplicateIdentity" ELSE "reading"

Admit ==
  /\ verdict = "reading" /\ given # <<>>
  /\ given' = Tail(given)
  /\ verdict' = Refusal(Head(given))
  /\ modules' = IF verdict' = "reading" THEN Put(modules, Head(given).id, Head(given)) ELSE modules
  /\ UNCHANGED <<input, entries, stack, expanded, order, linked, bases>>

(* ... and then as a set: the entries and what the dependencies name.      *)
EntryIds == {id \in DOMAIN modules : modules[id].order # NotEntry}

(* The entries sorted by their order; which of two with the same order     *)
(* comes first is left open, and immaterial: both are refused.             *)
InEntryOrder(ids) ==
  CHOOSE s \in [1..Cardinality(ids) -> ids] :
     /\ ToSet(s) = ids
     /\ \A j, k \in DOMAIN s : j < k => modules[s[j]].order <= modules[s[k]].order

SetVerdict(ids) ==
  CASE DOMAIN modules = {} -> "emptySet"
    [] DOMAIN modules # {} /\ ids = <<>> -> "missingEntry"
    [] \E k \in DOMAIN ids : modules[ids[k]].order # k -> "invalidEntryOrder"
    [] OTHER -> IF \E id \in DOMAIN modules : \E k \in DOMAIN modules[id].deps :
                      modules[id].deps[k].module \notin DOMAIN modules
                THEN "missingDependency" ELSE "linking"

CheckSet ==
  /\ verdict = "reading" /\ given = <<>>
  /\ entries' = InEntryOrder(EntryIds)
  /\ verdict' = SetVerdict(entries')
  /\ UNCHANGED <<input, given, modules, stack, expanded, order, linked, bases>>

(* An index of a product, moved; 0 is none.                                *)
Shifted(index, by) == IF index = 0 THEN 0 ELSE index + by

(* map_instruction for an instruction of a function: its registers and its *)
(* jumps are the function's own.                                           *)
InTables(i, base) ==
  [i EXCEPT !.const = Shifted(@, base.consts), !.name = Shifted(@, base.names),
            !.fun = Shifted(@, base.funs), !.source = @ + base.sources]

(* Seeded fault: jumps keep their offsets within the module.               *)
InMainJumpsLocal(i, base, globals) ==
  [InTables(i, base) EXCEPT
     !.dest = Shifted(@, base.regs), !.args = [k \in DOMAIN @ |-> @[k] + base.regs]]

(* map_instruction for an instruction of a main stream, whose registers    *)
(* and jumps move.                                                         *)
InMain(i, base, globals) ==
  [InTables(i, base) EXCEPT
     !.dest = Shifted(@, base.regs), !.args = [k \in DOMAIN @ |-> @[k] + base.regs],
     !.at = IF IsJump(i.op) THEN globals[@] ELSE @]

BasesNow ==
  [consts |-> Len(linked.consts), names |-> Len(linked.names), funs |-> Len(linked.funs),
   sources |-> Len(linked.sources), regs |-> linked.main.regs]

(* allocate_context, and the functions of the module.                      *)
WithTables(m) ==
  [linked EXCEPT
     !.consts = @ \o m.consts, !.names = @ \o m.names, !.sources = @ \o m.sources,
     !.main.regs = @ + m.main.regs,
     !.funs = @ \o [f \in DOMAIN m.funs |->
                      [m.funs[f] EXCEPT !.code = [k \in DOMAIN @ |-> InTables(@[k], BasesNow)]]]]

Frame(id) == [id |-> id, local |-> 1, dep |-> 1, globals |-> <<>>]

Visiting == {stack[k].id : k \in DOMAIN stack}

(* expand, up to the first instruction: a module that is expanded is       *)
(* passed over, one that is being expanded is a cycle, and one whose       *)
(* registers do not fit is refused.                                        *)
EnterModule(id, below) ==
  \/ /\ id \in expanded
     /\ stack' = below
     /\ UNCHANGED <<order, linked, bases, verdict>>
  \/ /\ id \in Visiting
     /\ verdict' = "cycle"
     /\ stack' = below
     /\ UNCHANGED <<order, linked, bases>>
  \/ /\ id \notin expanded \cup Visiting
     /\ order' = Append(order, id)
     /\ IF linked.main.regs + modules[id].main.regs > MaxIndex
        THEN verdict' = "overflow" /\ stack' = below /\ UNCHANGED <<linked, bases>>
        ELSE /\ linked' = WithTables(modules[id])
             /\ bases' = Put(bases, id, BasesNow)
             /\ stack' = Append(below, Frame(id))
             /\ UNCHANGED verdict

(* finish: the next entry module.                                          *)
EnterEntry ==
  /\ verdict = "linking" /\ stack = <<>> /\ entries # <<>>
  /\ entries' = Tail(entries)
  /\ EnterModule(Head(entries), <<>>)
  /\ UNCHANGED <<input, given, modules, expanded>>

Top  == Last(stack)
Unit == modules[Top.id]
MainLength == Len(linked.main.code)

(* Seeded fault: a dependency is expanded one instruction too late.        *)
NextStopLate ==
  IF Top.dep <= Len(Unit.deps) THEN Min({Unit.deps[Top.dep].at + 1, Len(Unit.main.code) + 1})
  ELSE Len(Unit.main.code) + 1

(* Where the emission of the module's instructions stops next.             *)
NextStop == IF Top.dep <= Len(Unit.deps) THEN Unit.deps[Top.dep].at ELSE Len(Unit.main.code) + 1

WithTop(f) == Append(Front(stack), f)

(* emit_pending_main: the instruction is placed, and mapped when the whole *)
(* module has been.                                                        *)
EmitInstruction ==
  /\ verdict = "linking" /\ stack # <<>> /\ Top.local < NextStop
  /\ LET i == Unit.main.code[Top.local] IN
     linked' = [linked EXCEPT !.main.code = Append(@, [i EXCEPT !.source = @ + bases[Top.id].sources])]
  /\ stack' = WithTop([Top EXCEPT !.local = @ + 1,
                                  !.globals = Put(@, Top.local, MainLength + 1)])
  /\ UNCHANGED <<input, given, modules, entries, expanded, order, bases, verdict>>

(* A dependency is reached.  The offset it stands at is mapped when it has *)
(* been expanded: past it.                                                 *)
Passed(f) == [f EXCEPT !.globals = Put(@, f.local, MainLength + 1)]

ReachDependency ==
  /\ verdict = "linking" /\ stack # <<>> /\ Top.local >= NextStop /\ Top.dep <= Len(Unit.deps)
  /\ EnterModule(Unit.deps[Top.dep].module, WithTop(Passed([Top EXCEPT !.dep = @ + 1])))
  /\ UNCHANGED <<input, given, modules, entries, expanded>>

(* The end of a module: the end is mapped, its instructions are.           *)
Mapped(globals) ==
  LET base  == bases[Top.id]
      mine  == {globals[k] : k \in DOMAIN Unit.main.code}
      local(g) == CHOOSE k \in DOMAIN Unit.main.code : globals[k] = g
  IN [g \in DOMAIN linked.main.code |->
        IF g \in mine THEN InMain(Unit.main.code[local(g)], base, globals) ELSE linked.main.code[g]]

LeaveModule ==
  /\ verdict = "linking" /\ stack # <<>>
  /\ Top.local > Len(Unit.main.code) /\ Top.dep > Len(Unit.deps)
  /\ linked' = [linked EXCEPT !.main.code = Mapped(Put(Top.globals, Top.local, MainLength + 1))]
  /\ expanded' = expanded \cup {Top.id}
  /\ stack' = IF Len(stack) = 1 THEN <<>>
              ELSE Append(SubSeq(stack, 1, Len(stack) - 2), Passed(stack[Len(stack) - 1]))
  /\ UNCHANGED <<input, given, modules, entries, order, bases, verdict>>

(* link_modules_with_report_checked: the result is verified.               *)
Finish ==
  /\ verdict = "linking" /\ stack = <<>> /\ entries = <<>>
  /\ verdict' = IF ProgramValid(linked) THEN "linked" ELSE "invalidLinked"
  /\ UNCHANGED <<input, given, modules, entries, stack, expanded, order, linked, bases>>

Next == Admit \/ CheckSet \/ EnterEntry \/ EmitInstruction \/ ReachDependency \/ LeaveModule \/ Finish

Spec == Init /\ [][Next]_vars
-----------------------------------------------------------------------------
Refusals == {"invalidModule", "duplicateIdentity", "emptySet", "missingEntry", "invalidEntryOrder",
             "missingDependency", "cycle", "overflow"}

(* The linker's tables are as one step leaves them for the next: a module  *)
(* has a context once it is in the expansion order, and is on the stack    *)
(* until it is expanded.                                                   *)
TypeOK ==
  /\ verdict \in Refusals \cup {"reading", "linking", "linked", "invalidLinked"}
  /\ DOMAIN bases = Visiting \cup expanded /\ DOMAIN bases \subseteq ToSet(order)
  /\ Visiting \cap expanded = {} /\ IsInjective(order)
  /\ \A k \in DOMAIN stack : stack[k].local \in 1..Len(modules[stack[k].id].main.code) + 1

(* The modules the instructions of the linked main stream come from: those *)
(* whose parts of the table of sources have their sources.                 *)
HomeAmong(contexts, products, i) ==
  CHOOSE id \in DOMAIN contexts : i.source - contexts[id].sources \in DOMAIN products[id].sources

Homes == [g \in DOMAIN linked.main.code |-> HomeAmong(bases, modules, linked.main.code[g])]

(* Every module's instructions stand in the linked stream once and in      *)
(* their order, and each after all the instructions of the dependencies it *)
(* follows, over however many paths a module is reached.                   *)
DependenciesFirst ==
  LET code == linked.main.code IN
  \A g \in DOMAIN code :
     LET m == modules[Homes[g]] IN
     /\ code[g].line \in DOMAIN m.main.code
     /\ \A h \in 1..g - 1 : Homes[h] = Homes[g] => code[h].line < code[g].line
     /\ \A k \in DOMAIN m.deps : m.deps[k].at <= code[g].line =>
          \A l \in DOMAIN modules[m.deps[k].module].main.code :
             \E h \in 1..g - 1 : Homes[h] = m.deps[k].module /\ code[h].line = l

(* What an instruction names, looked up in the tables of its program.      *)
NoName == ""

Entry(table, k, none) == IF k = 0 THEN none ELSE table[k]

Names(p, i) ==
  [op |-> i.op, imm |-> i.imm, const |-> Entry(p.consts, i.const, Nil),
   name |-> Entry(p.names, i.name, NoName)]

(* Functions keep their order, behind those of the modules before.         *)
SameNames(i, m, original) ==
  /\ Names(linked, i) = Names(m, original)
  /\ i.fun = Shifted(original.fun, bases[m.id].funs)

FunctionsKept(m) ==
  \A f \in DOMAIN m.funs :
     LET code == linked.funs[bases[m.id].funs + f].code IN
     /\ DOMAIN code = DOMAIN m.funs[f].code
     /\ \A k \in DOMAIN code :
          /\ SameNames(code[k], m, m.funs[f].code[k])
          /\ <<code[k].dest, code[k].args, code[k].at>>
               = <<m.funs[f].code[k].dest, m.funs[f].code[k].args, m.funs[f].code[k].at>>

(* A jump goes where it went, among the instructions of its module.        *)
JumpKept(g, original) ==
  \A h \in DOMAIN linked.main.code :
     Homes[h] = Homes[g] =>
       (linked.main.code[h].line < original.at <=> h < linked.main.code[g].at)

RegistersOf(i) == ({i.dest} \cup ToSet(i.args)) \ {0}

(* In the linked program every instruction names the constant, the name    *)
(* and the function it named in its module, however many modules' tables   *)
(* precede it, a jump goes where it went in its module, and no two modules *)
(* share a register.                                                       *)
AllNamesKept ==
  LET code == linked.main.code IN
  /\ \A g \in DOMAIN code :
        LET m == modules[Homes[g]]
            original == m.main.code[code[g].line]
        IN SameNames(code[g], m, original) /\ (IsJump(original.op) => JumpKept(g, original))
  /\ \A id \in DOMAIN bases : FunctionsKept(modules[id])
  /\ \A g, h \in DOMAIN code :
        Homes[g] # Homes[h] => RegistersOf(code[g]) \cap RegistersOf(code[h]) = {}

NamesKept == verdict = "linked" => AllNamesKept

(* What the linker has put together, at every step.                        *)
ExpansionSound == TypeOK /\ DependenciesFirst /\ NamesKept

(* Which sets of products can be linked, by the paths of their             *)
(* dependencies.                                                           *)
Given == ToSet(input.products)
Identities == {m.id : m \in Given}
Product1(id) == CHOOSE m \in Given : m.id = id
Named(m) == {m.deps[k].module : k \in DOMAIN m.deps}

(* What the modules reach: the least set with them and all its modules     *)
(* depend on.                                                              *)
Closed(S) == \A id \in S : Named(Product1(id)) \subseteq S
NeededBy(ids) == {id \in Identities : \A S \in SUBSET Identities : ids \subseteq S /\ Closed(S) => id \in S}

Needed == NeededBy({m.id : m \in {x \in Given : x.order # NotEntry}})
Cyclic == \E id \in Needed : id \in NeededBy(Named(Product1(id)))

WellFormed ==
  /\ \A m \in Given : ProgramValid(m) /\ EnvelopeValid(m)
  /\ Cardinality(Identities) = Len(input.products)
  /\ \E n \in 1..Len(input.products) :
        /\ {m.order : m \in Given} \ {NotEntry} = 1..n
        /\ Cardinality({m \in Given : m.order # NotEntry}) = n
  /\ \A m \in Given : Named(m) \subseteq Identities

(* The registers of the modules with these identities.                     *)
RegistersIn(ids) ==
  LET upTo[k \in 0..Len(input.products)] ==
        IF k = 0 THEN 0
        ELSE upTo[k - 1] + IF input.products[k].id \in ids THEN input.products[k].main.regs ELSE 0
  IN upTo[Len(input.products)]

(* A set of products is linked exactly if it is well-formed, what its      *)
(* entries need has no cycle and the registers fit; a linked program never *)
(* fails its verification.                                                 *)
VerdictExact ==
  /\ verdict = "linked" => WellFormed /\ ~ Cyclic /\ RegistersIn(Needed) <= MaxIndex
  /\ verdict \in Refusals =>
       IF verdict \in {"cycle", "overflow"}
       THEN WellFormed /\ (verdict = "cycle" => Cyclic)
              /\ (verdict = "overflow" => RegistersIn(Needed) > MaxIndex)
       ELSE ~ WellFormed
  /\ verdict # "invalidLinked"
=============================================================================
