------------------------------ MODULE Lowering ------------------------------
(***************************************************************************)
(* Lowering of checked programs to instruction streams:                    *)
(* src/src/IRCompiler.cpp over the emitters of src/src/IR.cpp.             *)
(*                                                                         *)
(* A syntax node has a kind, a name, a literal value and its children.     *)
(* Names are the resolved ones, so scoping is done, and the metadata the   *)
(* type checker attaches to nodes is taken to be present.  Constants stand *)
(* in the instruction itself rather than in a pool, and a name is a name,  *)
(* not an index.  The operators that differ from a modelled one only in    *)
(* the value they compute are left out, and capability operators; so are   *)
(* bindings and source spans.  A method is lowered like a function.        *)
(*                                                                         *)
(* An instruction executes for itself (`org`) when it is first emitted.    *)
(***************************************************************************)
EXTENDS ControlFlow

Node(k, name, val, kids) == [k |-> k, name |-> name, val |-> val, kids |-> kids]
Absent == Node("absent", "", Nil, <<>>)     \* an optional child that is not there

(***************************************************************************)
(* The compiler's state: the stream being built with its register count,   *)
(* the finished functions, the dependencies, the modules compiled so far,  *)
(* the enclosing loops, and the register of the expression just compiled.  *)
(* `modules` gives the statements of every module, and `independent` says  *)
(* whether one module is lowered on its own (its imports become            *)
(* dependencies) or the whole program is (they are lowered in place).      *)
(***************************************************************************)
Fresh(modules, independent) ==
  [code |-> <<>>, next |-> 1, funs |-> <<>>, deps |-> <<>>, done |-> {}, loops |-> <<>>,
   names |-> 0, r |-> NoReg, rs |-> <<>>, fails |-> {}, binds |-> <<>>,
   modules |-> modules, independent |-> independent]

Here(s) == Len(s.code) + 1

Emit(s, i) == [s EXCEPT !.code = Append(@, [i EXCEPT !.org = Here(s)])]

MakeRegister(s) == [s EXCEPT !.next = @ + 1, !.r = s.next]

(* An instruction that defines a new register, one that defines none.      *)
Define(s, op, args, val, name) ==
  MakeRegister(Emit(s, Instruction(op, s.next, args, 0, val, name)))
Effect(s, op, args, name) == Emit(s, Instruction(op, NoReg, args, 0, Nil, name))

Constant(s, v)      == Define(s, "Constant", <<>>, v, "")
LoadVar(s, name)    == Define(s, "LoadVar", <<>>, Nil, name)
CopyTo(s, dest, r)  == Emit(s, Instruction("Copy", dest, <<r>>, 0, Nil, ""))

(* A forward jump is emitted without its target; Patch sets the target of  *)
(* a set of jumps to the next instruction.                                 *)
ForwardJump(s, op, args) == Emit(s, Instruction(op, NoReg, args, 0, Nil, ""))
JumpTo(s, target) == Emit(s, Instruction("Jump", NoReg, <<>>, target, Nil, ""))
Patch(s, jumps) ==
  [s EXCEPT !.code = [i \in DOMAIN @ |-> IF i \in jumps THEN [@[i] EXCEPT !.at = Here(s)]
                                         ELSE @[i]]]

(* A loop's context while its body is lowered, and the jumps that break    *)
(* out of it once it is.                                                   *)
EnterLoop(s, continueAt) == [s EXCEPT !.loops = Append(@, [continueAt |-> continueAt, breaks |-> {}])]
LeaveLoop(s) == [s EXCEPT !.loops = Front(@)]
Breaks(s) == Last(s.loops).breaks

RECURSIVE Expression(_, _), Expressions(_, _), Statement(_, _), Statements(_, _)
RECURSIVE Pattern(_, _, _), PatternFields(_, _, _, _, _), Alternatives(_, _, _, _)
RECURSIVE MatchArms(_, _, _, _, _)

(***************************************************************************)
(* Patterns.  Lowering a pattern collects the jumps taken when it does not *)
(* match and the variables it binds with the registers that hold them.     *)
(***************************************************************************)
FailIfFalse(s, r) ==
  LET j == ForwardJump(s, "JumpIfFalse", <<r>>) IN [j EXCEPT !.fails = @ \cup {Here(s)}]

(* The payload of a variant or the fields of a struct, one field pattern   *)
(* after the other.                                                        *)
PatternFields(op, kids, i, value, s) ==
  IF i > Len(kids) THEN s
  ELSE LET field == Define(s, op, <<value>>, Num(i), "")
       IN PatternFields(op, kids, i + 1, value, Pattern(kids[i], field.r, field))

(* compilePattern, OR patterns: the alternatives in turn, each copying what *)
(* it binds to the registers the alternatives share; all but the last jump *)
(* to the end on success, and their failures lead to the next one.         *)
SharedRegister(shared, name) ==
  LET known == {i \in DOMAIN shared : shared[i][1] = name}
  IN IF known = {} THEN NoReg ELSE shared[CHOOSE i \in known : TRUE][2]

ShareBinding(s, bind) ==
  LET known  == SharedRegister(s.binds, bind[1])
      opened == IF known # NoReg THEN [s EXCEPT !.r = known]
                ELSE LET m == MakeRegister(s)
                     IN [m EXCEPT !.binds = Append(@, <<bind[1], m.r>>)]
  IN CopyTo(opened, opened.r, bind[2])

Alternatives(kids, i, value, s) ==
  LET alone  == Pattern(kids[i], value, [s EXCEPT !.fails = {}, !.binds = <<>>])
      copied == FoldLeft(ShareBinding, [alone EXCEPT !.binds = s.binds], alone.binds)
  IN IF i = Len(kids) THEN [copied EXCEPT !.fails = s.fails \cup alone.fails]
     ELSE LET jumped == ForwardJump(copied, "Jump", <<>>)
              next   == Alternatives(kids, i + 1, value,
                          [Patch(jumped, alone.fails) EXCEPT !.fails = s.fails])
          IN Patch(next, {Here(copied)})

Pattern(p, value, s) ==
  CASE p.k = "wildcard" -> s
    [] p.k = "bind"     -> [s EXCEPT !.binds = Append(@, <<p.name, value>>)]
    [] p.k = "constant" ->
         LET expected == Constant(s, p.val)
             equal    == Define(expected, "Equal", <<value, expected.r>>, Nil, "")
         IN FailIfFalse(equal, equal.r)
    [] p.k = "variantOf" ->
         LET tag == Define(s, "VariantTag", <<value>>, Nil, p.name)
         IN PatternFields("VariantField", p.kids, 1, value, FailIfFalse(tag, tag.r))
    [] p.k = "record"   -> PatternFields("Field", p.kids, 1, value, s)
    [] p.k = "anyOf" ->
         LET alts == Alternatives(p.kids, 1, value, [s EXCEPT !.binds = <<>>])
         IN [alts EXCEPT !.binds = s.binds \o @]

StoreBinding(s, bind) == Effect(s, "StoreVar", <<bind[2]>>, bind[1])

(* The arms of a match (pattern, optional guard, body): a body of a match  *)
(* statement is a statement, and the one of a match expression is copied   *)
(* to the result register (NoReg for a statement).                         *)
MatchArms(arms, value, result, ends, s) ==
  IF arms = <<>> THEN Patch(s, ends)
  ELSE LET arm     == Head(arms)
           matched == Pattern(arm.kids[1], value, [s EXCEPT !.fails = {}, !.binds = <<>>])
           stored  == FoldLeft(StoreBinding, matched, matched.binds)
           guarded == IF arm.kids[2] = Absent THEN stored
                      ELSE LET g == Expression(arm.kids[2], stored)
                           IN FailIfFalse([g EXCEPT !.fails = stored.fails], g.r)
           body    == IF result = NoReg THEN Statement(arm.kids[3], guarded)
                      ELSE LET e == Expression(arm.kids[3], guarded) IN CopyTo(e, result, e.r)
           ended   == ForwardJump(body, "Jump", <<>>)
       IN MatchArms(Tail(arms), value, result, ends \cup {Here(body)},
                    Patch(ended, guarded.fails))

(***************************************************************************)
(* Functions.  The body is lowered into a stream of its own, closed by a   *)
(* return of nil, and becomes the next entry of the function table.        *)
(***************************************************************************)
FunctionBody(kids, s) ==
  LET nil  == Constant(Statements(kids, [s EXCEPT !.code = <<>>, !.next = 1, !.loops = <<>>]), Nil)
      body == Effect(nil, "Return", <<nil.r>>, "")
      made == [body EXCEPT !.code = s.code, !.next = s.next, !.loops = s.loops,
                           !.funs = Append(@, body.code)]
  IN Define(made, "MakeFunction", <<>>, Val("fun", Len(made.funs)), "")

(***************************************************************************)
(* Expressions.                                                            *)
(***************************************************************************)
Expressions(es, s) ==
  IF es = <<>> THEN [s EXCEPT !.rs = <<>>]
  ELSE LET first == Expression(Head(es), s)
           rest  == Expressions(Tail(es), first)
       IN [rest EXCEPT !.rs = <<first.r>> \o @]

Operation(s, e, op) ==
  LET args == Expressions(e.kids, s) IN Define(args, op, args.rs, e.val, e.name)

(* emitLogical: the left value is copied, and the right one overwrites the *)
(* copy unless the copy decides.                                           *)
Logical(s, e, decided) ==
  LET left   == Expression(e.kids[1], s)
      result == Define(left, "Copy", <<left.r>>, Nil, "")
      jump   == ForwardJump(result, decided, <<result.r>>)
      right  == Expression(e.kids[2], jump)
  IN [Patch(CopyTo(right, result.r, right.r), {Here(result)}) EXCEPT !.r = result.r]

(* Compound assignments: check the old value, evaluate, check, add.  The   *)
(* target is a variable, or a place inside a value: its collection and     *)
(* index, or its object, are evaluated once, before the old value is read. *)
CompoundResult(s, value) ==
  LET checked == Define(s, "AssertNumber", <<s.r>>, Nil, "")
      operand == Expression(value, checked)
      number  == Define(operand, "AssertNumber", <<operand.r>>, Nil, "")
  IN Define(number, "Add", <<checked.r, number.r>>, Nil, "")

CompoundAssign(s, e) ==
  LET sum == CompoundResult(LoadVar(s, e.name), e.kids[1])
  IN Effect(sum, "AssignVar", <<sum.r>>, e.name)

CompoundInside(s, e, read, write) ==
  LET place == Expressions(Front(e.kids), s)
      sum   == CompoundResult(Define(place, read, place.rs, e.val, e.name), Last(e.kids))
  IN [Define(sum, write, Append(place.rs, sum.r), Nil, e.name) EXCEPT !.r = sum.r]

(* A method is a variable, loaded before its receiver is evaluated.        *)
MemberCall(s, e) ==
  LET callee == LoadVar(s, e.name)
      args   == Expressions(e.kids, callee)
  IN Define(args, "Call", <<callee.r>> \o args.rs, Nil, "")

MatchExpression(s, e) ==
  LET value  == Expression(e.kids[1], s)
      result == MakeRegister(value)
      arms   == MatchArms(Tail(e.kids), value.r, result.r, {}, result)
  IN [arms EXCEPT !.r = result.r]

Expression(e, s) ==
  CASE e.k = "literal"   -> Constant(s, e.val)
    [] e.k = "variable"  -> LoadVar(s, e.name)
    [] e.k = "assign"    -> LET v == Expression(e.kids[1], s) IN Effect(v, "AssignVar", <<v.r>>, e.name)
    [] e.k = "compound"  -> CompoundAssign(s, e)
    [] e.k = "and"       -> Logical(s, e, "JumpIfFalse")
    [] e.k = "or"        -> Logical(s, e, "JumpIfTrue")
    [] e.k = "match"     -> MatchExpression(s, e)
    [] e.k = "function"  -> FunctionBody(e.kids, s)
    [] e.k = "memberCall"    -> MemberCall(s, e)
    [] e.k = "indexCompound" -> CompoundInside(s, e, "Index", "AssignIndex")
    [] e.k = "fieldCompound" -> CompoundInside(s, e, "Field", "AssignField")
    [] e.k \in {"Not", "Negate", "Add", "Less", "Equal", "Call", "NativeCall", "Array", "Map",
                "Struct", "Variant", "Index", "AssignIndex", "Field", "AssignField", "Len"} ->
         Operation(s, e, e.k)

(***************************************************************************)
(* Statements.                                                             *)
(***************************************************************************)
Statements(ss, s) == IF ss = <<>> THEN s ELSE Statements(Tail(ss), Statement(Head(ss), s))

If(s, c) ==
  LET cond == Expression(c.kids[1], s)
      then == Statement(c.kids[2], ForwardJump(cond, "JumpIfFalse", <<cond.r>>))
  IN IF c.kids[3] = Absent THEN Patch(then, {Here(cond)})
     ELSE LET over == ForwardJump(then, "Jump", <<>>)
          IN Patch(Statement(c.kids[3], Patch(over, {Here(cond)})), {Here(then)})

While(s, c) ==
  LET cond == Expression(c.kids[1], s)
      exit == ForwardJump(cond, "JumpIfFalse", <<cond.r>>)
      body == Statement(c.kids[2], EnterLoop(exit, Here(s)))
  IN LeaveLoop(Patch(JumpTo(body, Here(s)), {Here(cond)} \cup Breaks(body)))

(* The loop of a for statement: the jump over the increment, the           *)
(* increment, the jump back, the body and the jump to the increment.  The  *)
(* state s is in front of that first jump, stepped behind the increment.   *)
OverIncrement(s) == ForwardJump(s, "Jump", <<>>)

CountedLoop(s, stepped, start, exits, body) ==
  LET back    == JumpTo(stepped, start)
      lowered == Statement(body, EnterLoop(Patch(back, {Here(s)}), Here(s) + 1))
  IN LeaveLoop(Patch(JumpTo(lowered, Here(s) + 1), exits \cup Breaks(lowered)))

For(s, c) ==
  LET init == IF c.kids[1] = Absent THEN s ELSE Statement(c.kids[1], s)
      cond == Expression(c.kids[2], init)
      test == IF c.kids[2] = Absent THEN init ELSE ForwardJump(cond, "JumpIfFalse", <<cond.r>>)
      over == OverIncrement(test)
      stepped == IF c.kids[3] = Absent THEN over ELSE Expression(c.kids[3], over)
  IN CountedLoop(test, stepped, Here(init), IF c.kids[2] = Absent THEN {} ELSE {Here(cond)},
                 c.kids[4])

Bump(s, name) ==
  LET old == LoadVar(s, name)
      one == Constant(old, Num(1))
      sum == Define(one, "Add", <<old.r, one.r>>, Nil, "")
  IN Effect(sum, "AssignVar", <<sum.r>>, name)

Store(s, name) == Effect(s, "StoreVar", <<s.r>>, name)

(* compileForIn: the iterable, its length and the index live in synthetic  *)
(* variables, named apart by nextSyntheticName_.                           *)
ForIn(s, c) ==
  LET it    == <<"for_in_iter", "for_in_iter'">>[s.names + 1]
      ix    == <<"for_in_index", "for_in_index'">>[s.names + 1]
      ln    == <<"for_in_len", "for_in_len'">>[s.names + 1]
      value == Expression(c.kids[1], [s EXCEPT !.names = @ + 1])
      array == Store(Define(value, "AssertArray", <<value.r>>, Nil, ""), it)
      item0 == Store(Constant(Store(Constant(array, Num(0)), ix), Nil), c.name)
      seen  == LoadVar(item0, it)
      count == Store(Define(seen, "Len", <<seen.r>>, Nil, ""), ln)
      index == LoadVar(count, ix)
      limit == LoadVar(index, ln)
      cond  == Define(limit, "Less", <<index.r, limit.r>>, Nil, "")
      from  == LoadVar(ForwardJump(cond, "JumpIfFalse", <<cond.r>>), it)
      at    == LoadVar(from, ix)
      item  == Define(at, "Index", <<from.r, at.r>>, Nil, "")
      bound == Effect(item, "AssignVar", <<item.r>>, c.name)
  IN CountedLoop(bound, Bump(OverIncrement(bound), ix), Here(count), {Here(cond)}, c.kids[2])

FunctionStatement(s, c) ==
  LET placed == Store(Constant(s, Nil), c.name)
      made   == FunctionBody(c.kids, placed)
  IN Effect(made, "AssignVar", <<made.r>>, c.name)

(* An import: a dependency marker at this offset when modules are lowered  *)
(* one by one, the module's own statements, once, when all are.            *)
Import(s, c) ==
  IF s.independent
  THEN [s EXCEPT !.deps = Append(@, [module |-> c.name, at |-> Here(s)])]
  ELSE IF c.name \in s.done THEN s
  ELSE Statements(s.modules[c.name], [s EXCEPT !.done = @ \cup {c.name}])

Statement(c, s) ==
  CASE c.k = "block"      -> Statements(c.kids, s)
    [] c.k = "let"        -> Store(Expression(c.kids[1], s), c.name)
    [] c.k = "print"      -> LET v == Expression(c.kids[1], s) IN Effect(v, "Print", <<v.r>>, "")
    [] c.k = "expression" -> Expression(c.kids[1], s)
    [] c.k = "if"         -> If(s, c)
    [] c.k = "while"      -> While(s, c)
    [] c.k = "for"        -> For(s, c)
    [] c.k = "forIn"      -> ForIn(s, c)
    [] c.k = "matchDo"    -> LET v == Expression(c.kids[1], s)
                             IN MatchArms(Tail(c.kids), v.r, NoReg, {}, v)
    [] c.k = "break"      -> [ForwardJump(s, "Jump", <<>>) EXCEPT
                                !.loops[Len(s.loops)].breaks = @ \cup {Here(s)}]
    [] c.k = "continue"   -> JumpTo(s, Last(s.loops).continueAt)
    [] c.k = "return"     -> LET v == IF c.kids = <<>> THEN Constant(s, Nil)
                                      ELSE Expression(c.kids[1], s)
                             IN Effect(v, "Return", <<v.r>>, "")
    [] c.k = "fun"        -> FunctionStatement(s, c)
    [] c.k = "import"     -> Import(s, c)

(***************************************************************************)
(* The products.  LowerModule lowers one module on its own, LowerProgram   *)
(* an entry module with its imports in place; both give a main stream and  *)
(* the function table.                                                     *)
(***************************************************************************)
Product(s) == [main |-> s.code, deps |-> s.deps, funs |-> s.funs]

LowerModule(modules, m) == Product(Statements(modules[m], Fresh(modules, TRUE)))

LowerProgram(modules, entry) ==
  Product(Statements(modules[entry], [Fresh(modules, FALSE) EXCEPT !.done = {entry}]))
=============================================================================
