----------------------------- MODULE Execution ------------------------------
(***************************************************************************)
(* What an instruction stream does when it runs: the dispatch loop of      *)
(* src/vm-rs/src/vm.rs over one frame, as far as the operations of Lowering *)
(* go.                                                                     *)
(*                                                                         *)
(* A run is given the variables it starts with and the value every call    *)
(* answers, and yields the sequence of what it makes happen, with the      *)
(* reads and writes of variables among it; a trap and a return end it.     *)
(* Registers hold nil until they are written.  An import that was left as  *)
(* a dependency happens the first time control arrives at its offset.  An  *)
(* array, a map or a struct is its size: the elements of an array are      *)
(* their indices, and a variant's or a struct's field is the value that    *)
(* the instruction carries for it.  A run is cut off after MaxSteps        *)
(* instructions.                                                           *)
(***************************************************************************)
EXTENDS ControlFlow, TLC

CONSTANT MaxSteps
ASSUME MaxStepsAssumption == MaxSteps \in Nat \ {0}

Machine(vars, answer) ==
  [pc |-> 1, regs |-> <<>>, vars |-> vars, answer |-> answer, seen |-> {}, out |-> <<>>,
   ended |-> FALSE]

Happening(what, name, args) == [what |-> what, name |-> name, args |-> args]

Register(m, r) == IF r \in DOMAIN m.regs THEN m.regs[r] ELSE Nil
Note(m, what, name, args) == [m EXCEPT !.out = Append(@, Happening(what, name, args))]
Trap(m, i) == [Note(m, "trap", i.op, <<>>) EXCEPT !.ended = TRUE]
Advance(m) == [m EXCEPT !.pc = @ + 1]
Result(m, i, v) == [Advance(m) EXCEPT !.regs = (i.dest :> v) @@ @]

(* The operations on values, and what each demands of its operands.        *)
AreNumbers(vs) == \A k \in DOMAIN vs : vs[k].t = "num"
Demands(i, vs) ==
  CASE i.op \in {"Add", "Less", "Negate", "AssertNumber"} -> AreNumbers(vs)
    [] i.op \in {"AssertArray", "Len"} -> vs[1].t = "array"
    [] i.op \in {"Index", "AssignIndex"} ->
         vs[1].t = "array" /\ vs[2].t = "num" /\ vs[2].n \in 0..vs[1].n - 1
    [] i.op \in {"Field", "AssignField"} -> vs[1].t = "struct"
    [] i.op = "Call"     -> vs[1].t = "fun"
    [] OTHER -> TRUE

Computed(i, vs) ==
  CASE i.op = "Constant"     -> i.val
    [] i.op \in {"Copy", "AssertNumber", "AssertArray"} -> vs[1]
    [] i.op = "Not"          -> Bool(~ IsTruthy(vs[1]))
    [] i.op = "Negate"       -> Num(- vs[1].n)
    [] i.op = "Add"          -> Num(vs[1].n + vs[2].n)
    [] i.op = "Less"         -> Bool(vs[1].n < vs[2].n)
    [] i.op = "Equal"        -> Bool(vs[1] = vs[2])
    [] i.op = "Array"        -> Val("array", Len(vs))
    [] i.op = "Map"          -> Val("map", Len(vs) \div 2)
    [] i.op = "Struct"       -> Val("struct", Len(vs))
    [] i.op = "Len"          -> Num(vs[1].n)
    [] i.op = "Index"        -> vs[2]
    [] i.op = "Variant"      -> Val(i.name, 0)
    [] i.op = "VariantTag"   -> Bool(vs[1].t = i.name)
    [] i.op \in {"VariantField", "Field", "MakeFunction"} -> i.val

Effects ==
  {"Print", "StoreVar", "AssignVar", "LoadVar", "Call", "NativeCall", "Return", "AssignIndex",
   "AssignField"}

Perform(m, i, vs) ==
  CASE i.op \in {"LoadVar", "AssignVar"} /\ i.name \notin DOMAIN m.vars -> Trap(m, i)
    [] i.op = "LoadVar" /\ i.name \in DOMAIN m.vars ->
         Result(Note(m, i.op, i.name, <<>>), i, m.vars[i.name])
    [] i.op = "StoreVar" \/ (i.op = "AssignVar" /\ i.name \in DOMAIN m.vars) ->
         Advance([Note(m, i.op, i.name, vs) EXCEPT !.vars = (i.name :> vs[1]) @@ @])
    [] i.op = "Print"   -> Advance(Note(m, i.op, "", vs))
    [] i.op \in {"AssignIndex", "AssignField"} -> Result(Note(m, i.op, i.name, vs), i, Last(vs))
    [] i.op \in {"Call", "NativeCall"} -> Result(Note(m, i.op, i.name, vs), i, m.answer)
    [] i.op = "Return"  -> [Note(m, i.op, "", vs) EXCEPT !.ended = TRUE]

Jumps(i, vs) ==
  CASE i.op = "Jump"        -> TRUE
    [] i.op = "JumpIfFalse" -> ~ IsTruthy(vs[1])
    [] i.op = "JumpIfTrue"  -> IsTruthy(vs[1])

(* One instruction.                                                        *)
Step(m, i) ==
  LET vs == [k \in DOMAIN i.args |-> Register(m, i.args[k])]
  IN CASE IsJump(i.op)       -> IF Jumps(i, vs) THEN [m EXCEPT !.pc = i.at] ELSE Advance(m)
       [] ~ IsJump(i.op) /\ ~ Demands(i, vs) -> Trap(m, i)
       [] ~ IsJump(i.op) /\ Demands(i, vs) ->
            IF i.op \in Effects THEN Perform(m, i, vs) ELSE Result(m, i, Computed(i, vs))

(* The dependencies at the current offset, in their order.                 *)
Arrive(m, deps) ==
  FoldLeft(LAMBDA x, k : IF deps[k].at = x.pc /\ k \notin x.seen
                         THEN [Note(x, "import", deps[k].module, <<>>) EXCEPT !.seen = @ \cup {k}]
                         ELSE x,
           m, [k \in DOMAIN deps |-> k])

RECURSIVE RunOn(_, _, _, _)
RunOn(m, code, deps, fuel) ==
  LET at == Arrive(m, deps)
  IN CASE m.ended \/ fuel = 0 -> m
       [] ~ m.ended /\ fuel > 0 /\ m.pc > Len(code) -> [at EXCEPT !.ended = TRUE]
       [] OTHER -> RunOn(Step(at, code[m.pc]), code, deps, fuel - 1)

(* What a stream makes happen, and whether that is all.                    *)
Meaning(stream, vars, answer) ==
  LET m == RunOn(Machine(vars, answer), stream.code, stream.deps, MaxSteps)
  IN [out |-> m.out, ended |-> m.ended]

(* Two streams mean the same unless a difference shows before one of the   *)
(* runs is cut off.                                                        *)
SameMeaning(a, b) ==
  /\ a.ended /\ b.ended => a.out = b.out
  /\ ~ a.ended => IsPrefix(a.out, b.out) \/ (~ b.ended /\ IsPrefix(b.out, a.out))
  /\ ~ b.ended => IsPrefix(b.out, a.out) \/ (~ a.ended /\ IsPrefix(a.out, b.out))
=============================================================================
