-------------------------- MODULE MCCompilePipeline --------------------------
(* Root module for TLC: small programs, built from conditions and the      *)
(* statements that test them.                                              *)
EXTENDS CompilePipeline

N(k, kids)     == Node(k, "", Nil, kids)
Named(k, x, kids) == Node(k, x, Nil, kids)
Lit(v)  == Node("literal", "", v, <<>>)
Ref(x)  == Node("variable", x, Nil, <<>>)
Say(n) == N("print", <<Lit(Num(n))>>)
Block(ss) == N("block", ss)
IfElse(c, s, t) == N("if", <<c, s, t>>)
Let(x, e) == Named("let", x, <<e>>)

a == Ref("a")
b == Ref("b")
n == Ref("n")
T == Lit(Bool(TRUE))
F == Lit(Bool(FALSE))

and(l, r) == N("and", <<l, r>>)
or(l, r)  == N("or", <<l, r>>)
one == Lit(Num(1))

(* Among the conditions, some have a constant on one side of a join only.  *)
Conditions ==
  {a, T, F, N("Not", <<a>>), N("Not", <<F>>), and(a, b), or(a, and(b, a)), or(T, a), and(a, T), or(a, F),
   N("Equal", <<one, one>>), N("Less", <<n, one>>), N("Add", <<one, T>>)}

Arm(p, body) == N("arm", <<p, Absent, body>>)
Const(k) == Node("constant", "", Num(k), <<>>)
Wild     == N("wildcard", <<>>)
Bind(x)  == Named("bind", x, <<>>)
Tagged(t, kids) == Named("variantOf", t, kids)
Either(p, q) == N("anyOf", <<p, q>>)

Classify(x) == N("match", <<x, Arm(Const(0), Lit(Num(10))), Arm(Wild, Lit(Num(20)))>>)
Increment(x) == Named("compound", x, <<one>>)
Brk  == N("break", <<>>)
Cont == N("continue", <<>>)
Ret(e) == N("return", <<e>>)
Imp(m) == Named("import", m, <<>>)
Show(e) == N("print", <<e>>)
Call(e) == N("expression", <<Named("Call", "", <<Ref("f"), e>>)>>)

(* Bodies of loops.  Loops that neither test nor break run until they are  *)
(* cut off.                                                                *)
Bodies(c) ==
  {Say(1), IfElse(c, Brk, Say(1)), Block(<<IfElse(c, Cont, Absent), Say(1)>>),
   Block(<<Show(n), IfElse(c, Brk, Cont)>>),
   Block(<<IfElse(N("Less", <<one, n>>), Ret(n), Absent), IfElse(c, Say(1), Call(c))>>)}

Loops(c, body) ==
  {N("while", <<c, body>>), N("while", <<T, body>>),
   N("for", <<Let("i", Lit(Num(0))), N("Less", <<Ref("i"), Lit(Num(2))>>), Increment("i"), body>>),
   N("for", <<Absent, Absent, Increment("n"), body>>), N("for", <<Absent, c, Absent, body>>),
   Named("forIn", "e", <<N("Array", <<T, F>>), body>>)}

Branches2(c) ==
  LET sides == {Say(1), Block(<<>>), Ret(one), Let("x", c)}
  IN {IfElse(c, s, t) : s \in sides, t \in sides \cup {Absent}}
       \cup {IfElse(c, IfElse(b, Say(1), s), t) : s \in sides, t \in {Absent, Say(2)}}

Matches(c) ==
  {N("matchDo", <<n, N("arm", <<Const(0), c, Say(1)>>), Arm(Either(Const(1), Const(2)), Say(2)),
                  Arm(Bind("m"), Show(Ref("m")))>>),
   Let("x", N("match", <<n, N("arm", <<Bind("m"), c, Lit(Num(10))>>), Arm(Wild, Classify(n))>>)),
   Show(N("match", <<Named("Variant", "A", <<n>>),
                     N("arm", <<Either(Tagged("B", <<Bind("y")>>), Tagged("A", <<Bind("y")>>)), c, Ref("y")>>),
                     Arm(Wild, Lit(Num(3)))>>)),
   Show(N("match", <<n, Arm(Const(0), c), Arm(Wild, one), Arm(Const(2), c)>>)),
   Show(N("match", <<n, Arm(Const(0), c)>>)),
   Show(N("match", <<N("Struct", <<one, c>>), N("arm", <<N("record", <<Const(1), Bind("y")>>), c, Ref("y")>>),
                     Arm(Wild, one)>>)),
   Show(N("match", <<Named("Variant", "A", <<n>>), Arm(Tagged("A", <<Bind("y")>>), Ref("y"))>>))}

(* Places inside values, and calls, whose operands branch.                 *)
Places(c) ==
  {Show(Node("indexCompound", "", Nil, <<N("Array", <<one, c>>), one, c>>)),
   Show(Node("fieldCompound", "x", Num(7), <<N("Struct", <<one, c>>), N("match", <<n, Arm(Wild, one)>>)>>)),
   Show(N("AssignIndex", <<N("Array", <<c>>), Lit(Num(0)), c>>)),
   Show(Named("memberCall", "f", <<c, N("Map", <<one, c>>), Named("NativeCall", "abs", <<c>>)>>)),
   Let("g", N("function", <<IfElse(c, Ret(one), Ret(N("Negate", <<n>>)))>>))}

Statements1 ==
  UNION {UNION {Loops(c, body) : body \in Bodies(c)} \cup Branches2(c) \cup Matches(c) \cup Places(c) \cup {Show(c)}
         : c \in Conditions}

(* A function with the statement alone, after another, and before another. *)
AsFunction(s) == <<Named("fun", "f", <<s, Ret(n)>>)>>

(* A module whose imports stand around a statement.                        *)
Imports ==
  {<<Imp("d"), IfElse(c, Say(1), Block(<<>>)), Imp("e"), Imp("g"), Show(c)>> : c \in Conditions}
    \cup {<<N("while", <<c, Brk>>), Imp("d"), N("while", <<c, IfElse(a, Brk, Say(1))>>)>> : c \in Conditions}
    \cup {<<Imp("d"), N("for", <<Absent, Absent, Increment("n"),
                                 IfElse(N("Less", <<one, n>>), Brk, Say(1))>>), Say(2)>>}

Nested ==
  {<<IfElse(c, Named("fun", "g", <<IfElse(c, Ret(one), Absent)>>), Absent), Show(c)>> : c \in Conditions}

(* A whole program: one module imported twice, one that imports another.   *)
Whole ==
  {[modules |-> ("m" :> <<Imp("d"), IfElse(c, Say(1), Absent), Imp("e"), Show(c)>>)
                  @@ ("d" :> <<Say(2), Imp("e"), Let("x", c)>>) @@ ("e" :> <<IfElse(c, Say(3), Say(4))>>),
    entry |-> "m", alone |-> FALSE] : c \in Conditions}

(* The copies of an edge, made one after the other, put in every           *)
(* destination what its source held before the first of them               *)
(* (lowerParallelCopies): every set of at most four moves among five       *)
(* values, with distinct destinations.                                     *)
MoveLists == UNION {{[k \in 1..l |-> Move(k, from[k])] : from \in [1..l -> 1..5]} : l \in 0..4}

After(held, moves) == FoldLeft(LAMBDA h, m : [h EXCEPT ![m.to] = h[m.from]], held, moves)

ASSUME CopiesAreParallel ==
  \A moves \in MoveLists :
     LET before == [v \in 1..8 |-> v]
         after  == After(before, ParallelCopies(moves, 6).ordered)
     IN /\ \A k \in DOMAIN moves : after[moves[k].to] = before[moves[k].from]
        /\ \A v \in 1..5 : v \notin {moves[k].to : k \in DOMAIN moves} => after[v] = before[v]

Alone(ss) == [modules |-> [m \in {"m"} |-> ss], entry |-> "m", alone |-> TRUE]

MCPrograms ==
  LET sources == Whole \cup {Alone(ss) : ss \in {AsFunction(s) : s \in Statements1} \cup Imports \cup Nested}
  IN {Lowered(p) : p \in sources}

MCInputs == {[f |-> Val("fun", 1), a |-> Bool(x), b |-> Bool(y), n |-> Num(k)] : x \in BOOLEAN, y \in BOOLEAN, k \in {0, 2}}
MCAnswer == Bool(TRUE)
=============================================================================
