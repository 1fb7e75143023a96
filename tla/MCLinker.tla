------------------------------- MODULE MCLinker -------------------------------
(* Root module for TLC: graphs of up to four modules, and sets of products *)
(* that cannot be linked.                                                  *)
EXTENDS LinkedProgram

N(k, kids) == Node(k, "", Nil, kids)
NodeOf(k, x, kids) == Node(k, x, Nil, kids)
Lit(v) == Node("literal", "", v, <<>>)
Ref(x) == NodeOf("variable", x, <<>>)
Say(e) == N("print", <<e>>)
Let(x, e) == NodeOf("let", x, <<e>>)
Imp(m) == NodeOf("import", m, <<>>)
Fun(x, k) == NodeOf("fun", x, <<Say(Lit(Num(k))), N("return", <<Ref("n")>>)>>)
Guarded(s) == N("if", <<Ref("a"), s, Node("absent", "", Nil, <<>>)>>)
Loop == N("while", <<N("Less", <<Ref("n"), Lit(Num(2))>>),
                     N("expression", <<NodeOf("compound", "n", <<Lit(Num(1))>>)>>)>>)

(* The modules: "c" is imported by others, "d" and "e" between.  No two    *)
(* functions have the same body.                                           *)
Leaf == {<<Say(Lit(Num(1))), Fun("g", 5), Let("x", Lit(Num(2)))>>, <<Imp("m")>>}
Middle ==
  {<<Imp("c"), Say(Ref("x")), Fun("f", 7), Say(Ref("f"))>>,
   <<Say(Lit(Num(3))), Guarded(Say(Lit(Num(4)))), Imp("c")>>,
   <<Loop, Let("y", Lit(Num(6))), Imp("c"), Imp("e"), Say(Lit(Num(8)))>>}
Side == {<<Imp("c"), Guarded(Let("z", Ref("x"))), Say(Lit(Num(9)))>>, <<Fun("h", 6)>>, <<Imp("d")>>}
Main ==
  {<<Imp("d"), Say(Ref("n")), Imp("e"), Guarded(Say(Lit(Num(4)))), Say(Lit(Num(3)))>>,
   <<Loop, Say(Lit(Num(1))), Imp("e"), Imp("d"), Imp("d"), Fun("k", 3), Say(Ref("k"))>>}

Graphs1 ==
  {("m" :> m) @@ ("d" :> d) @@ ("e" :> e) @@ ("c" :> c) : m \in Main, d \in Middle, e \in Side, c \in Leaf}

EntryLists == {<<"m">>, <<"e", "m">>, <<"c", "m">>, <<"d">>}

OrderIn(ids, id) == Max({NotEntry} \cup {k \in DOMAIN ids : ids[k] = id})

ProductsOf(g, ids) ==
  LET names == <<"m", "d", "e", "c">>
  IN [k \in 1..4 |-> ModuleProduct(names[k], OrderIn(ids, names[k]), LowerModule(g, names[k]))]

Faithful ==
  {[whole |-> Together(g, ids), products |-> ProductsOf(g, ids)] : g \in Graphs1, ids \in EntryLists}

(* Products that are damaged, or are not a set that can be linked.         *)
Damaged(some) ==
  LET ps == some.products
      With(damaged) == [some EXCEPT !.products = damaged]
  IN
  {With(<<>>), With(Append(ps, ps[3])), With(SubSeq(ps, 1, 3)), With(Tail(ps)),
   With([ps EXCEPT ![1].order = NotEntry, ![3].order = NotEntry]),
   With([ps EXCEPT ![1].order = 3]), With([ps EXCEPT ![2].order = 1]),
   With([ps EXCEPT ![1].deps = Reverse(@)]), With([ps EXCEPT ![1].deps[1].at = 99]),
   With([ps EXCEPT ![2].main.code[1].const = 99]), With([ps EXCEPT ![2].main.code[1].args = <<99>>]),
   With([ps EXCEPT ![2].main.code[1].name = 99]), With([ps EXCEPT ![1].funs[1].code[1].dest = 99]),
   With([ps EXCEPT ![2].main.code[1].fun = 99]), With([ps EXCEPT ![4].main.regs = MaxIndex - 1]),
   With([ps EXCEPT ![2].main.code[4].at = 99])}

MCLinks ==
  LET faithful == Faithful
      some == CHOOSE f \in faithful : /\ f.products[3].order = 1 /\ f.products[1].order = 2
                                      /\ f.products[4].deps = <<>> /\ Len(f.products[2].deps) = 2
                                      /\ f.products[1].funs # <<>>
  IN faithful \cup Damaged(some)

MCInputs == {[a |-> Bool(x), n |-> Num(k)] : x \in BOOLEAN, k \in {0, 2}}
MCAnswer == Nil
=============================================================================
