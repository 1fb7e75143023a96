------------------------------ MODULE MCWorkspace ------------------------------
(* Root module for TLC: the files "a" and "b" can be opened, "b" and "c"   *)
(* may be on disk, and "u" is an untitled document.                        *)
EXTENDS Workspace

MCFiles == {"a", "b", "c"}
MCDocumentOrder == <<"a", "b", "u">>

Stmt(k, n, f) == [kind |-> k, name |-> n, file |-> f]
Let(n) == Stmt("let", n, "none")
Use(n) == Stmt("use", n, "none")
Imp(f) == Stmt("import", "", f)
Exp(n) == Stmt("export", n, "none")
Fwd(n, f) == Stmt("reexport", n, f)
Text(body) == [parses |-> TRUE, body |-> body]
Torn == [parses |-> FALSE, body |-> <<>>]

Closed(b) == {Text(x) : x \in b}

(* What the documents may hold: statements of their own, right and wrong,  *)
(* users of other files, files that provide, and files that forward.       *)
MCTexts ==
  "a" :> {Torn} \cup Closed({
    <<Let("x"), Use("x"), Exp("x"), Exp("x")>>, <<Let("x"), Exp("x")>>, <<Use("x"), Let("y")>>,
    <<Imp("b"), Use("x"), Let("y"), Use("y")>>, <<Imp("b"), Imp("b"), Exp("x")>>,
    <<Imp("b"), Imp("c"), Use("x"), Use("y")>>, <<Fwd("x", "b"), Fwd("y", "c")>>,
    <<Imp("c"), Let("x")>>, <<Imp("b"), Use("x")>>, <<Let("x"), Imp("b"), Use("x")>>, <<Fwd("x", "b"), Let("x"), Exp("x")>>})
  @@ "b" :> {Torn} \cup Closed({
    <<Use("x"), Let("y")>>, <<Let("x"), Exp("x")>>, <<Let("y"), Exp("y"), Imp("c"), Use("x")>>,
    <<Imp("a"), Use("x")>>, <<Fwd("x", "c"), Let("y"), Exp("y")>>, <<Fwd("x", "a"), Use("x")>>,
    <<Imp("a"), Let("y"), Use("y"), Exp("x")>>, <<Imp("c"), Imp("a"), Use("x"), Exp("x")>>})
  @@ "u" :> Closed({<<Use("x")>>, <<Let("x"), Use("x")>>, <<Imp("b")>>})

(* Nothing, one file or both; a chain of two forwarding files and a cycle  *)
(* of closed files among them.                                             *)
Provider == Text(<<Let("x"), Exp("x")>>)
Forwarder == Text(<<Fwd("x", "c"), Let("y"), Exp("y")>>)
Back == Text(<<Let("y"), Exp("y"), Fwd("x", "b")>>)
User == Text(<<Imp("c"), Use("y")>>)

MCDisks ==
  {<<>>, "b" :> Forwarder} \cup {"c" :> c : c \in {Provider, Back, Torn}}
    \cup {("b" :> b) @@ ("c" :> c) : b \in {Forwarder, User, Provider}, c \in {Provider, Back, Torn}}
===============================================================================
