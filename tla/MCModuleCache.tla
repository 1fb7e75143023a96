--------------------------- MODULE MCModuleCache ---------------------------
(* A leaf 1, a library 2 that imports it and a program 3 that imports both. *)
EXTENDS ModuleCache

MCN == 3
MCImports == <<{}, {1}, {1, 2}>>
Pub(name) == [base |-> name, public |-> TRUE]
Priv(name) == [base |-> name, public |-> FALSE]

\* The leaf has a private edit, which moves its public name's number, and a
\* public one; the library gains a private declaration after its public one.
MCDeclares ==
    << << <<Pub("k")>>, <<Priv("p"), Pub("k")>>, <<Pub("j"), Priv("q")>> >>,
       << <<Pub("f")>>, <<Pub("f"), Priv("p")>> >>,
       << <<Priv("p")>> >> >>
MCEntries == {2, 3}
=============================================================================
