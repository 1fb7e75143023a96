------------------------------- MODULE Workspace -------------------------------
(***************************************************************************)
(* The documents an editor has open and what the language server says of   *)
(* them: src/src/LanguageServer.cpp, with the loading of open and closed   *)
(* files by src/src/FrontendSession.cpp and the checking of their modules  *)
(* by src/src/TypeChecker.cpp.                                             *)
(*                                                                         *)
(* A text is a sequence of statements about names, or one that does not    *)
(* parse:                                                                  *)
(*   let n            declares n                                           *)
(*   use n            is an expression that refers to n                    *)
(*   import f         brings in what the file f exports                    *)
(*   export n         exports the module's own n                           *)
(*   reexport n, f    exports the n that f exports                         *)
(* Types, structures, enumerations and namespace aliases are left out.     *)
(***************************************************************************)
EXTENDS Integers, SequencesExt, Relation

CONSTANTS
  Files,          \* the files of the workspace
  Untitled,       \* documents that are no file (another URI scheme)
  DocumentOrder,  \* the documents that can be opened, in the order of their URIs
  Texts,          \* what each document may hold
  Disks,          \* the files on disk, with their texts
  Names,          \* the names the texts are about
  NoFile,         \* no place for a definition
  MaxEdits        \* bound on the open and change messages

Documents == ToSet(DocumentOrder)

ASSUME DocumentAssumption ==
  /\ Documents \subseteq Files \cup Untitled
  /\ Untitled \cap Files = {}
  /\ NoFile \notin Files \cup Untitled
  /\ MaxEdits \in Nat

VARIABLES
  disk,       \* the closed files that can be imported
  documents,  \* the open documents with their texts: documents_
  analysis,   \* the analysis of each open document
  published,  \* what the editor was last told of each document
  edits       \* open and change messages so far

vars == <<disk, documents, analysis, published, edits>>

Open == DOMAIN documents

(***************************************************************************)
(* Loading.  A load L has the units read completely, in that order, the    *)
(* files being read, and after a failure why it failed and the file the    *)
(* diagnostic is attached to.                                              *)
(***************************************************************************)
Loads(s) == s.kind \in {"import", "reexport"}

SourcesOf(text) == LET loading == SelectSeq(text.body, Loads) IN [k \in DOMAIN loading |-> loading[k].file]

(* The text of a file: an open document stands before the disk.            *)
TextFor(open, f) == IF f \in DOMAIN open THEN open[f] ELSE disk[f]

Available(open) == DOMAIN open \cup DOMAIN disk

StartLoad == [units |-> <<>>, stack |-> <<>>, why |-> "", blamed |-> {}]

(* Seeded fault: the report stays with the file that asked, open or not.   *)
AttributedWhereFound(open, L, f) ==
  IF L.why \in {"cycle", "missing"} /\ L.blamed = {} THEN {f} ELSE L.blamed

(* An import that cannot be followed is reported at the file that asked    *)
(* for it; while the reader unwinds, a closed file passes the report on to *)
(* the first open one.                                                     *)
Attributed(open, L, f) ==
  IF L.why \in {"cycle", "missing"}
     /\ (L.blamed = {} \/ (f \in DOMAIN open /\ L.blamed \cap DOMAIN open = {}))
  THEN {f}
  ELSE L.blamed

(* The end of reading f, reached or thrown out of: the stack is unwound.   *)
LeaveFile(open, L, f) ==
  [L EXCEPT !.stack = Front(@),
            !.units = IF L.why = "" THEN Append(@, f) ELSE @,
            !.blamed = Attributed(open, L, f)]

RECURSIVE LoadFile(_, _, _)

ReadFile(open, L, f) ==
  LET entered == [L EXCEPT !.stack = Append(@, f)]
      text    == TextFor(open, f)
  IN IF text.parses
     THEN FoldLeft(LAMBDA X, g : LoadFile(open, X, g), entered, SourcesOf(text))
     ELSE [entered EXCEPT !.why = "syntax", !.blamed = {f}]

LoadFile(open, L, f) ==
  CASE L.why # ""                -> L
    [] f \in ToSet(L.stack)      -> [L EXCEPT !.why = "cycle"]
    [] f \in ToSet(L.units)      -> L
    [] f \notin Available(open)  -> [L EXCEPT !.why = "missing"]
    [] OTHER                     -> LeaveFile(open, ReadFile(open, L, f), f)

(* All open documents, in the order given, with all they load.             *)
LoadVirtualFiles(open, entries) ==
  FoldLeft(LAMBDA L, f : LoadFile(open, L, f), StartLoad, entries)

(* The loaded files are modules as soon as one of them loads another;      *)
(* otherwise the entries' statements are one program.                      *)
HasImports(open, L) == \E f \in ToSet(L.units) : SourcesOf(TextFor(open, f)) # <<>>

(***************************************************************************)
(* Checking.  C is the state of a check: the names in scope with the file  *)
(* that declares each and whether they are imported, the names exported so *)
(* far with the file that declares them, the files imported, the           *)
(* references resolved so far and the files with an error.  The interfaces *)
(* are those of the files checked before.                                  *)
(***************************************************************************)
StartCheck == [scope |-> <<>>, exports |-> <<>>, direct |-> {}, bound |-> {}, errors |-> {}]

Declared(C, names, origin, imported) ==
  [C EXCEPT !.scope = @ @@ [n \in names |-> [origin |-> origin[n], imported |-> imported]]]

Exported(C, n, origin) == [C EXCEPT !.exports = @ @@ (n :> origin)]

CheckLet(C, f, n) ==
  IF n \in DOMAIN C.scope
  THEN [C EXCEPT !.errors = {f}]
  ELSE Declared(C, {n}, n :> f, FALSE)

CheckUse(C, f, n) ==
  IF n \in DOMAIN C.scope
  THEN [C EXCEPT !.bound = @ \cup {<<f, n, C.scope[n].origin>>}]
  ELSE [C EXCEPT !.errors = {f}]

(* A file imported before is not imported again.                           *)
CheckImport(C, f, g, interface) ==
  IF g \in C.direct THEN C
  ELSE IF DOMAIN interface \cap DOMAIN C.scope # {}
  THEN [C EXCEPT !.errors = {f}]
  ELSE [Declared(C, DOMAIN interface, interface, TRUE) EXCEPT !.direct = @ \cup {g}]

(* Only a module's exports have to have different names.                   *)
CheckExport(C, f, n, inModule) ==
  IF /\ ~(inModule /\ n \in DOMAIN C.exports)
     /\ n \in DOMAIN C.scope
     /\ ~C.scope[n].imported
  THEN IF inModule THEN Exported(C, n, f) ELSE C
  ELSE [C EXCEPT !.errors = {f}]

CheckReExport(C, f, n, interface) ==
  IF n \notin DOMAIN C.exports /\ n \in DOMAIN interface
  THEN Exported(C, n, interface[n])
  ELSE [C EXCEPT !.errors = {f}]

(* The first error ends the check.                                         *)
CheckStatement(C, f, s, inModule, interfaces) ==
  CASE C.errors # {}        -> C
    [] s.kind = "let"       -> CheckLet(C, f, s.name)
    [] s.kind = "use"       -> CheckUse(C, f, s.name)
    [] s.kind = "import"    -> CheckImport(C, f, s.file, interfaces[s.file])
    [] s.kind = "export"    -> CheckExport(C, f, s.name, inModule)
    [] s.kind = "reexport"  -> CheckReExport(C, f, s.name, interfaces[s.file])

CheckStatementList(C, f, body, inModule, interfaces) ==
  FoldLeft(LAMBDA X, s : CheckStatement(X, f, s, inModule, interfaces), C, body)

(* M: the verdict on each module visited, the interfaces of those checked, *)
(* and what the whole check resolved and reported.                         *)
StartModules == [verdict |-> <<>>, interfaces |-> <<>>, bound |-> {}, errors |-> {}]

(* The exports of a module that fails are taken back; what it resolved     *)
(* before stays in the declaration index.                                  *)
CheckModule(M, f, body) ==
  LET C == CheckStatementList(StartCheck, f, body, TRUE, M.interfaces)
  IN [verdict    |-> M.verdict @@ (f :> IF C.errors = {} THEN "checked" ELSE "failed"),
      interfaces |-> IF C.errors = {} THEN M.interfaces @@ (f :> C.exports) ELSE M.interfaces,
      bound      |-> M.bound \cup C.bound,
      errors     |-> M.errors \cup C.errors]

(* A module is checked when all it loads has been; the units are already   *)
(* in that order.                                                          *)
VisitModule(M, f, text) ==
  IF \E g \in ToSet(SourcesOf(text)) : M.verdict[g] # "checked"
  THEN [M EXCEPT !.verdict = @ @@ (f :> "skipped")]
  ELSE CheckModule(M, f, text.body)

CheckModulesInDependencyOrder(open, units) ==
  FoldLeft(LAMBDA M, f : VisitModule(M, f, TextFor(open, f)), StartModules, units)

(* Without modules: one scope for the statements of all entries.           *)
CheckTogether(open, entries) ==
  LET C == FoldLeft(LAMBDA X, f : CheckStatementList(X, f, TextFor(open, f).body, FALSE, <<>>),
                    StartCheck, entries)
  IN [StartModules EXCEPT !.bound = C.bound, !.errors = C.errors]

(***************************************************************************)
(* Analyses.  `entries` are the documents analysed together, in order, with *)
(* their texts; a diagnostic is shown at the file it is attached to.       *)
(***************************************************************************)
Snapshot(open, entries, why, units, modules, M, errors) ==
  [entries |-> [k \in DOMAIN entries |-> <<entries[k], open[entries[k]]>>],
   why |-> why, units |-> units, modules |-> modules, verdict |-> M.verdict,
   interfaces |-> M.interfaces, bound |-> M.bound, errors |-> errors]

AnalyzeVirtualWorkspace(open, entries) ==
  LET L == LoadVirtualFiles(open, entries)
      M == IF HasImports(open, L)
           THEN CheckModulesInDependencyOrder(open, L.units)
           ELSE CheckTogether(open, entries)
  IN IF L.why # ""
     THEN Snapshot(open, entries, L.why, <<>>, FALSE, StartModules, L.blamed)
     ELSE Snapshot(open, entries, "", L.units, HasImports(open, L), M, M.errors)

(* One text by itself, as from the standard input: it may load nothing.    *)
AnalyzeDocument(open, d) ==
  LET M == CheckTogether(open, <<d>>) IN
  CASE ~open[d].parses -> Snapshot(open, <<d>>, "syntax", <<>>, FALSE, StartModules, {d})
    [] open[d].parses /\ SourcesOf(open[d]) # <<>>
                       -> Snapshot(open, <<d>>, "import", <<>>, FALSE, StartModules, {d})
    [] OTHER           -> Snapshot(open, <<d>>, "", <<d>>, FALSE, M, M.errors)

(* The document the message was about comes first, then the URIs' order.   *)
InUriOrder(open, preferred) ==
  SelectSeq(DocumentOrder, LAMBDA d : d \in (DOMAIN open) \cap preferred)
    \o SelectSeq(DocumentOrder, LAMBDA d : d \in (DOMAIN open) \ preferred)

(* Seeded fault: the other documents keep the analysis they had.           *)
RebuildPreferredOnly(open, preferred) ==
  LET together == AnalyzeVirtualWorkspace(open, InUriOrder(open, preferred)) IN
  [d \in DOMAIN open |->
     CASE d \in DOMAIN analysis \ preferred   -> analysis[d]
       [] DOMAIN open \cap Untitled # {}       -> AnalyzeDocument(open, d)
       [] OTHER                                -> together]

(* Every document is analysed again, each by itself when one is no file.   *)
RebuildWorkspaceAnalyses(open, preferred) ==
  LET together == AnalyzeVirtualWorkspace(open, InUriOrder(open, preferred)) IN
  [d \in DOMAIN open |->
     IF DOMAIN open \cap Untitled # {} THEN AnalyzeDocument(open, d) ELSE together]

(* The diagnostics of a document are those attached to it.                 *)
Shown(S, d) == IF d \in S.errors THEN "errors" ELSE "clean"

(***************************************************************************)
(* The messages.                                                           *)
(***************************************************************************)
Init ==
  /\ disk \in Disks
  /\ documents = <<>>
  /\ analysis = <<>>
  /\ published = [d \in Documents |-> "none"]
  /\ edits = 0

(* didOpen and didChange: the text is the document's whole text, and only  *)
(* the document itself is reported on.                                     *)
Synchronize(d, t) ==
  /\ edits < MaxEdits
  /\ edits' = edits + 1
  /\ documents' = (d :> t) @@ documents
  /\ analysis' = RebuildWorkspaceAnalyses(documents', {d})
  /\ published' = [published EXCEPT ![d] = Shown(analysis'[d], d)]
  /\ UNCHANGED disk

(* A document that is not open can be closed as well.                      *)
DidClose(d) ==
  /\ documents' = [e \in Open \ {d} |-> documents[e]]
  /\ analysis' = RebuildWorkspaceAnalyses(documents', {})
  /\ published' = [published EXCEPT ![d] = "clean"]
  /\ UNCHANGED <<disk, edits>>

Next ==
  \/ \E d \in Documents : \E t \in Texts[d] : Synchronize(d, t)
  \/ \E d \in Documents : DidClose(d)

Spec == Init /\ [][Next]_vars

(***************************************************************************)
(* Where a name is defined, from the analysis of the document asked about. *)
(***************************************************************************)
(* The text of a file as it was analysed.                                  *)
AnalysedText(S, f) ==
  LET held == {e \in ToSet(S.entries) : e[1] = f}
  IN IF held # {} THEN (CHOOSE e \in held : TRUE)[2] ELSE disk[f]

RECURSIVE ExportedDefinition(_, _, _, _)

(* Seeded fault: a forwarded name is not followed to its module.           *)
ExportAnswerHere(S, g, s, n, visiting) ==
  IF /\ s.kind \in {"export", "reexport"} /\ s.name = n
     /\ \E x \in ToSet(AnalysedText(S, g).body) : x.kind = "let" /\ x.name = n
  THEN g ELSE NoFile

ExportAnswer(S, g, s, n, visiting) ==
  CASE s.kind = "reexport" /\ s.name = n -> ExportedDefinition(S, s.file, n, visiting \cup {g})
    [] s.kind = "export" /\ s.name = n
       /\ \E x \in ToSet(AnalysedText(S, g).body) : x.kind = "let" /\ x.name = n -> g
    [] OTHER -> NoFile

FirstAnswer(answers) ==
  FoldLeft(LAMBDA found, next : IF found = NoFile THEN next ELSE found, NoFile, answers)

(* The file that declares what g exports as n.                             *)
ExportedDefinition(S, g, n, visiting) ==
  IF g \in visiting \/ g \notin ToSet(S.units) THEN NoFile
  ELSE LET body == AnalysedText(S, g).body
       IN FirstAnswer([k \in DOMAIN body |-> ExportAnswer(S, g, body[k], n, visiting)])

ImportedDefinition(S, d, n) ==
  LET imports == SelectSeq(AnalysedText(S, d).body, LAMBDA s : s.kind = "import")
  IN FirstAnswer([k \in DOMAIN imports |-> ExportedDefinition(S, imports[k].file, n, {})])

(* The type checker bound the document's n to a declaration of its own.    *)
DefinedHere(S, d, n) == <<d, n, d>> \in S.bound

(* Such a reference is answered from the index, any other from the modules *)
(* the document imports.                                                   *)
DefinitionOf(S, d, n) ==
  IF S.why # "" THEN NoFile
  ELSE IF DefinedHere(S, d, n) THEN d
  ELSE IF S.modules THEN ImportedDefinition(S, d, n)
  ELSE NoFile

(***************************************************************************)
(* Properties.                                                             *)
(***************************************************************************)

(* Type and freshness.  After every message the analysis of every open     *)
(* document was made from the current text of every open document (of that *)
(* document alone when one is no file), whatever message came last and     *)
(* whichever documents were closed, and a closed document shows nothing.   *)
AnalysesCurrent ==
  /\ disk \in Disks /\ edits \in 0..MaxEdits
  /\ Open \subseteq Documents /\ DOMAIN analysis = Open
  /\ published \in [Documents -> {"none", "clean", "errors"}]
  /\ \A d \in Documents \ Open : published[d] # "errors"
  /\ \A d \in Open :
       LET entries == analysis[d].entries
           together == IF Open \cap Untitled = {} THEN Open ELSE {d}
       IN /\ Len(entries) = Cardinality(together)
          /\ ToSet(entries) = {<<e, documents[e]>> : e \in together}

(* What loading from the open documents should find, of any set of texts.  *)
Readable == {f \in Available(documents) : TextFor(documents, f).parses}

Leads == [p \in Files \X Files |->
           p[1] \in Readable /\ p[2] \in ToSet(SourcesOf(TextFor(documents, p[1])))]

Needed(reach) == Open \cup {f \in Files : \E d \in Open : reach[d, f]}

(* An open document is answerable for f: it is f, or it leads to f through *)
(* closed files.                                                           *)
Answerable(d, f) ==
  LET closed == TransitiveClosure([p \in Files \X Files |-> Leads[p] /\ p[2] \notin Open], Files)
  IN d = f \/ closed[d, f]

(* Loading the open documents succeeds exactly when everything they reach  *)
(* exists, parses and is on no cycle; the units are then the files reached, *)
(* once each and after what they load.  Otherwise exactly one file is      *)
(* blamed: one that does not parse, or an open document answerable for a   *)
(* file that asks for a missing one or closes a cycle.                     *)
LoadExact(S) ==
  LET reach  == TransitiveClosure(Leads, Files)
      needed == Needed(reach)
      bad    == {f \in needed \cap Readable : reach[f, f]
                   \/ \E g \in Files \ Available(documents) : Leads[f, g]}
  IN /\ S.why = "" <=> needed \subseteq Readable /\ bad = {}
     /\ S.why = "" => /\ IsInjective(S.units)
                      /\ ToSet(S.units) = needed
                      /\ \A i, j \in DOMAIN S.units : Leads[S.units[i], S.units[j]] => j < i
     /\ S.why = "syntax" => \E f \in (needed \cap Available(documents)) \ Readable : S.errors = {f}
     /\ S.why \in {"missing", "cycle"} =>
          \E d \in Open, f \in bad : S.errors = {d} /\ Answerable(d, f)

(* What a module should be checked to be, statement by statement, from the *)
(* statements before it.                                                   *)
ExportedNames(body) == {s.name : s \in {x \in ToSet(body) : x.kind \in {"export", "reexport"}}}

LetBefore(body, k, n) == \E j \in 1..(k - 1) : body[j].kind = "let" /\ body[j].name = n
ImportedBefore(body, k, n) ==
  \E j \in 1..(k - 1) :
    body[j].kind = "import" /\ n \in ExportedNames(TextFor(documents, body[j].file).body)
ExportBefore(body, k, n) == n \in ExportedNames(SubSeq(body, 1, k - 1))

WellPlaced(body, k) ==
  LET s == body[k]
      provided == ExportedNames(TextFor(documents, s.file).body)
  IN CASE s.kind = "let" -> ~LetBefore(body, k, s.name) /\ ~ImportedBefore(body, k, s.name)
       [] s.kind = "use" -> LetBefore(body, k, s.name) \/ ImportedBefore(body, k, s.name)
       [] s.kind = "import" ->
            \/ \E j \in 1..(k - 1) : body[j].kind = "import" /\ body[j].file = s.file
            \/ \A n \in provided : ~LetBefore(body, k, n) /\ ~ImportedBefore(body, k, n)
       [] s.kind = "export" -> ~ExportBefore(body, k, s.name) /\ LetBefore(body, k, s.name)
       [] s.kind = "reexport" -> ~ExportBefore(body, k, s.name) /\ s.name \in provided

(* A module is skipped when something it loads is not checked, and         *)
(* otherwise checked exactly when all its statements are well placed; the  *)
(* others are reported, and nothing else is.                               *)
ModulesExact(S) ==
  /\ S.errors \subseteq ToSet(S.units)
  /\ \A f \in ToSet(S.units) :
       LET body  == TextFor(documents, f).body
           fine  == \A k \in DOMAIN body : WellPlaced(body, k)
           ready == \A g \in ToSet(SourcesOf(TextFor(documents, f))) : S.verdict[g] = "checked"
       IN /\ S.verdict[f] = "skipped" <=> ~ready
          /\ S.verdict[f] = "checked" <=> ready /\ fine
          /\ f \in S.errors <=> ready /\ ~fine

(* Without modules the open documents are one program in the order they    *)
(* were given, and its first misplaced statement is reported.              *)
TogetherExact(S) ==
  LET all == FlattenSeq([k \in DOMAIN S.entries |->
               LET body == S.entries[k][2].body
               IN [j \in DOMAIN body |-> [kind |-> body[j].kind, name |-> body[j].name, of |-> S.entries[k][1]]]])
      bad == {k \in DOMAIN all : LetBefore(all, k, all[k].name) <=> all[k].kind = "let"}
  IN S.errors = {all[k].of : k \in {j \in bad : \A i \in bad : j <= i}}

(* Every analysis says what the texts deserve.                             *)
VerdictsExact ==
  \A d \in Open :
    LET S == analysis[d] IN
    IF Open \cap Untitled # {}
    THEN S.why = "" => TogetherExact(S)
    ELSE /\ LoadExact(S)
         /\ S.why = "" => IF S.modules THEN ModulesExact(S) ELSE TogetherExact(S)

(* Go-to-definition follows the chain of exports to the declaration the    *)
(* type checker bound the reference to, through any number of forwarding   *)
(* modules; and whatever state a module is in, the file it answers with    *)
(* declares the name.                                                      *)
DefinitionsAgree ==
  \A d \in Open, n \in Names :
    LET S == analysis[d]
        answer == DefinitionOf(S, d, n)
        used == \E s \in ToSet(documents[d].body) : s.kind = "use" /\ s.name = n
    IN /\ answer # NoFile =>
            \E s \in ToSet(AnalysedText(S, answer).body) : s.kind = "let" /\ s.name = n
       /\ S.why = "" /\ S.modules /\ used /\ S.verdict[d] = "checked" =>
            <<d, n, answer>> \in S.bound

===============================================================================
