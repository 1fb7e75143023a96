------------------------------ MODULE Editing ------------------------------
(***************************************************************************)
(* A document that is edited, read and formatted: what Lexer, Parser and   *)
(* Formatter do to it together.  The text is a sequence of chunks (Lexer); *)
(* after every change the front end reads it again, one declaration at a   *)
(* time.  A document without errors can be formatted, by the editor or by  *)
(* the command line; then it is read once more.                            *)
(***************************************************************************)
EXTENDS Parser, Formatter

CONSTANTS
  Sources,   \* the documents to start from
  Typed,     \* the chunks the user types
  MaxEdits   \* bound on the changes of the user

ASSUME EditsAssumption == MaxEdits \in Nat

VARIABLES
  text,        \* the chunks of the document
  parser,      \* the parser at work on it
  formatted,   \* the text is what the formatter wrote
  before,      \* what the text said before the formatter rewrote it
  edits        \* changes made so far

vars == <<text, parser, formatted, before, edits>>

\* What a document says: its trees, the classes of its numbered nodes, its comments.
Meaning(p, chunks) ==
  [ trees |-> DumpAll(p.parts, FALSE),
    nodes |-> assignSyntaxNodeIds(p.parts),
    comments |-> CommentsOf(chunks) ]

Read(chunks) ==
  /\ text' = chunks
  /\ parser' = Start(scanTokens(chunks))

Init ==
  /\ text \in Sources
  /\ parser = Start(scanTokens(text))
  /\ formatted = FALSE
  /\ before = Meaning(Start(<<EndOfFile>>), <<>>)
  /\ edits = 0

\* One round of the loop in `Parser::parse`.
ParseDeclaration ==
  /\ ~isAtEnd(parser)
  /\ parser' = parseTopLevel(parser)
  /\ UNCHANGED <<text, formatted, before, edits>>

Rewrite ==
  /\ isAtEnd(parser) /\ parser.errors = <<>>
  /\ ~formatted
  /\ formatted' = TRUE
  /\ before' = Meaning(parser, text)
  /\ Read(formatLosslessSource(text))
  /\ UNCHANGED edits

\* What refers to another file: an import, or a re-export.
LoadsSource(p) ==
  \E i \in DOMAIN p.parts :
     \/ p.parts[i].class = "ImportStmt"
     \/ p.parts[i].class = "ExportStmt" /\ FieldOf(p.parts[i], "sourcePath") # Nothing

\* The editor formats one text by itself, the command line a file with what it imports.
FormatDocument == ~LoadsSource(parser) /\ Rewrite
FormatFile == LoadsSource(parser) /\ Rewrite

\* The user removes or types a chunk.
Edit ==
  /\ isAtEnd(parser)
  /\ ~formatted
  /\ edits < MaxEdits
  /\ \/ \E i \in DOMAIN text : Read(RemoveAt(text, i))
     \/ \E i \in DOMAIN text, chunk \in Typed : Read(InsertAt(text, i, chunk))
  /\ edits' = edits + 1
  /\ UNCHANGED <<formatted, before>>

Next == ParseDeclaration \/ FormatDocument \/ FormatFile \/ Edit
Spec == Init /\ [][Next]_vars
-----------------------------------------------------------------------------
\* Formatting a program leaves its trees, the order of its nodes and its
\* comments as they are, and what the formatter writes can be read without
\* errors (formatLosslessSource).
FormatKeepsProgram ==
  formatted /\ isAtEnd(parser) => parser.errors = <<>> /\ Meaning(parser, text) = before

\* Formatting what the formatter wrote changes nothing, so that a file passes
\* `--check-format` once it has been formatted (formatLosslessSource).
FormatStable == formatted => formatLosslessSource(text) = text

\* A declaration at the top level, however it fails, consumes tokens, leaves
\* the two switches of the parser as it found them and the errors of earlier
\* declarations alone; it reports at most what it consumed or the token it
\* stopped at, and the tree it leaves covers nothing else
\* (parseDeclarationRecovering and the three synchronisations).
RecoverySound ==
  [][text' = text /\ parser' # parser =>
       LET from == parser.current
           to == parser'.current
           old == Len(parser.errors)
           trees == Len(parser'.parts) - Len(parser.parts)
       IN  /\ to > from
           /\ parser'.blockDepth = parser.blockDepth
           /\ parser'.allowStructConstructors = parser.allowStructConstructors
           /\ SubSeq(parser'.errors, 1, old) = parser.errors
           /\ \A e \in (old + 1)..Len(parser'.errors) : parser'.errors[e] \in from..to
           /\ trees = 0 => Len(parser'.errors) > old
           /\ trees = 1 => LET range == RangeOf(Last(parser'.parts))
                           IN  from <= range[1] /\ range[2] < to]_vars
=============================================================================
