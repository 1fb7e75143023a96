------------------------------ MODULE Formatter ------------------------------
(***************************************************************************)
(* The formatter (Formatter.cpp): one pass over the pieces of a text that  *)
(* writes every token and comment again, with white space of its own.      *)
(* Widths count one for each lexeme.                                       *)
(***************************************************************************)
EXTENDS Lexer, FiniteSetsExt, SequencesExt

CONSTANTS LineWidth, IndentWidth

ASSUME WidthsAssumption == LineWidth \in Nat /\ IndentWidth \in Nat \ {0}

isWordLike(kind) == kind \in Words \cup {"Identifier", "Number", "String"}
isBinaryOperator(kind) == kind \in Operators \ {"!", "?"}

(***************************************************************************)
(* Properties of a token among its neighbours.                             *)
(***************************************************************************)
isUnaryMinus(tokens, i) ==
  \/ i = 1
  \/ tokens[i - 1].kind \in (Operators \ {"?"}) \cup {"(", "[", "{", ",", ":", "return"}

genericCloseCanBeFollowedBy == {"(", "{", ",", ")", "]", ":", "=", ";", "}", ".", ">"}

CountKinds(tokens, from, to, kind) ==
  Cardinality({j \in from..to : tokens[j].kind = kind})

\* The `>` that closes the `<` at i, 0 if none does.
CloseOf(tokens, i) ==
  LET closing == {j \in i..Len(tokens) :
                    /\ tokens[j].kind = ">"
                    /\ CountKinds(tokens, i, j, "<") = CountKinds(tokens, i, j, ">")}
  IN  IF closing = {} THEN 0 ELSE Min(closing)

\* Seeded fault: a `<` apart from the name before it opens type arguments too.
opensGenericApart(tokens, i) ==
  /\ i > 1 /\ tokens[i].kind = "<"
  /\ tokens[i - 1].kind # "operator"
  /\ CloseOf(tokens, i) # 0
  /\ CloseOf(tokens, i) < Len(tokens) =>
       tokens[CloseOf(tokens, i) + 1].kind \in genericCloseCanBeFollowedBy

opensGeneric(tokens, i) ==
  LET before == tokens[i - 1].kind
      close == CloseOf(tokens, i)
  IN  /\ i > 1 /\ tokens[i].kind = "<"
      /\ \/ before = "fun"
         \/ /\ before # "operator"
            /\ isWordLike(before) \/ before \in {"]", ")", ">"}
            /\ tokens[i].tight
      /\ close # 0
      /\ close < Len(tokens) => tokens[close + 1].kind \in genericCloseCanBeFollowedBy

findGenericAngles(tokens) ==
  LET open == {i \in DOMAIN tokens : opensGeneric(tokens, i)}
  IN  open \cup {CloseOf(tokens, i) : i \in open}

(***************************************************************************)
(* What follows an opening bracket: whether a comma of its own, and how    *)
(* wide the list is at most.                                               *)
(***************************************************************************)
RECURSIVE Nesting(_, _, _, _, _)
\* Brackets open before place i; each kind is counted down to 0 at most.
Nesting(tokens, angles, from, i, kinds) ==
  IF i = from THEN 0
  ELSE LET before == Nesting(tokens, angles, from, i - 1, kinds)
           kind == tokens[i - 1].kind
           counts == kind \notin {"<", ">"} \/ (i - 1) \in angles
       IN  CASE counts /\ kind = kinds[1] -> before + 1
             [] counts /\ kind = kinds[2] /\ before > 0 -> before - 1
             [] OTHER -> before

Level(tokens, angles, open, i) ==
  \A kinds \in {<<"(", ")">>, <<"[", "]">>, <<"{", "}">>, <<"<", ">">>} :
     Nesting(tokens, angles, open + 1, i, kinds) = 0

\* The end of the list opened at `open`: its closing bracket, or the last token.
ListEnd(tokens, angles, open, closing) ==
  LET ends == {i \in (open + 1)..Len(tokens) :
                 tokens[i].kind = closing /\ Level(tokens, angles, open, i)}
  IN  IF ends = {} THEN Len(tokens) + 1 ELSE Min(ends)

estimatedListContentWidth(tokens, angles, open, closing) ==
  3 * (ListEnd(tokens, angles, open, closing) - open - 1)

containsTopLevelListComma(tokens, angles, open, closing) ==
  \E i \in (open + 1)..(ListEnd(tokens, angles, open, closing) - 1) :
     tokens[i].kind = "," /\ Level(tokens, angles, open, i)

(***************************************************************************)
(* The state of the pass and what it writes.                               *)
(***************************************************************************)
FormatterState ==
  [ piece |-> 1, token |-> 1, output |-> <<>>, indent |-> 0, lineStart |-> TRUE,
    pendingLineBreak |-> FALSE, pendingClose |-> FALSE, sourceNewline |-> FALSE,
    sourceBlankLine |-> FALSE, inForHeader |-> FALSE, delimiters |-> <<>>, previous |-> "" ]

RECURSIVE trim(_)
trim(output) ==
  IF output # <<>> /\ Last(output) = Blank THEN trim(Front(output)) ELSE output
trimTrailingSpaces(s) == [s EXCEPT !.output = trim(@)]

writeRaw(s, chunk) ==
  LET spaces == IF s.lineStart THEN [k \in 1..(s.indent * IndentWidth) |-> Blank] ELSE <<>>
  IN  [s EXCEPT !.output = @ \o spaces \o <<chunk>>, !.lineStart = FALSE]

space(s) ==
  IF s.lineStart \/ s.output = <<>> \/ Last(s.output) \in {Newline, Blank} THEN s
  ELSE [s EXCEPT !.output = Append(@, Blank)]

newline(s) ==
  LET trimmed == trim(s.output)
  IN  [s EXCEPT !.output = IF trimmed = <<>> \/ Last(trimmed) # Newline
                           THEN Append(trimmed, Newline) ELSE trimmed,
                !.lineStart = TRUE]

ensureBlankLine(s) ==
  LET trimmed == trim(s.output)
      ended == IF s.lineStart THEN trimmed ELSE Append(trimmed, Newline)
  IN  IF trimmed = <<>> THEN [s EXCEPT !.output = trimmed]
      ELSE [s EXCEPT !.output = Append(ended, Newline), !.lineStart = TRUE]

currentLineColumn(s) ==
  LET breaks == {i \in DOMAIN s.output : s.output[i] = Newline}
  IN  IF breaks = {} THEN Len(s.output)
      ELSE Len(s.output) - Max(breaks)

Delimiter(kind, empty, baseIndent) ==
  [kind |-> kind, empty |-> empty, baseIndent |-> baseIndent, wrapped |-> FALSE]
Top(s) == IF s.delimiters = <<>> THEN Delimiter("none", FALSE, 0) ELSE Last(s.delimiters)
push(s, delimiter) == [s EXCEPT !.delimiters = Append(@, delimiter)]

\* The innermost delimiter of this kind goes, also from below others.
popDelimiter(s, kind) ==
  LET of == {i \in DOMAIN s.delimiters : s.delimiters[i].kind = kind}
      at == Max(of)
  IN  IF of = {} THEN s
      ELSE [s EXCEPT !.delimiters =
              SubSeq(@, 1, at - 1) \o SubSeq(@, at + 1, Len(@))]

wrapTopList(s) ==
  IF Top(s).kind \notin {"(", "["} THEN s
  ELSE LET n == Len(s.delimiters)
           wrapped == newline([s EXCEPT !.delimiters[n].wrapped = TRUE])
       IN  [wrapped EXCEPT !.indent = Top(s).baseIndent + 1]

shouldWrapListAtOpen(s, tokens, angles, i, closing) ==
  LET width == estimatedListContentWidth(tokens, angles, i, closing)
  IN  /\ containsTopLevelListComma(tokens, angles, i, closing)
      /\ width > 0
      /\ currentLineColumn(s) + 1 + width > LineWidth

shouldWrapAfterComma(s) == Top(s).kind \in {"(", "["} /\ Top(s).wrapped

(***************************************************************************)
(* White space before a token.                                             *)
(***************************************************************************)
withoutLeadingSpace == {")", "]", "}", ",", ";", "."}
spacedBeforeBracket == {"if", "while", "for", "match", "return", "print"}
canFollowClosingBraceOnSameLine(kind) ==
  kind \in {"else", ";", ",", ")", "]", "}", ".", "(", "["} \/ isBinaryOperator(kind)

shouldSpaceBefore(s, kind, generic) ==
  LET before == s.previous
  IN  /\ ~s.lineStart /\ before # ""
      /\ kind \notin withoutLeadingSpace
      /\ CASE kind \in {"(", "["} -> before \in spacedBeforeBracket
           [] kind = "{" -> TRUE
           [] generic \/ before \in {".", "(", "[", "{"} -> FALSE
           [] before \in {":", ",", "=>"} -> TRUE
           [] before = "!" -> FALSE
           [] isWordLike(before) /\ isWordLike(kind) -> TRUE
           [] isWordLike(before) /\ kind \in {"!", "-"} -> before = "return"
           [] before = "}" -> kind = "else"
           [] OTHER -> FALSE

\* The line end held back comes first, then the one a closing brace held back;
\* a blank line of the source is kept once, between items at the top level.
EndHeldLine(s, keepBlank) ==
  IF ~s.pendingLineBreak THEN s
  ELSE IF keepBlank THEN ensureBlankLine(newline([s EXCEPT !.pendingLineBreak = FALSE]))
  ELSE newline([s EXCEPT !.pendingLineBreak = FALSE])

EndAfterBrace(s, kind) ==
  s.pendingClose /\ ~canFollowClosingBraceOnSameLine(kind) /\ ~s.lineStart

EndClosedBlock(s, kind, keepBlank) ==
  [ (IF ~EndAfterBrace(s, kind) THEN s
     ELSE IF keepBlank THEN ensureBlankLine(s) ELSE newline(s)) EXCEPT !.pendingClose = FALSE ]

KeepBlankLine(s, handled) == IF ~handled /\ s.lineStart THEN ensureBlankLine(s) ELSE s

flushBeforeToken(s, kind) ==
  LET keepBlank == s.sourceBlankLine /\ s.delimiters = <<>>
      broken == EndHeldLine(s, keepBlank)
      handled == ~keepBlank \/ s.pendingLineBreak \/ EndAfterBrace(broken, kind)
  IN  KeepBlankLine(EndClosedBlock(broken, kind, keepBlank), handled)

(***************************************************************************)
(* Writing a token.                                                        *)
(***************************************************************************)
emitOperator(s, tokens, i) ==
  LET token == tokens[i]
      before == IF i = 1 THEN "" ELSE tokens[i - 1].kind
      spaced == writeRaw(space(s), token.lexeme)
  IN  IF token.kind = "!" THEN writeRaw(s, token.lexeme)
      ELSE IF token.kind = "-" /\ isUnaryMinus(tokens, i)
      THEN writeRaw(IF before = "return" THEN space(s) ELSE s, token.lexeme)
      ELSE IF before = "operator" THEN spaced ELSE space(spaced)

WrapIf(s, wrap) == IF wrap THEN wrapTopList(s) ELSE s

emitOpen(s, tokens, angles, i) ==
  LET kind == tokens[i].kind
      opened == push(writeRaw(s, tokens[i].lexeme), Delimiter(kind, FALSE, s.indent))
  IN  WrapIf(opened, shouldWrapListAtOpen(opened, tokens, angles, i,
                                          IF kind = "(" THEN ")" ELSE "]"))

EndLine(s) == IF s.lineStart THEN s ELSE newline(s)

emitClose(s, token, open) ==
  LET ready == IF Top(s).kind = open /\ Top(s).wrapped
               THEN [EndLine(s) EXCEPT !.indent = Top(s).baseIndent] ELSE s
  IN  popDelimiter(writeRaw(ready, token.lexeme), open)

\* A pair of braces is empty when its tokens meet and no comment stands between.
emitLeftBrace(s, token, next, hasComment) ==
  LET empty == next = "End" \/ (~hasComment /\ next = "}")
      opened == push(writeRaw(s, token.lexeme), Delimiter("{", empty, 0))
  IN  [opened EXCEPT !.indent = IF empty THEN @ ELSE @ + 1,
                     !.pendingLineBreak = @ \/ ~empty,
                     !.inForHeader = FALSE]

emitRightBrace(s, token) ==
  LET outer == IF Top(s).kind = "{" /\ Top(s).empty THEN s
               ELSE [EndLine(EndHeldLine(s, FALSE)) EXCEPT
                       !.indent = IF @ > 0 THEN @ - 1 ELSE 0]
  IN  [popDelimiter(writeRaw(outer, token.lexeme), "{") EXCEPT !.pendingClose = TRUE]

emitComma(s, token) ==
  LET written == writeRaw(s, token.lexeme)
  IN  CASE Top(s).kind = "{" -> [written EXCEPT !.pendingLineBreak = TRUE]
        [] shouldWrapAfterComma(s) -> wrapTopList(written)
        [] OTHER -> space(written)

emitSemicolon(s, token) ==
  LET written == writeRaw(trimTrailingSpaces(s), token.lexeme)
  IN  IF s.inForHeader THEN space(written) ELSE [written EXCEPT !.pendingLineBreak = TRUE]

emitAngle(s, token) ==
  LET written == writeRaw(trimTrailingSpaces(s), token.lexeme)
  IN  IF token.kind = "<" THEN push(written, Delimiter("<", FALSE, 0))
      ELSE popDelimiter(written, "<")

emitKind(t, tokens, angles, i, next, hasComment) ==
  LET token == tokens[i]
      kind == token.kind
  IN  CASE kind \in {"(", "["} -> emitOpen(t, tokens, angles, i)
        [] kind = ")" -> emitClose(t, token, "(")
        [] kind = "]" -> emitClose(t, token, "[")
        [] kind = "{" -> emitLeftBrace(t, token, next, hasComment)
        [] kind = "}" -> emitRightBrace(t, token)
        [] kind = "," -> emitComma(t, token)
        [] kind = ":" -> space(writeRaw(trimTrailingSpaces(t), token.lexeme))
        [] kind = ";" -> emitSemicolon(t, token)
        [] kind = "." -> writeRaw(trimTrailingSpaces(t), token.lexeme)
        [] kind \in {"<", ">"} /\ i \in angles -> emitAngle(t, token)
        [] kind \in Operators -> emitOperator(t, tokens, i)
        [] OTHER -> writeRaw(t, token.lexeme)

SpaceIf(s, spaced) == IF spaced THEN space(s) ELSE s
SpaceBefore(s, kind, generic) == SpaceIf(s, shouldSpaceBefore(s, kind, generic))

emitToken(s, tokens, angles, i, next, hasComment) ==
  LET kind == tokens[i].kind
      ready == SpaceBefore(flushBeforeToken(s, kind), kind, i \in angles /\ kind \in {"<", ">"})
  IN  [emitKind(ready, tokens, angles, i, next, hasComment)
         EXCEPT !.inForHeader = @ \/ kind = "for", !.previous = kind,
                !.sourceNewline = FALSE, !.sourceBlankLine = FALSE]

(***************************************************************************)
(* Comments and white space of the source.                                 *)
(***************************************************************************)
PlaceComment(s) ==
  LET held == s.pendingLineBreak \/ s.pendingClose
      placed == CASE s.sourceNewline /\ (held \/ ~s.lineStart) -> newline(s)
                  [] ~s.sourceNewline /\ (held \/ ~s.lineStart) -> space(s)
                  [] OTHER -> s
  IN  [placed EXCEPT !.pendingLineBreak = FALSE,
                     !.pendingClose = @ /\ s.pendingLineBreak]

emitComment(s, text) ==
  LET apart == IF s.sourceBlankLine /\ s.delimiters = <<>> THEN ensureBlankLine(s) ELSE s
  IN  [newline(writeRaw(PlaceComment(apart), text))
         EXCEPT !.sourceNewline = FALSE, !.sourceBlankLine = FALSE]

\* Seeded fault: every line end counts as a blank line.
noteSpaceEveryBreak(s, breaks) ==
  IF breaks = 0 THEN s
  ELSE [s EXCEPT !.sourceNewline = TRUE, !.sourceBlankLine = @ \/ s.delimiters = <<>>]

noteSpace(s, breaks) ==
  IF breaks = 0 THEN s
  ELSE [s EXCEPT !.sourceNewline = TRUE,
                 !.sourceBlankLine = @ \/ (s.delimiters = <<>> /\ breaks >= 2)]

\* The piece reached; a piece is a token exactly when it takes the next token.
emitPiece(s, pieces, tokens, angles) ==
  LET piece == pieces[s.piece]
      later == {q \in (s.piece + 1)..Len(pieces) : pieces[q].is = "token"}
      next == IF later = {} THEN "End" ELSE tokens[s.token + 1].kind
      hasComment == \E q \in (s.piece + 1)..Len(pieces) :
                       pieces[q].is = "comment" /\ \A t \in later : q < t
      done == CASE piece.is = "comment" -> emitComment(s, piece.lexeme)
                [] piece.is = "space" -> noteSpace(s, piece.breaks)
                [] piece.is = "token" ->
                     [emitToken(s, tokens, angles, s.token, next, hasComment)
                        EXCEPT !.token = @ + 1]
  IN  [done EXCEPT !.piece = @ + 1]

\* The next `count` pieces while there are any, the first half before the second.
RECURSIVE emitPieces(_, _, _, _, _)
emitPieces(s, count, pieces, tokens, angles) ==
  CASE s.piece > Len(pieces) -> s
    [] s.piece <= Len(pieces) /\ count = 1 -> emitPiece(s, pieces, tokens, angles)
    [] OTHER -> emitPieces(emitPieces(s, count \div 2, pieces, tokens, angles),
                           count - count \div 2, pieces, tokens, angles)

RECURSIVE trimEnd(_)
trimEnd(output) ==
  IF output # <<>> /\ Last(output) = Newline THEN trimEnd(Front(output)) ELSE output
EndOnce(output) == IF output = <<>> THEN <<>> ELSE Append(output, Newline)

\* A text without tokens keeps its comments, one to a line.
OnlyComments(pieces) ==
  LET comments == SelectSeq(pieces, LAMBDA p : p.is = "comment")
  IN  [i \in 1..(2 * Len(comments)) |->
         IF i % 2 = 1 THEN comments[(i + 1) \div 2].lexeme ELSE Newline]

FormatPieces(pieces, tokens) ==
  IF tokens = <<>> THEN OnlyComments(pieces)
  ELSE trim(emitPieces(FormatterState, Len(pieces), pieces, tokens,
                       findGenericAngles(tokens)).output)

FormatView(pieces) == EndOnce(trimEnd(FormatPieces(pieces, TokensOf(pieces))))
formatLosslessSource(text) == FormatView(Pieces(text))
=============================================================================
