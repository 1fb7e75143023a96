------------------------------- MODULE Lexer -------------------------------
(***************************************************************************)
(* From text to tokens (Lexer.cpp) and to the pieces of the lossless view  *)
(* (LosslessSource.cpp).  Text is a sequence of chunks: blanks, line ends, *)
(* comments and lexemes.  Two lexemes with nothing between may be read as  *)
(* one, and a comment takes everything up to the end of its line.          *)
(***************************************************************************)
EXTENDS Integers, Sequences, Grammar

CONSTANTS Comments, Numbers, Strings   \* chunks that are comments, numbers, strings

Blank == " "
Newline == "\n"

OtherWord == "word?"      \* a word that is none of the chunks of the text
OtherNumber == "0?"       \* a number that is none of the chunks of the text
OtherComment == "//?"     \* a comment that is none of the chunks of the text

isNumber(chunk) == chunk \in Numbers \cup {OtherNumber}
isComment(chunk) == chunk \in Comments \cup {OtherComment}

KindOf(lexeme) ==
  CASE lexeme \in Words \cup Punctuation -> lexeme
    [] isNumber(lexeme) -> "Number"
    [] lexeme \in Strings -> "String"
    [] OTHER -> "Identifier"

isWord(lexeme) == KindOf(lexeme) \in Words \cup {"Identifier"}

(***************************************************************************)
(* Lexemes with nothing between, as scanToken, identifier and              *)
(* numberLiteral read them: as many characters as they can.                *)
(***************************************************************************)
Joined ==
  {<<"=", "=", "==">>, <<"=", ">", "=>">>, <<"!", "=", "!=">>, <<"<", "=", "<=">>,
   <<">", "=", ">=">>, <<"+", "=", "+=">>, <<"-", "=", "-=">>, <<"*", "=", "*=">>,
   <<"/", "=", "/=">>, <<"|", "|", "||">>}

\* The second may lose its first character to the first.
Split == {<<"==", "=", "=">>, <<"=>", "=", ">">>, <<">=", ">", "=">>, <<"||", "|", "|">>}

join(a, b) ==
  LET whole == {j[3] : j \in {k \in Joined : k[1] = a /\ k[2] = b}}
      torn == {<<j[3], p[3]>> : <<j, p>> \in
                 {q \in Joined \X Split : q[2][1] = b /\ q[1][1] = a /\ q[1][2] = q[2][2]}}
  IN  CASE whole # {} -> <<CHOOSE c \in whole : TRUE>>
        [] torn # {} -> CHOOSE c \in torn : TRUE
        [] isWord(a) /\ (isWord(b) \/ isNumber(b)) -> <<OtherWord>>
        [] isNumber(a) /\ isNumber(b) -> <<OtherNumber>>
        [] OTHER -> <<a, b>>

(***************************************************************************)
(* The pieces of a text: tokens, comments and stretches of white space     *)
(* with the number of line ends in them.                                   *)
(***************************************************************************)
Token(lexeme) == [is |-> "token", lexeme |-> lexeme, breaks |-> 0]
Comment(text) == [is |-> "comment", lexeme |-> text, breaks |-> 0]
Space(breaks) == [is |-> "space", lexeme |-> "", breaks |-> breaks]

ScanState == [pieces |-> <<>>, current |-> 1]

scanChunk(pieces, chunk) ==
  LET n == Len(pieces)
      last == IF n = 0 THEN Space(0) ELSE pieces[n]
      front == SubSeq(pieces, 1, n - 1)
      glued == join(last.lexeme, chunk)
      breaks == IF chunk = Newline THEN 1 ELSE 0
  IN  CASE last.is = "comment" /\ chunk # Newline ->
             IF chunk = Blank THEN pieces ELSE Append(front, Comment(OtherComment))
        [] /\ last.is = "token" /\ last.lexeme = "/"
           /\ isComment(chunk) \/ chunk \in {"/", "/="} -> Append(front, Comment(OtherComment))
        [] isComment(chunk) -> Append(pieces, Comment(chunk))
        [] chunk \in {Blank, Newline} ->
             IF n > 0 /\ last.is = "space" THEN Append(front, Space(last.breaks + breaks))
             ELSE Append(pieces, Space(breaks))
        [] last.is = "token" -> front \o [k \in DOMAIN glued |-> Token(glued[k])]
        [] OTHER -> Append(pieces, Token(chunk))

\* The next `count` chunks while there are any, the first half before the second.
RECURSIVE scanChunks(_, _, _)
scanChunks(s, text, count) ==
  CASE s.current > Len(text) -> s
    [] s.current <= Len(text) /\ count = 1 ->
         [pieces |-> scanChunk(s.pieces, text[s.current]), current |-> s.current + 1]
    [] OTHER -> scanChunks(scanChunks(s, text, count \div 2), text, count - count \div 2)

Pieces(text) == scanChunks(ScanState, text, Len(text)).pieces

(***************************************************************************)
(* The tokens, each with whether it follows the one before directly.       *)
(***************************************************************************)
TokenPieces(pieces) ==
  SelectSeq([i \in DOMAIN pieces |-> i], LAMBDA i : pieces[i].is = "token")

TokensOf(pieces) ==
  LET places == TokenPieces(pieces)
  IN  [k \in DOMAIN places |->
         [ lexeme |-> pieces[places[k]].lexeme,
           kind |-> KindOf(pieces[places[k]].lexeme),
           tight |-> places[k] > 1 /\ pieces[places[k] - 1].is = "token" ]]

EndOfFile == [lexeme |-> "", kind |-> "End", tight |-> FALSE]
scanTokens(text) == Append(TokensOf(Pieces(text)), EndOfFile)

CommentsOf(text) ==
  LET pieces == Pieces(text)
      found == SelectSeq(pieces, LAMBDA p : p.is = "comment")
  IN  [i \in DOMAIN found |-> found[i].lexeme]
=============================================================================
