------------------------------- MODULE Parser -------------------------------
(***************************************************************************)
(* The parser (Parser.cpp): runs the rules of Grammar over the tokens.     *)
(*                                                                         *)
(* A state has the tokens, the place reached, the two switches the parser  *)
(* keeps (`blockDepth_`, `allowStructConstructors_`), the places of the    *)
(* errors recorded, the parts of the node under construction, and the work *)
(* left to do: the calls in progress, innermost first.  A token has a      *)
(* lexeme, a kind and whether it follows the one before directly.          *)
(***************************************************************************)
EXTENDS Ast, Grammar

Start(tokens) ==
  [ tokens |-> tokens, current |-> 1, blockDepth |-> 0, allowStructConstructors |-> TRUE,
    errors |-> <<>>, parts |-> <<>>, work |-> <<>> ]

(***************************************************************************)
(* Looking ahead.  The last token has kind End and is never consumed.      *)
(***************************************************************************)
peek(s) == s.tokens[s.current].kind
isAtEnd(s) == peek(s) = "End"
checkNext(s, kinds) ==
  s.current + 1 \in DOMAIN s.tokens /\ s.tokens[s.current + 1].kind \in kinds
checkContextualIdentifier(s, lexeme) ==
  peek(s) = "Identifier" /\ s.tokens[s.current].lexeme = lexeme
advance(s) == IF isAtEnd(s) THEN s ELSE [s EXCEPT !.current = @ + 1]

KindAt(s, i) == IF i \in DOMAIN s.tokens THEN s.tokens[i].kind ELSE "None"
CountKind(s, from, to, kind) == Cardinality({i \in from..to : KindAt(s, i) = kind})

\* The `<` at i is closed by a `>` with this kind behind it.
ClosedBefore(s, i, kind) ==
  LET closing == {j \in i..Len(s.tokens) :
                    /\ KindAt(s, j) = ">"
                    /\ CountKind(s, i, j, "<") = CountKind(s, i, j, ">")}
  IN  /\ KindAt(s, i) = "<"
      /\ closing # {}
      /\ KindAt(s, Min(closing) + 1) = kind

isExplicitTypeArgumentCall(s, callee) ==
  /\ callee.class \in {"VariableExpr", "FieldAccessExpr"}
  /\ peek(s) = "<"
  /\ s.tokens[s.current].tight
  /\ ClosedBefore(s, s.current, "(")

isStructConstructorStart(s) ==
  /\ peek(s) = "Identifier"
  /\ checkNext(s, {"{"}) \/ ClosedBefore(s, s.current + 1, "{")

Qualified(s) ==
  /\ peek(s) = "Identifier"
  /\ checkNext(s, {"."})
  /\ KindAt(s, s.current + 2) = "Identifier"

isQualifiedStructConstructorStart(s) ==
  Qualified(s) /\ (KindAt(s, s.current + 3) = "{" \/ ClosedBefore(s, s.current + 3, "{"))

isQualifiedRecordPatternStart(s) == Qualified(s) /\ KindAt(s, s.current + 3) = "{"

Holds(condition, s) ==
  CASE condition.on = "is" -> peek(s) \in condition.kinds
    [] condition.on = "isNot" -> peek(s) \notin condition.kinds
    [] condition.on = "isBefore" -> peek(s) = condition.kind /\ checkNext(s, condition.next)
    [] condition.on = "isNotBefore" ->
         peek(s) = condition.kind /\ ~checkNext(s, condition.next)
    [] condition.on = "word" -> checkContextualIdentifier(s, condition.lexeme)
    [] condition.on = "wordBefore" ->
         checkContextualIdentifier(s, condition.lexeme) /\ checkNext(s, condition.next)
    [] condition.on = "typeArguments" ->
         isExplicitTypeArgumentCall(s, s.parts[Len(s.parts)])
    [] condition.on = "constructor" ->
         s.allowStructConstructors /\ isStructConstructorStart(s)
    [] condition.on = "qualifiedConstructor" ->
         s.allowStructConstructors /\ isQualifiedStructConstructorStart(s)
    [] condition.on = "qualifiedRecord" -> isQualifiedRecordPatternStart(s)
    [] condition.on = "otherwise" -> TRUE

(***************************************************************************)
(* Recovery: where parsing goes on after an error.                         *)
(***************************************************************************)
FirstAfter(s, places) ==
  Min({i \in s.current..Len(s.tokens) : KindAt(s, i) = "End" \/ i \in places})

\* How many of these brackets are open at place i; one that closes nothing counts 0.
RECURSIVE Open(_, _, _, _)
Open(s, i, open, close) ==
  IF i = s.current THEN 0
  ELSE LET before == Open(s, i - 1, open, close)
       IN  CASE KindAt(s, i - 1) = open -> before + 1
             [] KindAt(s, i - 1) = close /\ before > 0 -> before - 1
             [] OTHER -> before

StatementStarts ==
  {"let", "fun", "enum", "struct", "impl", "import", "export", "print", "if", "match",
   "while", "for", "break", "continue", "return", "{"}

synchronize(s, stopAtRightBrace) ==
  LET from == IF peek(s) = ";" THEN advance(s) ELSE s
      stop == {i \in DOMAIN s.tokens : KindAt(s, i) \in StatementStarts \cup {"}"}}
      found == [from EXCEPT !.current = FirstAfter(from, stop)]
  IN  IF peek(found) = "}" /\ ~stopAtRightBrace THEN advance(found) ELSE found

synchronizeImplMethod(s) ==
  [s EXCEPT !.current = FirstAfter(s, {i \in s.current..Len(s.tokens) :
     KindAt(s, i) \in {"}", "fun", "operator"} /\ Open(s, i, "{", "}") = 0})]

synchronizeDelimitedMember(s) ==
  [s EXCEPT !.current = FirstAfter(s, {i \in s.current..Len(s.tokens) :
     /\ KindAt(s, i) \in {",", "}"}
     /\ Open(s, i, "(", ")") = 0 /\ Open(s, i, "[", "]") = 0 /\ Open(s, i, "<", ">") = 0})]

Resume(s, how) ==
  CASE how = "top" -> synchronize(s, FALSE)
    [] how = "block" -> synchronize(s, TRUE)
    [] how = "method" -> synchronizeImplMethod(s)
    [] how = "member" -> synchronizeDelimitedMember(s)

(***************************************************************************)
(* Nodes whose class depends on what has been parsed already.              *)
(***************************************************************************)
buildAssignmentTarget(target, op, value) ==
  LET compound == op.lexeme # "="
      made(plain, other) ==
        NodeOf(IF compound THEN other ELSE plain, target.parts \o <<op, value>>)
  IN  CASE target.class = "VariableExpr" -> made("AssignExpr", "CompoundAssignExpr")
        [] target.class = "IndexExpr" -> made("IndexAssignExpr", "IndexCompoundAssignExpr")
        [] target.class = "FieldAccessExpr" -> made("FieldAssignExpr", "FieldCompoundAssignExpr")
        [] OTHER -> Nothing

CallOf(callee, types, arguments, paren) ==
  IF callee.class = "FieldAccessExpr"
  THEN NodeOf("MemberCallExpr", callee.parts \o <<paren, types, arguments>>)
  ELSE NodeOf("CallExpr", <<callee, paren, types, arguments>>)

(***************************************************************************)
(* Calls in progress: what is left to do when their block has ended, with  *)
(* the parts that were kept before it.                                     *)
(***************************************************************************)
EndRule(s) == [op |-> "endRule", parts |-> s.parts]
EndGroup(class, s) == [op |-> "endGroup", class |-> class, parts |-> s.parts]
LeaveBlock == [op |-> "leaveBlock"]
LeaveCondition(s) == [op |-> "leaveCondition", allow |-> s.allowStructConstructors]
EndRecovering(how, s) ==
  [ op |-> "endRecovering", resume |-> how, parts |-> s.parts, blockDepth |-> s.blockDepth,
    allow |-> s.allowStructConstructors ]

Put(part, parts, s) == [s EXCEPT !.parts = Append(parts, part)]
KeepNode(parts, s) == Put(s.parts[Len(s.parts)], parts, s)
TokenBefore(s) == TokenAt(s.current - 1, s.tokens[s.current - 1].lexeme)
KeepToken(s) == Put(TokenBefore(s), s.parts, s)
Then(block, s) == [s EXCEPT !.work = block \o @]
Inside(block, end, s) == [Then(Append(block, end), s) EXCEPT !.parts = <<>>]

\* Seeded fault: the guard comes too late for an error.
UnwoundLate(s, frame) == [s EXCEPT !.allowStructConstructors = frame.allow]

\* The guard of a declaration or method restores both switches; a list of members has
\* none, and only the conditions an error leaves allow constructors again.
Unwound(s, frame) ==
  [s EXCEPT !.blockDepth = IF frame.resume = "member" THEN @ ELSE frame.blockDepth,
            !.allowStructConstructors = frame.allow]

\* An error ends every call up to the innermost one that recovers.
Throw(s, place) ==
  LET at == Min({i \in DOMAIN s.work : s.work[i].op = "endRecovering"})
      frame == s.work[at]
  IN  Resume([Unwound(s, frame) EXCEPT !.errors = Append(@, place), !.parts = frame.parts,
                                      !.work = SubSeq(@, at + 1, Len(@))], frame.resume)

(***************************************************************************)
(* Running instructions.                                                   *)
(***************************************************************************)
\* The first branch whose condition holds, 0 if none does.
FirstOf(branches) == IF branches = {} THEN 0 ELSE Min(branches)
Chosen(branches, s) == FirstOf({i \in DOMAIN branches : Holds(branches[i].when, s)})

\* Branch k of a loop, then the loop again.
Again(i, s, k) == IF k = 0 THEN s ELSE Then(Append(i.branches[k].block, i), s)

Assigned(s, node) ==
  IF node = Nothing THEN Throw(s, s.parts[2].at) ELSE [s EXCEPT !.parts = <<node>>]

Do(i, s) ==
  CASE i.op = "take" -> IF peek(s) \in i.kinds THEN advance(s) ELSE Throw(s, s.current)
    [] i.op = "keep" -> IF peek(s) \in i.kinds THEN KeepToken(advance(s)) ELSE Throw(s, s.current)
    [] i.op = "previous" -> KeepToken(s)
    [] i.op = "absent" -> Put(Nothing, s.parts, s)
    [] i.op = "fail" -> Throw(s, s.current - i.back)
    [] i.op = "topLevelOnly" -> IF s.blockDepth # 0 THEN Throw(s, s.current - 1) ELSE s
    [] i.op = "make" -> [s EXCEPT !.parts = <<NodeOf(i.class, @)>>]
    [] i.op = "makeCall" -> [s EXCEPT !.parts = <<CallOf(@[1], @[2], @[3], @[4])>>]
    [] i.op = "makeAssignment" ->
         Assigned(s, buildAssignmentTarget(s.parts[1], s.parts[2], s.parts[3]))
    [] i.op = "choose" -> Then(i.branches[Chosen(i.branches, s)].block, s)
    [] i.op = "repeat" -> Again(i, s, Chosen(i.branches, s))
    [] i.op = "parse" -> Inside(Rules[i.rule], EndRule(s), s)
    [] i.op = "endRule" -> KeepNode(i.parts, s)
    [] i.op = "group" -> Inside(i.block, EndGroup(i.class, s), s)
    [] i.op = "endGroup" -> Put(NodeOf(i.class, s.parts), i.parts, s)
    [] i.op = "deeper" -> Then(Append(i.block, LeaveBlock), [s EXCEPT !.blockDepth = @ + 1])
    [] i.op = "leaveBlock" -> [s EXCEPT !.blockDepth = @ - 1]
    [] i.op = "noConstructors" ->
         Then(Append(i.block, LeaveCondition(s)), [s EXCEPT !.allowStructConstructors = FALSE])
    [] i.op = "leaveCondition" -> [s EXCEPT !.allowStructConstructors = i.allow]
    [] i.op = "recovering" -> Inside(Rules[i.rule], EndRecovering(i.resume, s), s)
    [] i.op = "endRecovering" -> Unwound(KeepNode(i.parts, s), i)

Step(s) == Do(Head(s.work), [s EXCEPT !.work = Tail(@)])

\* The next `count` steps while there is work, the first half before the second.
RECURSIVE Steps(_, _)
Steps(s, count) ==
  CASE s.work = <<>> -> s
    [] s.work # <<>> /\ count = 1 -> Step(s)
    [] OTHER -> Steps(Steps(s, count \div 2), count - count \div 2)

RECURSIVE Run(_)
Run(s) == IF s.work = <<>> THEN s ELSE Run(Steps(s, 512))

\* One iteration of `Parser::parse`.
parseTopLevel(s) == Run(Then(<<Recovering("declaration", "top")>>, s))
=============================================================================
