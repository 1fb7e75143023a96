------------------------------ MODULE Grammar ------------------------------
(***************************************************************************)
(* The syntax of the language: what each function of Parser.cpp reads, in  *)
(* which order, on which condition, and the node it makes.  A rule is a    *)
(* sequence of instructions for the interpreter of Parser.tla; it has the  *)
(* name of the function it stands for.  A rule works on a list of parts:   *)
(* tokens and nodes it has kept, of which it makes its node.               *)
(***************************************************************************)
EXTENDS Sequences

\* Kinds of tokens: keywords and punctuation are their own kind.
Words == {"let", "fun", "enum", "struct", "impl", "import", "export", "print", "if",
          "else", "match", "while", "for", "in", "break", "continue", "return",
          "true", "false", "nil", "as", "operator", "private"}
Operators == {"=", "==", "=>", "!", "!=", "<", "<=", ">", ">=", "+", "+=", "-", "-=",
              "*", "*=", "/", "/=", "&&", "||", "|", "?"}
Brackets == {"(", ")", "[", "]", "{", "}"}
Punctuation == Operators \cup Brackets \cup {",", ".", ":", ";"}
Literals == {"Number", "String", "true", "false", "nil"}

(***************************************************************************)
(* Conditions on the tokens ahead.                                         *)
(***************************************************************************)
Is(kind) == [on |-> "is", kinds |-> {kind}]
IsOneOf(kinds) == [on |-> "is", kinds |-> kinds]
IsNoneOf(kinds) == [on |-> "isNot", kinds |-> kinds]
IsBefore(kind, next) == [on |-> "isBefore", kind |-> kind, next |-> next]
IsNotBefore(kind, next) == [on |-> "isNotBefore", kind |-> kind, next |-> next]
IsWord(lexeme) == [on |-> "word", lexeme |-> lexeme]
IsWordBefore(lexeme, next) == [on |-> "wordBefore", lexeme |-> lexeme, next |-> next]
StartsTypeArguments == [on |-> "typeArguments"]
StartsConstructor == [on |-> "constructor"]
StartsQualifiedConstructor == [on |-> "qualifiedConstructor"]
StartsQualifiedRecord == [on |-> "qualifiedRecord"]
Otherwise == [on |-> "otherwise"]

(***************************************************************************)
(* Instructions.  Take drops the token it consumes, Keep adds it to the    *)
(* parts; Previous adds the token consumed last; Absent adds the part of   *)
(* an option not taken; Group makes one node of the parts the block adds;  *)
(* Make makes one node of all parts so far.                                *)
(***************************************************************************)
Take(kind) == [op |-> "take", kinds |-> {kind}]
Keep(kind) == [op |-> "keep", kinds |-> {kind}]
KeepOneOf(kinds) == [op |-> "keep", kinds |-> kinds]
Previous == [op |-> "previous"]
Absent == [op |-> "absent"]
Parse(rule) == [op |-> "parse", rule |-> rule]
FailHere == [op |-> "fail", back |-> 0]
FailBefore == [op |-> "fail", back |-> 1]
TopLevelOnly == [op |-> "topLevelOnly"]
Make(class) == [op |-> "make", class |-> class]
MakeCall == [op |-> "makeCall"]
MakeAssignment == [op |-> "makeAssignment"]
Group(class, block) == [op |-> "group", class |-> class, block |-> block]
Choose(branches) == [op |-> "choose", branches |-> branches]
Repeat(branches) == [op |-> "repeat", branches |-> branches]
Deeper(block) == [op |-> "deeper", block |-> block]
NoConstructors(block) == [op |-> "noConstructors", block |-> block]
Recovering(rule, resume) == [op |-> "recovering", rule |-> rule, resume |-> resume]

When(condition, block) == [when |-> condition, block |-> block]
If(condition, block) == Choose(<<When(condition, block), When(Otherwise, <<>>)>>)
Optionally(condition, block) ==
  Choose(<<When(condition, block), When(Otherwise, <<Absent>>)>>)
While(condition, block) == Repeat(<<When(condition, block)>>)
ListOf(block) == Group("List", block)
Separated(separator, block) ==
  block \o <<While(Is(separator), <<Take(separator)>> \o block)>>
ListUntil(close, block) == ListOf(<<If(IsNoneOf({close}), Separated(",", block))>>)

(***************************************************************************)
(* Declarations.                                                           *)
(***************************************************************************)
declaration ==
  <<Choose(<<
      When(Is("export"), <<Take("export"), TopLevelOnly, Parse("exportDeclaration")>>),
      When(Is("import"), <<Take("import"), TopLevelOnly, Parse("importDeclaration")>>),
      When(Is("struct"), <<Take("struct"), Parse("structDeclaration")>>),
      When(Is("enum"), <<Take("enum"), Parse("enumDeclaration")>>),
      When(Is("impl"), <<Take("impl"), TopLevelOnly, Parse("implDeclaration")>>),
      When(IsBefore("fun", {"Identifier"}), <<Take("fun"), Parse("functionDeclaration")>>),
      When(IsNotBefore("fun", {"(", "<"}), <<Take("fun"), FailHere>>),
      When(Is("let"), <<Take("let"), Parse("letDeclaration")>>),
      When(Otherwise, <<Parse("statement")>>)>>)>>

exportDeclaration ==
  <<Previous, ListOf(Separated(",", <<Keep("Identifier")>>)),
    Choose(<<When(IsWord("from"), <<Take("Identifier"), Keep("String")>>),
             When(Otherwise, <<Absent>>)>>),
    Take(";"), Make("ExportStmt")>>

importDeclaration ==
  <<Previous, Keep("String"),
    Optionally(Is("as"), <<Take("as"), Keep("Identifier")>>),
    Take(";"), Make("ImportStmt")>>

structDeclaration ==
  <<Keep("Identifier"), Parse("typeParameters"), Take("{"), Parse("structFields"),
    Take("}"), Make("StructDeclStmt")>>

structFields ==
  LET field == Recovering("structField", "member")
  IN  <<ListOf(<<If(IsNoneOf({"}"}), Separated(",", <<field>>))>>)>>

structField ==
  <<Optionally(Is("private"), <<Keep("private")>>), Keep("Identifier"), Take(":"),
    Parse("typeAnnotation"), Make("StructFieldDecl")>>

enumDeclaration ==
  <<Keep("Identifier"), Parse("typeParameters"), Take("{"), Parse("enumVariants"),
    Take("}"), Make("EnumDeclStmt")>>

\* A comma may follow the last variant, but not the last field of a struct.
enumVariants ==
  LET variant == Recovering("enumVariant", "member")
  IN  <<ListOf(<<If(IsNoneOf({"}"}),
          <<variant, While(Is(","), <<Take(","), If(IsNoneOf({"}"}), <<variant>>)>>)>>)>>)>>

enumVariant ==
  LET payload == Group("Payload", <<Parse("payloadName"), Parse("typeAnnotation")>>)
  IN  <<Keep("Identifier"),
        Choose(<<When(Is("("), <<Take("("), ListUntil(")", <<payload>>), Take(")")>>),
                 When(Otherwise, <<ListOf(<<>>)>>)>>),
        Make("EnumVariantDecl")>>

payloadName ==
  <<Optionally(IsBefore("Identifier", {":"}), <<Keep("Identifier"), Take(":")>>)>>

implDeclaration ==
  <<Keep("Identifier"), Parse("typeParameters"), Take("{"),
    ListOf(<<While(IsNoneOf({"}", "End"}),
                   <<Recovering("methodDeclaration", "method")>>)>>),
    Take("}"), Make("ImplStmt")>>

methodDeclaration ==
  <<Choose(<<
      When(Is("operator"),
           <<Keep("operator"), KeepOneOf({"<", "<=", ">", ">="}), ListOf(<<>>)>>),
      When(Otherwise,
           <<Take("fun"), Absent, Keep("Identifier"), Parse("typeParameters")>>)>>),
    Take("("), Parse("parameters"), Take(")"), Parse("optionalReturnType"), Take("{"),
    Deeper(<<Parse("blockStatements")>>), Make("MethodDecl")>>

functionDeclaration ==
  <<Keep("Identifier"), Parse("typeParameters"), Take("("), Parse("parameters"), Take(")"),
    Parse("optionalReturnType"), Take("{"), Deeper(<<Parse("blockStatements")>>),
    Make("FunctionStmt")>>

parameters == <<ListUntil(")", <<Parse("parameter")>>)>>

parameter == <<Keep("Identifier"), Parse("optionalReturnType"), Make("Parameter")>>

optionalReturnType == <<Optionally(Is(":"), <<Take(":"), Parse("typeAnnotation")>>)>>

typeParameters ==
  LET constraints == ListOf(<<If(Is(":"),
                       <<Take(":")>> \o Separated("+", <<Parse("typeAnnotation")>>))>>)
      one == Group("TypeParameter", <<Keep("Identifier"), constraints>>)
  IN  <<ListOf(<<If(Is("<"), <<Take("<")>> \o Separated(",", <<one>>) \o <<Take(">")>>)>>)>>

letDeclarationNoSemicolon ==
  <<Keep("Identifier"), Parse("optionalReturnType"), Take("="), Parse("expression"),
    Make("LetStmt")>>

letDeclaration == letDeclarationNoSemicolon \o <<Take(";")>>

(***************************************************************************)
(* Types.                                                                  *)
(***************************************************************************)
typeArgumentList ==
  <<Take("<"), If(Is(">"), <<FailHere>>),
    ListOf(Separated(",", <<Parse("typeAnnotation")>>)), Take(">")>>

namedType ==
  LET arguments == Choose(<<When(Is("<"), typeArgumentList),
                            When(Otherwise, <<ListOf(<<>>)>>)>>)
  IN  <<Keep("Identifier"),
        Choose(<<When(Is("."),
                      <<Take("."), Keep("Identifier"), arguments, Make("QualifiedType")>>),
                 When(Otherwise, <<arguments, Make("SimpleType")>>)>>)>>

typeAnnotation ==
  <<Choose(<<
      When(Is("["), <<Keep("["), Parse("typeAnnotation"), Take("]"), Make("ArrayType")>>),
      When(IsWordBefore("map", {"<"}),
           <<Keep("Identifier"), Take("<"), Parse("typeAnnotation"), Take(","),
             Parse("typeAnnotation"), Take(">"), Make("MapType")>>),
      When(IsWordBefore("optional", {"<"}),
           <<Keep("Identifier"), Take("<"), If(Is(">"), <<FailHere>>),
             Parse("typeAnnotation"), Take(">"), Make("NullableType")>>),
      When(Is("fun"),
           <<Keep("fun"), Take("("), Parse("typeArguments"), Take(")"), Take(":"),
             Parse("typeAnnotation"), Make("FunctionType")>>),
      When(Otherwise, namedType)>>),
    If(Is("?"), <<Take("?"), FailBefore>>)>>

typeArguments == <<ListUntil(")", <<Parse("typeAnnotation")>>)>>

(***************************************************************************)
(* Statements.                                                             *)
(***************************************************************************)
statement ==
  LET after(kind, rule) == When(Is(kind), <<Take(kind), Parse(rule)>>)
  IN  <<Choose(<<after("print", "printStatement"), after("if", "ifStatement"),
                 after("match", "matchStatement"), after("for", "forStatement"),
                 after("while", "whileStatement"), after("break", "breakStatement"),
                 after("continue", "continueStatement"), after("return", "returnStatement"),
                 after("{", "blockStatement"),
                 When(Otherwise, <<Parse("expressionStatement")>>)>>)>>

body == <<Take("{"), Parse("blockStatement")>>

ifStatement ==
  <<Parse("conditionExpression")>> \o body
    \o <<Optionally(Is("else"), <<Take("else")>> \o body), Make("IfStmt")>>

armGuard == Optionally(Is("if"), <<Take("if"), Parse("conditionExpression")>>)

matchStatement ==
  LET arm == <<Parse("pattern"), armGuard, Take("=>")>> \o body
  IN  <<Parse("conditionExpression"), Take("{"),
        ListOf(<<While(IsNoneOf({"}", "End"}), <<Group("MatchArm", arm)>>)>>),
        Take("}"), Make("MatchStmt")>>

forInitializer ==
  <<Choose(<<When(Is(";"), <<Absent>>),
             When(Is("let"), <<Take("let"), Parse("letDeclarationNoSemicolon")>>),
             When(Otherwise, <<Parse("expressionStatementNoSemicolon")>>)>>)>>

forInStatement == <<Parse("conditionExpression")>> \o body \o <<Make("ForInStmt")>>

forStatement ==
  <<Previous, If(Is("in"), <<FailHere>>),
    Choose(<<
      When(IsBefore("Identifier", {"in"}),
           <<Keep("Identifier"), Take("in")>> \o forInStatement),
      When(Otherwise,
           <<Parse("forInitializer"), Take(";"),
             Optionally(IsNoneOf({";"}), <<Parse("expression")>>), Take(";"),
             Optionally(IsNoneOf({"{"}), <<Parse("expression")>>)>>
           \o body \o <<Make("ForStmt")>>)>>)>>

whileStatement == <<Parse("conditionExpression")>> \o body \o <<Make("WhileStmt")>>

breakStatement == <<Previous, Take(";"), Make("BreakStmt")>>

continueStatement == <<Previous, Take(";"), Make("ContinueStmt")>>

blockStatement == <<Previous, Deeper(<<Parse("blockStatements")>>), Make("BlockStmt")>>

blockStatements ==
  <<ListOf(<<While(IsNoneOf({"}", "End"}), <<Recovering("declaration", "block")>>)>>),
    Take("}")>>

printStatement == <<Parse("expression"), Take(";"), Make("PrintStmt")>>

returnStatement ==
  <<Previous, Optionally(IsNoneOf({";"}), <<Parse("expression")>>), Take(";"),
    Make("ReturnStmt")>>

expressionStatementNoSemicolon == <<Parse("expression"), Make("ExpressionStmt")>>

expressionStatement == <<Parse("expressionStatementNoSemicolon"), Take(";")>>

(***************************************************************************)
(* Expressions.  A binary operator takes what stands to its left as its    *)
(* first part, so operators of one level associate to the left.            *)
(***************************************************************************)
expression == <<Parse("assignment")>>

conditionExpression == <<NoConstructors(<<Parse("expression")>>)>>

Compound == {"+=", "-=", "*=", "/="}

assignment ==
  <<Parse("logicalOr"),
    If(IsOneOf({"="} \cup Compound),
       <<KeepOneOf({"="} \cup Compound), Parse("assignment"), MakeAssignment>>)>>

LeftAssociative(operand, operators, class) ==
  <<Parse(operand),
    While(IsOneOf(operators), <<KeepOneOf(operators), Parse(operand), Make(class)>>)>>

logicalOr == LeftAssociative("logicalAnd", {"||"}, "LogicalExpr")
logicalAnd == LeftAssociative("equality", {"&&"}, "LogicalExpr")
equality == LeftAssociative("comparison", {"!=", "=="}, "BinaryExpr")
comparison == LeftAssociative("term", {">", ">=", "<", "<="}, "BinaryExpr")
term == LeftAssociative("factor", {"-", "+"}, "BinaryExpr")
factor == LeftAssociative("unary", {"/", "*"}, "BinaryExpr")

unary ==
  <<Choose(<<When(IsOneOf({"!", "-"}),
                  <<KeepOneOf({"!", "-"}), Parse("unary"), Make("UnaryExpr")>>),
             When(Otherwise, <<Parse("call")>>)>>)>>

finishCall == <<ListUntil(")", <<Parse("expression")>>), Keep(")"), MakeCall>>
finishIndex == <<Keep("["), Parse("expression"), Take("]"), Make("IndexExpr")>>
finishFieldAccess == <<Take("."), Keep("Identifier"), Make("FieldAccessExpr")>>
explicitTypeArguments == typeArgumentList

call ==
  <<Parse("primary"),
    Repeat(<<
      When(StartsTypeArguments, explicitTypeArguments \o <<Take("(")>> \o finishCall),
      When(Is("("), <<Take("("), ListOf(<<>>)>> \o finishCall),
      When(Is("["), finishIndex),
      When(Is("."), finishFieldAccess)>>)>>

arrayLiteral ==
  <<Previous, ListUntil("]", <<Parse("expression")>>), Take("]"), Make("ArrayExpr")>>

mapLiteral ==
  LET entry == Group("MapEntry", <<Parse("expression"), Keep(":"), Parse("expression")>>)
  IN  <<Previous, ListUntil("}", <<entry>>), Take("}"), Make("MapExpr")>>

structLiteralFields ==
  LET field == Group("StructField", <<Keep("Identifier"), Take(":"), Parse("expression")>>)
  IN  ListUntil("}", <<field>>)

constructorTail ==
  <<Choose(<<When(Is("<"), explicitTypeArguments), When(Otherwise, <<ListOf(<<>>)>>)>>),
    Take("{"), structLiteralFields, Take("}"), Make("StructConstructExpr")>>

structConstructor == <<Absent, Keep("Identifier")>> \o constructorTail

qualifiedStructConstructor ==
  <<Keep("Identifier"), Take("."), Keep("Identifier")>> \o constructorTail

functionExpression ==
  <<Previous, Parse("typeParameters"), Take("("), Parse("parameters"), Take(")"),
    Parse("optionalReturnType"), Take("{"), Deeper(<<Parse("blockStatements")>>),
    Make("FunctionExpr")>>

primary ==
  <<Choose(<<
      When(Is("fun"), <<Take("fun"), Parse("functionExpression")>>),
      When(Is("match"), <<Take("match"), Parse("matchExpression")>>),
      When(IsOneOf(Literals), <<KeepOneOf(Literals), Make("LiteralExpr")>>),
      When(Is("["), <<Take("["), Parse("arrayLiteral")>>),
      When(Is("{"), <<Take("{"), Parse("mapLiteral")>>),
      When(StartsQualifiedConstructor, <<Parse("qualifiedStructConstructor")>>),
      When(StartsConstructor, <<Parse("structConstructor")>>),
      When(Is("Identifier"), <<Keep("Identifier"), Make("VariableExpr")>>),
      When(Is("("), <<Keep("("), Parse("expression"), Take(")"), Make("GroupingExpr")>>),
      When(Otherwise, <<FailHere>>)>>)>>

matchExpression ==
  LET arm == <<Parse("pattern"), armGuard, Keep("=>"), Parse("expression")>>
      comma == Choose(<<When(Is(","), <<Take(",")>>), When(Is("}"), <<>>),
                        When(Otherwise, <<FailHere>>)>>)
  IN  <<Previous, Parse("conditionExpression"), Take("{"),
        ListOf(<<While(IsNoneOf({"}", "End"}), <<Group("MatchExprArm", arm), comma>>)>>),
        Take("}"), Make("MatchExpr")>>

(***************************************************************************)
(* Patterns.                                                               *)
(***************************************************************************)
pattern ==
  <<Parse("patternAtom"),
    If(Is("|"),
       <<Keep("|"), ListOf(Separated("|", <<Parse("patternAtom")>>)), Make("OrPattern")>>)>>

recordPattern ==
  LET field == Group("RecordPatternField",
                     <<Keep("Identifier"), Take(":"), Parse("pattern")>>)
  IN  <<Take("{"), ListUntil("}", <<field>>), Take("}"), Make("RecordPattern")>>

variantPattern ==
  LET argument == Group("Payload", <<Parse("payloadName"), Parse("pattern")>>)
  IN  <<Choose(<<When(Is("("), <<Take("("), ListUntil(")", <<argument>>), Take(")")>>),
                 When(Otherwise, <<ListOf(<<>>)>>)>>),
        Make("VariantPattern")>>

patternAtom ==
  LET qualified == <<Keep("Identifier"), Take("."), Keep("Identifier")>>
  IN  <<Choose(<<
          When(IsBefore("Identifier", {"{"}), <<Absent, Keep("Identifier")>> \o recordPattern),
          When(StartsQualifiedRecord, qualified \o recordPattern),
          When(IsOneOf(Literals), <<KeepOneOf(Literals), Make("LiteralPattern")>>),
          When(IsBefore("Identifier", {"."}),
               qualified \o <<Optionally(Is("."), <<Take("."), Keep("Identifier")>>)>>
                 \o variantPattern),
          When(IsWord("_"), <<Keep("Identifier"), Make("WildcardPattern")>>),
          When(Otherwise, <<Keep("Identifier"), Make("VariablePattern")>>)>>)>>

(***************************************************************************)
(* The rules by name, for Parse and Recovering.                            *)
(***************************************************************************)
Rules == [
  arrayLiteral |-> arrayLiteral, assignment |-> assignment,
  blockStatement |-> blockStatement, blockStatements |-> blockStatements,
  breakStatement |-> breakStatement, call |-> call, comparison |-> comparison,
  conditionExpression |-> conditionExpression, continueStatement |-> continueStatement,
  declaration |-> declaration, enumDeclaration |-> enumDeclaration,
  enumVariant |-> enumVariant, enumVariants |-> enumVariants, equality |-> equality,
  exportDeclaration |-> exportDeclaration, expression |-> expression,
  expressionStatement |-> expressionStatement,
  expressionStatementNoSemicolon |-> expressionStatementNoSemicolon, factor |-> factor,
  forInitializer |-> forInitializer, forStatement |-> forStatement,
  functionDeclaration |-> functionDeclaration,
  functionExpression |-> functionExpression, ifStatement |-> ifStatement,
  implDeclaration |-> implDeclaration, importDeclaration |-> importDeclaration,
  letDeclaration |-> letDeclaration,
  letDeclarationNoSemicolon |-> letDeclarationNoSemicolon, logicalAnd |-> logicalAnd,
  logicalOr |-> logicalOr, mapLiteral |-> mapLiteral,
  matchExpression |-> matchExpression, matchStatement |-> matchStatement,
  methodDeclaration |-> methodDeclaration, optionalReturnType |-> optionalReturnType,
  parameter |-> parameter, parameters |-> parameters, pattern |-> pattern,
  patternAtom |-> patternAtom, payloadName |-> payloadName, primary |-> primary,
  printStatement |-> printStatement,
  qualifiedStructConstructor |-> qualifiedStructConstructor,
  returnStatement |-> returnStatement, statement |-> statement,
  structConstructor |-> structConstructor, structDeclaration |-> structDeclaration,
  structField |-> structField, structFields |-> structFields, term |-> term,
  typeAnnotation |-> typeAnnotation, typeArguments |-> typeArguments,
  typeParameters |-> typeParameters, unary |-> unary,
  whileStatement |-> whileStatement]
=============================================================================
