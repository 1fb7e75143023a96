-------------------------------- MODULE Ast --------------------------------
(***************************************************************************)
(* Syntax trees (Ast.hpp, Ast.cpp): the classes of nodes with their        *)
(* fields, the dump of a tree, the part of the source it covers and the    *)
(* numbers of its nodes.  A token in a tree is its place among the tokens  *)
(* of the source; an option not taken is the part Nothing.                 *)
(***************************************************************************)
EXTENDS Integers, Sequences, FiniteSetsExt, TLC

TokenAt(i, lexeme) == [class |-> "Token", at |-> i, lexeme |-> lexeme, parts |-> <<>>]
NodeOf(class, parts) == [class |-> class, at |-> 0, lexeme |-> "", parts |-> parts]
Nothing == NodeOf("Nothing", <<>>)

(***************************************************************************)
(* The fields of each class, in the order of its constructor.              *)
(***************************************************************************)
TypeFields ==
  [ SimpleType |-> <<"token", "typeArguments">>,
    QualifiedType |-> <<"qualifier", "token", "typeArguments">>,
    FunctionType |-> <<"token", "parameterTypes", "returnType">>,
    ArrayType |-> <<"bracket", "elementType">>,
    MapType |-> <<"token", "keyType", "valueType">>,
    NullableType |-> <<"token", "innerType">> ]

ParameterFields ==
  [ TypeParameter |-> <<"name", "constraints">>,
    Parameter |-> <<"name", "typeName">> ]

VariableFields ==
  [ LiteralExpr |-> <<"value">>,
    VariableExpr |-> <<"name">>,
    AssignExpr |-> <<"name", "op", "value">>,
    CompoundAssignExpr |-> <<"name", "op", "value">>,
    IndexAssignExpr |-> <<"collection", "bracket", "index", "op", "value">>,
    IndexCompoundAssignExpr |-> <<"collection", "bracket", "index", "op", "value">> ]

OperatorFields ==
  [ UnaryExpr |-> <<"op", "right">>,
    BinaryExpr |-> <<"left", "op", "right">>,
    LogicalExpr |-> <<"left", "op", "right">>,
    GroupingExpr |-> <<"paren", "expression">> ]

CompositeFields ==
  [ CallExpr |-> <<"callee", "paren", "typeArguments", "arguments">>,
    MemberCallExpr |-> <<"receiver", "name", "paren", "typeArguments", "arguments">>,
    ArrayExpr |-> <<"bracket", "elements">>,
    MapExpr |-> <<"brace", "entries">>,
    MapEntry |-> <<"key", "colon", "value">>,
    StructConstructExpr |-> <<"qualifier", "name", "typeArguments", "fields">>,
    StructField |-> <<"name", "value">> ]

AccessFields ==
  [ IndexExpr |-> <<"collection", "bracket", "index">>,
    FieldAccessExpr |-> <<"object", "name">>,
    FieldAssignExpr |-> <<"object", "name", "op", "value">>,
    FieldCompoundAssignExpr |-> <<"object", "name", "op", "value">> ]

BlockExprFields ==
  [ FunctionExpr |->
      <<"keyword", "typeParameters", "parameters", "returnTypeName", "body">>,
    MatchExpr |-> <<"keyword", "value", "arms">>,
    MatchExprArm |-> <<"pattern", "guard", "arrow", "value">> ]

PatternFields ==
  [ WildcardPattern |-> <<"name">>,
    VariablePattern |-> <<"name">>,
    LiteralPattern |-> <<"value">>,
    OrPattern |-> <<"first", "pipe", "alternatives">>,
    RecordPattern |-> <<"qualifier", "name", "fields">>,
    RecordPatternField |-> <<"name", "pattern">>,
    VariantPattern |-> <<"qualifier", "name", "member", "arguments">>,
    Payload |-> <<"name", "payload">> ]

DeclarationFields ==
  [ EnumDeclStmt |-> <<"name", "typeParameters", "variants">>,
    EnumVariantDecl |-> <<"name", "payloads">>,
    MatchStmt |-> <<"value", "arms">>,
    MatchArm |-> <<"pattern", "guard", "body">>,
    StructDeclStmt |-> <<"name", "typeParameters", "fields">>,
    StructFieldDecl |-> <<"private", "name", "typeName">>,
    ImplStmt |-> <<"typeName", "typeParameters", "methods">>,
    MethodDecl |->
      <<"operator", "name", "typeParameters", "parameters", "returnTypeName", "body">>,
    ImportStmt |-> <<"keyword", "path", "alias">>,
    ExportStmt |-> <<"keyword", "names", "sourcePath">> ]

StatementFields ==
  [ LetStmt |-> <<"name", "typeName", "initializer">>,
    PrintStmt |-> <<"expression">>,
    ExpressionStmt |-> <<"expression">>,
    BlockStmt |-> <<"brace", "statements">>,
    IfStmt |-> <<"condition", "thenBranch", "elseBranch">>,
    WhileStmt |-> <<"condition", "body">> ]

FlowFields ==
  [ ForStmt |-> <<"keyword", "initializer", "condition", "increment", "body">>,
    ForInStmt |-> <<"keyword", "variable", "iterable", "body">>,
    BreakStmt |-> <<"keyword">>,
    ContinueStmt |-> <<"keyword">>,
    FunctionStmt |-> <<"name", "typeParameters", "parameters", "returnTypeName", "body">>,
    ReturnStmt |-> <<"keyword", "value">> ]

Expressions == VariableFields @@ OperatorFields @@ CompositeFields @@ AccessFields
                 @@ BlockExprFields
Fields == TypeFields @@ ParameterFields @@ Expressions @@ PatternFields
            @@ DeclarationFields @@ StatementFields @@ FlowFields

FieldOf(node, field) ==
  node.parts[CHOOSE i \in DOMAIN node.parts : Fields[node.class][i] = field]

(***************************************************************************)
(* The dump: the class of a node and what it holds, without brackets and   *)
(* keywords.  An expression left out prints as nil, like the literal; a    *)
(* statement inside a function expression is printed by writeInlineStmt,   *)
(* which has no case for `for x in` and drops the path of a re-export.     *)
(***************************************************************************)
Unprinted == {"keyword", "bracket", "brace", "paren", "colon", "arrow", "pipe"}
Bare ==
  {"LiteralExpr", "VariableExpr", "LiteralPattern", "VariablePattern", "WildcardPattern"}

RECURSIVE Dump(_, _), DumpAll(_, _)

DumpAll(nodes, inline) ==
  IF nodes = <<>> THEN <<>> ELSE Dump(Head(nodes), inline) \o DumpAll(Tail(nodes), inline)

PrintedParts(node, inline) ==
  LET fields == Fields[node.class]
      hidden == Unprinted \cup (IF inline THEN {"sourcePath"} ELSE {})
      nilWhenAbsent == node.class \in {"ReturnStmt", "ForStmt"}
      shown(i) == IF nilWhenAbsent /\ node.parts[i] = Nothing THEN TokenAt(0, "nil")
                  ELSE node.parts[i]
      kept == SelectSeq([i \in DOMAIN fields |-> i], LAMBDA i : fields[i] \notin hidden)
  IN  [k \in DOMAIN kept |-> shown(kept[k])]

Dump(node, inline) ==
  CASE node.class = "Token" -> <<node.lexeme>>
    [] node.class = "Nothing" -> <<>>
    [] node.class = "List" -> <<"[">> \o DumpAll(node.parts, inline) \o <<"]">>
    [] node.class \in Bare -> DumpAll(node.parts, inline)
    [] inline /\ node.class = "ForInStmt" -> <<"(stmt)">>
    [] OTHER -> <<"(", node.class>>
                  \o DumpAll(PrintedParts(node, inline),
                             inline \/ node.class = "FunctionExpr")
                  \o <<")">>

(***************************************************************************)
(* The tokens a node covers: its range spans the first to the last.  Type  *)
(* arguments of a call or construction and the parameter types of a        *)
(* function type are not merged, nor are `private` and `operator`.         *)
(***************************************************************************)
Unmerged ==
  [ FunctionType |-> {"parameterTypes"}, CallExpr |-> {"typeArguments"},
    MemberCallExpr |-> {"typeArguments"}, StructConstructExpr |-> {"typeArguments"},
    StructFieldDecl |-> {"private"}, MethodDecl |-> {"operator"} ]

RECURSIVE TokensCovered(_)
TokensCovered(node) ==
  IF node.class = "Token" THEN {node.at}
  ELSE LET left == IF node.class \in DOMAIN Unmerged THEN Unmerged[node.class] ELSE {}
           merged == {i \in DOMAIN node.parts :
                        node.class = "List" \/ Fields[node.class][i] \notin left}
       IN  UNION {TokensCovered(node.parts[i]) : i \in merged}

mergeRange(places) == <<Min(places), Max(places)>>
RangeOf(node) == mergeRange(TokensCovered(node))

(***************************************************************************)
(* The nodes that get a number, in the order they get it.                  *)
(***************************************************************************)
Numbered ==
  DOMAIN (Expressions @@ PatternFields @@ DeclarationFields @@ StatementFields @@ FlowFields)
    \ {"MapEntry", "StructField", "MatchExprArm", "RecordPatternField", "Payload",
       "StructFieldDecl", "EnumVariantDecl", "MatchArm"}

RECURSIVE NodesIn(_), NodesInAll(_)
NodesInAll(nodes) ==
  IF nodes = <<>> THEN <<>> ELSE NodesIn(Head(nodes)) \o NodesInAll(Tail(nodes))
NodesIn(node) ==
  (IF node.class \in Numbered THEN <<node.class>> ELSE <<>>) \o NodesInAll(node.parts)

assignSyntaxNodeIds(statements) == NodesInAll(statements)
=============================================================================
