----------------------------- MODULE CminusText ----------------------------
(***************************************************************************)
(* An abstract syntax tree written down as the tokens of C-minus: the      *)
(* inverse of parsing and transforming it.  Parentheses stand where the    *)
(* tree has a whole expression for a factor.                               *)
(***************************************************************************)
EXTENDS Transformation

Token(type) == [type |-> type, text |-> ""]
Name(x) == [type |-> "IDENTIFIER", text |-> x]
Numeral(n) == [type |-> "NUMBER", text |-> CHOOSE t \in DOMAIN stoi : stoi[t] = n]
Tokens(types) == [j \in DOMAIN types |-> Token(types[j])]

\* The elements of a sequence of token sequences, with commas between them.
Listed(parts) ==
    FlattenSeq([j \in DOMAIN parts |->
                  IF j = 1 THEN parts[j] ELSE <<Token("COMMA")>> \o parts[j]])

TokenOf ==
    "icmp_sle" :> "LTE" @@ "icmp_slt" :> "LT" @@ "icmp_sgt" :> "GT" @@ "icmp_sge" :> "GTE" @@
    "icmp_eq" :> "EQ" @@ "icmp_ne" :> "NEQ" @@ "add" :> "ADD" @@ "sub" :> "SUB" @@
    "mul" :> "MUL" @@ "sdiv" :> "DIV" @@ "int" :> "INT" @@ "void" :> "VOID"

RECURSIVE Write(_)

WriteAll(trees) == [j \in DOMAIN trees |-> Write(trees[j])]

\* Two operands around an operator, or one of them.
Infix(l, op, r) ==
    CASE l = Absent -> Write(r)
      [] r = Absent -> Write(l)
      [] OTHER -> Write(l) \o <<Token(TokenOf[op])>> \o Write(r)

Parenthesized(tree) == <<Token("LPARENTHESE")>> \o Write(tree) \o <<Token("RPARENTHESE")>>

WriteFactor(f) ==
    IF f.node \in {"simple_expression", "assign_expression"} THEN Parenthesized(f) ELSE Write(f)

WriteDeclaration(d) ==
    CASE d.node = "var_declaration" ->
           <<Token("INT"), Name(d.id)>>
           \o (IF d.num = Absent THEN <<>>
               ELSE <<Token("LBRACKET"), Numeral(d.num.value), Token("RBRACKET")>>)
           \o <<Token("SEMICOLON")>>
      [] d.node = "param" ->
           <<Token("INT"), Name(d.id)>> \o (IF d.isarray THEN <<Token("ARRAY")>> ELSE <<>>)
      [] d.node = "fun_declaration" ->
           <<Token(TokenOf[d.type]), Name(d.id), Token("LPARENTHESE")>>
           \o (IF d.params = <<>> THEN <<Token("VOID")>> ELSE Listed(WriteAll(d.params)))
           \o <<Token("RPARENTHESE")>> \o Write(d.compound_stmt)

WriteStatement(s) ==
    CASE s.node = "compound_stmt" ->
           <<Token("LBRACE")>> \o FlattenSeq(WriteAll(s.local_declarations \o s.statement_list))
           \o <<Token("RBRACE")>>
      [] s.node = "expresion_stmt" -> Write(s.expression) \o <<Token("SEMICOLON")>>
      [] s.node = "selection_stmt" ->
           <<Token("IF")>> \o Parenthesized(s.expression) \o Write(s.if_statement)
           \o (IF s.else_statement = Absent THEN <<>>
               ELSE <<Token("ELSE")>> \o Write(s.else_statement))
      [] s.node = "iteration_stmt" ->
           <<Token("WHILE")>> \o Parenthesized(s.expression) \o Write(s.statement)
      [] s.node = "return_stmt" ->
           <<Token("RETURN")>> \o Write(s.expression) \o <<Token("SEMICOLON")>>

WriteExpression(e) ==
    CASE e.node = "assign_expression" ->
           Write(e.var) \o <<Token("ASSIN")>> \o Write(e.expression)
      [] e.node = "simple_expression" ->
           Infix(e.additive_expression_l, e.op, e.additive_expression_r)
      [] e.node = "additive_expression" -> Infix(e.additive_expression, e.op, e.term)
      [] e.node = "term" ->
           (IF e.term = Absent THEN <<>> ELSE Write(e.term) \o <<Token(TokenOf[e.op])>>)
           \o WriteFactor(e.factor)
      [] e.node = "num" -> <<Numeral(e.value)>>
      [] e.node = "var" ->
           <<Name(e.id)>>
           \o (IF e.expression = Absent THEN <<>>
               ELSE <<Token("LBRACKET")>> \o Write(e.expression) \o <<Token("RBRACKET")>>)
      [] e.node = "call" ->
           <<Name(e.id), Token("LPARENTHESE")>> \o Listed(WriteAll(e.args))
           \o <<Token("RPARENTHESE")>>

Write(tree) ==
    CASE tree = Absent -> <<>>
      [] tree.node = "program" -> FlattenSeq(WriteAll(tree.declarations))
      [] tree.node \in {"var_declaration", "param", "fun_declaration"} -> WriteDeclaration(tree)
      [] tree.node \in {"compound_stmt", "expresion_stmt", "selection_stmt",
                        "iteration_stmt", "return_stmt"} -> WriteStatement(tree)
      [] OTHER -> WriteExpression(tree)
=============================================================================
