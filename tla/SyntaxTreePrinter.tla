------------------------- MODULE SyntaxTreePrinter --------------------------
(***************************************************************************)
(* syntax_tree_printer of lab3-1, the visitor that writes an abstract      *)
(* syntax tree as an indented list.  p is the printer: its member depth,   *)
(* and the lines printed so far, each with the dashes before it and its    *)
(* words.                                                                  *)
(***************************************************************************)
EXTENDS Transformation

Symbol ==
    "icmp_sle" :> "<=" @@ "icmp_slt" :> "<" @@ "icmp_sgt" :> ">" @@ "icmp_sge" :> ">=" @@
    "icmp_eq" :> "==" @@ "icmp_ne" :> "!=" @@ "add" :> "+" @@ "sub" :> "-" @@
    "mul" :> "*" @@ "sdiv" :> "/"

PrintLine(words, p) == [p EXCEPT !.out = Append(@, [dashes |-> p.depth, words |-> words])]
add_depth(p) == [p EXCEPT !.depth = @ + 2]
remove_depth(p) == [p EXCEPT !.depth = @ - 2]

RECURSIVE Visit(_, _)

PrintAll(trees, p) == FoldLeft(LAMBDA q, tree : Visit(tree, q), p, trees)

\* A line, and the children that are not null one step to the right of it.
PrintNode(words, children, p) ==
    LET present == SelectSeq(children, LAMBDA child : child # Absent)
    IN  remove_depth(PrintAll(present, add_depth(PrintLine(words, p))))

\* A variable or its declaration.
\* Slip: the depth stays where it was for the expression in the brackets.
PrintIndexedStays(what, id, index, p) ==
    IF index = Absent THEN PrintLine(<<what, id>>, p)
    ELSE Visit(index, add_depth(PrintLine(<<what, id, "[]">>, p)))
PrintIndexed(what, id, index, p) ==
    IF index = Absent THEN PrintLine(<<what, id>>, p)
    ELSE PrintNode(<<what, id, "[]">>, <<index>>, p)

PrintDeclaration(d, p) ==
    CASE d.node = "program" -> PrintNode(<<"program">>, d.declarations, p)
      [] d.node = "var_declaration" -> PrintIndexed("var-declaration", d.id, d.num, p)
      [] d.node = "fun_declaration" ->
           PrintNode(<<"fun-declaration", d.id>>, Append(d.params, d.compound_stmt), p)
      [] d.node = "param" ->
           PrintLine(IF d.isarray THEN <<"param", d.id, "[]">> ELSE <<"param", d.id>>, p)

PrintStatement(s, p) ==
    CASE s.node = "compound_stmt" ->
           PrintNode(<<"compound-stmt">>, s.local_declarations \o s.statement_list, p)
      [] s.node = "expresion_stmt" -> PrintNode(<<"expression-stmt">>, <<s.expression>>, p)
      [] s.node = "selection_stmt" ->
           PrintNode(<<"selection-stmt">>, <<s.expression, s.if_statement, s.else_statement>>, p)
      [] s.node = "iteration_stmt" ->
           PrintNode(<<"iteration-stmt">>, <<s.expression, s.statement>>, p)
      [] s.node = "return_stmt" ->
           IF s.expression = Absent THEN PrintLine(<<"return-stmt", "void">>, p)
           ELSE PrintNode(<<"return-stmt">>, <<s.expression>>, p)

\* The operator is printed if there are two operands; one that is none of
\* the operators of the node would abort the program.
PrintOperator(what, op, l, r, p) ==
    PrintNode(IF Absent \in {l, r} THEN <<what>> ELSE <<what, Symbol[op]>>, <<l, r>>, p)

PrintExpression(e, p) ==
    CASE e.node = "assign_expression" ->
           PrintNode(<<"assign-expression">>, <<e.var, e.expression>>, p)
      [] e.node = "simple_expression" ->
           PrintOperator("simple-expression", e.op, e.additive_expression_l, e.additive_expression_r, p)
      [] e.node = "additive_expression" ->
           PrintOperator("additive-expression", e.op, e.additive_expression, e.term, p)
      [] e.node = "term" -> PrintOperator("term", e.op, e.term, e.factor, p)
      [] e.node = "num" -> PrintLine(<<"num", e.value>>, p)
      [] e.node = "var" -> PrintIndexed("var", e.id, e.expression, p)
      [] e.node = "call" -> PrintNode(<<"call", e.id>>, e.args, p)

Visit(tree, p) ==
    CASE tree.node \in {"program", "var_declaration", "fun_declaration", "param"} ->
           PrintDeclaration(tree, p)
      [] tree.node \in {"compound_stmt", "expresion_stmt", "selection_stmt", "iteration_stmt",
                        "return_stmt"} -> PrintStatement(tree, p)
      [] OTHER -> PrintExpression(tree, p)

\* What a fresh printer prints for a tree.
Printed(tree) == Visit(tree, [depth |-> 0, out |-> <<>>]).out
=============================================================================
