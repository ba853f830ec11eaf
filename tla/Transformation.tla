-------------------------- MODULE Transformation ---------------------------
(***************************************************************************)
(* syntax_tree::transform_node_iter of lab3-1: the concrete tree that the  *)
(* parser has built, made into the abstract syntax tree that CminusBuilder *)
(* visits.  A concrete tree is given by the nodes of SyntaxAnalyzer, and   *)
(* the class of an abstract node is told by its field `node'.              *)
(***************************************************************************)
EXTENDS Integers, Sequences, SequencesExt, TLC

CONSTANT stoi  \* std::stoi, from numerals to numbers

Absent == [node |-> "nullptr"]

\* The instruction CminusBuilder emits for each operator.
Opcode ==
    "<=" :> "icmp_sle" @@ "<" :> "icmp_slt" @@ ">" :> "icmp_sgt" @@ ">=" :> "icmp_sge" @@
    "==" :> "icmp_eq" @@ "!=" :> "icmp_ne" @@ "+" :> "add" @@ "-" :> "sub" @@
    "*" :> "mul" @@ "/" :> "sdiv"

RECURSIVE Items(_, _, _), Transform(_, _)

\* The elements of a left-recursive list: the last child of each node on the
\* way down its first children, as long as a node has `width' children, and
\* the one child where a list that may not be empty begins.  The code pushes
\* them from the last to the first and pops them into a vector.

\* Slip: they get into the vector in the order they are met.
ItemsReversed(nodes, list, width) ==
    LET children == nodes[list].children
    IN  IF Len(children) = width
          THEN <<children[width]>> \o Items(nodes, children[1], width)
        ELSE IF nodes[list].name \in {"declaration-list", "param-list", "arg-list"}
          THEN <<children[1]>>
        ELSE <<>>
Items(nodes, list, width) ==
    LET children == nodes[list].children
    IN  IF Len(children) = width
          THEN Append(Items(nodes, children[1], width), children[width])
        ELSE IF nodes[list].name \in {"declaration-list", "param-list", "arg-list"}
          THEN <<children[1]>>
        ELSE <<>>

\* Their abstract nodes.
Each(nodes, list, width) ==
    LET items == Items(nodes, list, width)
    IN  [j \in DOMAIN items |-> Transform(nodes, items[j])]

\* Child j of node n: its abstract node, its text, its own first child.
Child(nodes, n, j) == Transform(nodes, nodes[n].children[j])
Text(nodes, n, j) == nodes[nodes[n].children[j]].name
FirstOf(nodes, n, j) == nodes[nodes[n].children[j]].children[1]
Size(nodes, n) == Len(nodes[n].children)

\* The operator of a node with two operands.
Operator(nodes, n) == Opcode[nodes[FirstOf(nodes, n, 2)].name]

Number(text) == [node |-> "num", value |-> stoi[text]]

\* program, declarations and parameters.  type-specifier matters for
\* functions only: a variable is an int whatever is written.
TransformDeclaration(nodes, n) ==
    LET name == nodes[n].name
        params == FirstOf(nodes, n, 4)
        type == nodes[FirstOf(nodes, n, 1)].name
    IN  CASE name = "program" ->
               [node |-> "program", declarations |-> Each(nodes, nodes[n].children[1], 2)]
          [] name = "var-declaration" ->
               [node |-> "var_declaration", id |-> Text(nodes, n, 2),
                num |-> IF Size(nodes, n) = 6 THEN Number(Text(nodes, n, 4)) ELSE Absent]
          [] name = "fun-declaration" ->
               [node |-> "fun_declaration", type |-> IF type = "int" THEN "int" ELSE "void",
                id |-> Text(nodes, n, 2),
                params |-> IF nodes[params].children = <<>> THEN <<>> ELSE Each(nodes, params, 3),
                compound_stmt |-> Child(nodes, n, 6)]
          [] name = "param" ->
               [node |-> "param", id |-> Text(nodes, n, 2), isarray |-> Size(nodes, n) = 3]

TransformStatement(nodes, n) ==
    LET name == nodes[n].name
        ChildIf(size, j) == IF Size(nodes, n) = size THEN Child(nodes, n, j) ELSE Absent
    IN  CASE name = "compound-stmt" ->
               [node |-> "compound_stmt",
                local_declarations |-> Each(nodes, nodes[n].children[2], 2),
                statement_list |-> Each(nodes, nodes[n].children[3], 2)]
          [] name = "expression-stmt" ->
               [node |-> "expresion_stmt", expression |-> ChildIf(2, 1)]
          [] name = "selection-stmt" ->
               [node |-> "selection_stmt", expression |-> Child(nodes, n, 3),
                if_statement |-> Child(nodes, n, 5), else_statement |-> ChildIf(7, 7)]
          [] name = "iteration-stmt" ->
               [node |-> "iteration_stmt", expression |-> Child(nodes, n, 3),
                statement |-> Child(nodes, n, 5)]
          [] name = "return-stmt" ->
               [node |-> "return_stmt", expression |-> ChildIf(3, 2)]

\* A simple expression, a sum or a term: one operand, or two and an operator.
TransformOperator(nodes, n) ==
    LET name == nodes[n].name
        both == Size(nodes, n) = 3
        op == IF both THEN Operator(nodes, n) ELSE "none"
        l == Child(nodes, n, 1)
        r == Child(nodes, n, 3)
    IN  CASE name = "simple-expression" ->
               [node |-> "simple_expression", additive_expression_l |-> l, op |-> op,
                additive_expression_r |-> IF both THEN r ELSE Absent]
          [] name = "additive-expression" ->
               [node |-> "additive_expression", op |-> op,
                additive_expression |-> IF both THEN l ELSE Absent,
                term |-> IF both THEN r ELSE l]
          [] name = "term" ->
               [node |-> "term", term |-> IF both THEN l ELSE Absent, op |-> op,
                factor |-> IF both THEN r ELSE l]

\* A simple expression is its own child; an assignment has a class of its own.
TransformExpression(nodes, n) ==
    CASE nodes[n].name = "expression" ->
           IF Size(nodes, n) = 1 THEN Child(nodes, n, 1)
           ELSE [node |-> "assign_expression", var |-> Child(nodes, n, 1),
                 expression |-> Child(nodes, n, 3)]
      [] nodes[n].name = "var" ->
           [node |-> "var", id |-> Text(nodes, n, 1),
            expression |-> IF Size(nodes, n) = 4 THEN Child(nodes, n, 3) ELSE Absent]

\* The child of a factor that matters: the second one between parentheses.
FactorIndex(nodes, n) == IF Size(nodes, n) = 3 THEN 2 ELSE 1

TransformFactor(nodes, n) ==
    LET args == FirstOf(nodes, n, 3)
        text == Text(nodes, n, FactorIndex(nodes, n))
    IN  CASE nodes[n].name = "factor" ->
               IF text \in {"expression", "var", "call"}
                 THEN Child(nodes, n, FactorIndex(nodes, n)) ELSE Number(text)
          [] nodes[n].name = "call" ->
               [node |-> "call", id |-> Text(nodes, n, 1),
                args |-> IF nodes[args].name = "arg-list" THEN Each(nodes, args, 3) ELSE <<>>]

Transform(nodes, n) ==
    LET name == nodes[n].name
    IN  CASE name \in {"declaration", "statement"} -> Child(nodes, n, 1)
          [] name \in {"program", "var-declaration", "fun-declaration", "param"} ->
               TransformDeclaration(nodes, n)
          [] name \in {"compound-stmt", "expression-stmt", "selection-stmt",
                       "iteration-stmt", "return-stmt"} -> TransformStatement(nodes, n)
          [] name \in {"simple-expression", "additive-expression", "term"} ->
               TransformOperator(nodes, n)
          [] name \in {"expression", "var"} -> TransformExpression(nodes, n)
          [] name \in {"factor", "call"} -> TransformFactor(nodes, n)
=============================================================================
