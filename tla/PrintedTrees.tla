---------------------------- MODULE PrintedTrees ----------------------------
(***************************************************************************)
(* The list that SyntaxTreePrinter prints, read again: the tree is told by *)
(* the dashes and words alone, except for the types of functions.          *)
(***************************************************************************)
EXTENDS SyntaxTreePrinter

\* The lines below line k that belong to it: those one step to the right of
\* it before the next line that is not to the right of it.
ChildLines(out, k) ==
    LET behind == {j \in k + 1..Len(out) : out[j].dashes <= out[k].dashes}
        end == Min(behind \cup {Len(out) + 1})
    IN  SetToSortSeq({j \in k + 1..end - 1 : out[j].dashes = out[k].dashes + 2}, <)

Part(parts, j) == IF j \in DOMAIN parts THEN parts[j] ELSE Absent

\* One operand, in its place, or two and the operator between them.
LeftOf(parts) == IF Len(parts) = 2 THEN parts[1] ELSE Absent
RightOf(parts) == Last(parts)
OperatorOf(words) == IF Len(words) = 2 THEN Opcode[words[2]] ELSE "none"

\* The tree of a line with these words and the trees of its child lines.
TreeOf(words, parts) ==
    LET what == words[1]
    IN  CASE what = "program" -> [node |-> "program", declarations |-> parts]
          [] what = "var-declaration" ->
               [node |-> "var_declaration", id |-> words[2], num |-> Part(parts, 1)]
          [] what = "fun-declaration" ->
               [node |-> "fun_declaration", type |-> "not printed", id |-> words[2],
                params |-> Front(parts), compound_stmt |-> Last(parts)]
          [] what = "param" -> [node |-> "param", id |-> words[2], isarray |-> Len(words) = 3]
          [] what = "compound-stmt" ->
               [node |-> "compound_stmt",
                local_declarations |-> SelectSeq(parts, LAMBDA t : t.node = "var_declaration"),
                statement_list |-> SelectSeq(parts, LAMBDA t : t.node # "var_declaration")]
          [] what = "expression-stmt" ->
               [node |-> "expresion_stmt", expression |-> Part(parts, 1)]
          [] what = "selection-stmt" ->
               [node |-> "selection_stmt", expression |-> parts[1], if_statement |-> parts[2],
                else_statement |-> Part(parts, 3)]
          [] what = "iteration-stmt" ->
               [node |-> "iteration_stmt", expression |-> parts[1], statement |-> parts[2]]
          [] what = "return-stmt" -> [node |-> "return_stmt", expression |-> Part(parts, 1)]
          [] what = "assign-expression" ->
               [node |-> "assign_expression", var |-> parts[1], expression |-> parts[2]]
          [] what = "simple-expression" ->
               [node |-> "simple_expression", additive_expression_l |-> parts[1],
                op |-> OperatorOf(words), additive_expression_r |-> Part(parts, 2)]
          [] what = "additive-expression" ->
               [node |-> "additive_expression", op |-> OperatorOf(words),
                additive_expression |-> LeftOf(parts), term |-> RightOf(parts)]
          [] what = "term" ->
               [node |-> "term", term |-> LeftOf(parts), op |-> OperatorOf(words),
                factor |-> RightOf(parts)]
          [] what = "num" -> [node |-> "num", value |-> words[2]]
          [] what = "var" -> [node |-> "var", id |-> words[2], expression |-> Part(parts, 1)]
          [] what = "call" -> [node |-> "call", id |-> words[2], args |-> parts]

ReadAgain(out) ==
    LET tree[k \in DOMAIN out] ==
            LET lines == ChildLines(out, k)
            IN  TreeOf(out[k].words, [j \in DOMAIN lines |-> tree[lines[j]]])
    IN  tree[1]

Untyped(program) ==
    [program EXCEPT !.declarations =
        [d \in DOMAIN @ |-> IF @[d].node = "fun_declaration"
                              THEN [@[d] EXCEPT !.type = "not printed"] ELSE @[d]]]
=============================================================================
