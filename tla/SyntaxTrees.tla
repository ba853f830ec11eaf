---------------------------- MODULE SyntaxTrees ----------------------------
(***************************************************************************)
(* What SyntaxAnalyzer keeps true of the tree while it is being built, of  *)
(* what is printed, and of the abstract syntax tree that lab3-1 makes of a *)
(* finished tree.                                                          *)
(***************************************************************************)
EXTENDS TreeMemory, CminusText, PrintedTrees

\* The texts of the leaves of each node, from left to right.
Leaves ==
    LET leaves[n \in DOMAIN nodes] ==
            IF nodes[n].children # <<>>
              THEN FlattenSeq([j \in DOMAIN nodes[n].children |-> leaves[nodes[n].children[j]]])
            ELSE IF nodes[n].name = "epsilon" THEN <<>>
            ELSE <<nodes[n].name>>
    IN  leaves

Texts(tokens) ==
    [j \in DOMAIN tokens |->
        IF tokens[j].type \in Named THEN tokens[j].text ELSE Lexeme[tokens[j].type]]

ReadSoFar == SubSeq(batch[file], 1, Len(batch[file]) - Len(input))

\* The leaves of the trees on the stack are the tokens that have been read,
\* all of them and in their order: no action forgets a token or puts its
\* children in another order.
NothingLost ==
    pc = "parse" =>
        Texts(ReadSoFar) =
        FlattenSeq([j \in DOMAIN stack |->
            IF stack[j].node = 0 THEN <<stack[j].text>> ELSE Leaves[stack[j].node]])

\* Whether a statement ends in an if that an else after it would belong to.
EndsOpen ==
    LET open[n \in DOMAIN nodes] ==
            LET children == nodes[n].children
            IN  CASE nodes[n].name = "statement" -> open[children[1]]
                  [] nodes[n].name \in {"selection-stmt", "iteration-stmt"} ->
                       \/ nodes[n].name = "selection-stmt" /\ Len(children) = 5
                       \/ open[Last(children)]
                  [] OTHER -> FALSE
    IN  open

\* No selection-stmt with an else has one without before its else.
NearestElse ==
    \A n \in live :
        nodes[n].name = "selection-stmt" /\ Len(nodes[n].children) = 7
            => ~EndsOpen[nodes[n].children[5]]

\* The abstract tree of a program says what the program says: written down
\* again it is the file it was read from, so that parsing and transforming
\* keep the order of lists, the nesting of operators and every part, and an
\* else, which both an outer and an inner if could have had, is the inner's.
TransformKeepsProgram ==
    pc = "print" /\ verdicts[file] = "accepted" =>
        /\ NearestElse
        /\ Texts(Write(Transform(nodes, root))) = Texts(batch[file])

\* What syntax_tree_printer prints for the tree tells all of it but the types
\* of functions (docs/design.md:166: it prints the transformed tree): the
\* depth is back where it was after each node, so that every line stands
\* under the line of its parent, and no two forms of a node look the same.
PrintedTreeTellsProgram ==
    pc = "print" /\ verdicts[file] = "accepted" =>
        LET tree == Transform(nodes, root) IN ReadAgain(Printed(tree)) = Untyped(tree)

\* An output file holds the tree of its input if there is one, and nothing
\* otherwise, as the output files of the tests lab2_SHOULD_FAIL_* do
\* (lab2_syntax_analyzer/TA_syntree).
OutputIsTheTree ==
    \A f \in DOMAIN outputs : outputs[f] # Nullptr <=> verdicts[f] = "accepted"

\* Whatever the files are and whatever goes wrong, the driver comes to an end.
BatchEnds == <>(pc \in {"done", "exit", "undefined"})
=============================================================================
