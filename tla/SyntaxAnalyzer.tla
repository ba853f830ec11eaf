-------------------------- MODULE SyntaxAnalyzer ---------------------------
(***************************************************************************)
(* The batch driver of lab 2 (syntax and syntax_main in                    *)
(* lab2_syntax_analyzer/syntax_analyzer.y), the parser it calls, and the   *)
(* nodes both make and delete (syntax_tree/SyntaxTree.c).                  *)
(*                                                                         *)
(* A file is the sequence of tokens yylex returns for it.  A node is known *)
(* by its place in `nodes', which also remembers what a node was after it  *)
(* has been freed; `live' holds the nodes that are allocated.              *)
(***************************************************************************)
EXTENDS Grammar, FiniteSets

CONSTANTS
    Batches,  \* the sequences of files the driver may find
    Openings  \* what may happen when the files are opened

\* A file is a sequence of tokens; a token is no nonterminal of the grammar
\* and not the end of the input.
ASSUME BatchesAssumption ==
    \A b \in Batches :
        /\ b \in Seq(Range(b))
        /\ \A f \in DOMAIN b :
              /\ b[f] \in Seq(Range(b[f]))
              /\ \A j \in DOMAIN b[f] : b[f][j].type \notin Nonterminals \cup {"$end"}

ASSUME OpeningsAssumption == Openings \subseteq {"opened", "no input", "no output"}

VARIABLES
    batch,    \* filename, the files of this run of syntax_main
    file,     \* i, the number of files that have been begun
    pc,       \* where the driver is
    input,    \* the tokens yylex has not returned yet
    stack,    \* the parser's stack
    nodes,    \* for each node ever made, its name and children
    live,     \* the nodes that have not been freed
    root,     \* gt->root
    trees,    \* the number of SyntaxTree structures that are allocated
    strings,  \* the number of texts from strdup that are allocated
    verdicts, \* what yyparse has answered for each file, if it was called
    outputs   \* the root of the tree printed for each file

parser == <<input, stack>>
heap == <<nodes, live, root, trees, strings>>
vars == <<batch, file, pc, parser, heap, verdicts, outputs>>

\* gt->root: a null pointer, and what malloc leaves in memory it hands out.
Nullptr == 0
Wild == -1

-----------------------------------------------------------------------------
(* The node library.                                                       *)

\* All nodes that deleteSyntaxTreeNode(node, 1) reaches.
Below(node) ==
    LET below[n \in DOMAIN nodes] == {n} \cup UNION {below[c] : c \in Range(nodes[n].children)}
    IN  below[node]

\* Slip: only the node itself is freed.
FreedNoRecur(node) == {node}
Freed(node) == Below(node)

-----------------------------------------------------------------------------
(* The parser.  An entry of its stack is a grammar symbol, the state after *)
(* it, and its value: the node of a nonterminal or the text of a token.    *)

StateAfter(entries) == IF entries = <<>> THEN StartState ELSE Last(entries).state
State == StateAfter(stack)
Lookahead == IF input = <<>> THEN "$end" ELSE Head(input).type
Answered(verdict) == verdicts' = [verdicts EXCEPT ![file] = verdict]

Entry(symbol, state, node, text) ==
    [symbol |-> symbol, state |-> state, node |-> node, text |-> text]

\* The tokens whose text comes from strdup.
Named == {"IDENTIFIER", "NUMBER"}
CountNamed(entries) == Cardinality({j \in DOMAIN entries : entries[j].symbol \in Named})

Shift ==
    LET token == Head(input)
    IN  /\ pc = "parse"
        /\ input # <<>>
        /\ Shifts(State, token.type)
        /\ input' = Tail(input)
        /\ stack' = Append(stack, Entry(token.type, GoTo(State, token.type), 0,
                        IF token.type \in Named THEN token.text ELSE Lexeme[token.type]))
        /\ strings' = strings + (IF token.type \in Named THEN 1 ELSE 0)
        /\ UNCHANGED <<batch, file, pc, nodes, live, root, trees, verdicts, outputs>>

Popped(r) == Len(Rules[r].rhs)

\* The entries that are tokens: an action makes a leaf for each of them, and
\* numbers the leaves in the order of their places.
TokenPlaces(entries) == {j \in DOMAIN entries : entries[j].node = 0}
Rank(entries, j) == Cardinality({k \in TokenPlaces(entries) : k <= j})

TextsOf(entries) ==
    IF entries = <<>> THEN <<"epsilon">>
    ELSE [k \in 1..Cardinality(TokenPlaces(entries)) |->
            entries[CHOOSE j \in TokenPlaces(entries) : Rank(entries, j) = k].text]

\* The places that an action hands to SyntaxTreeNode_AddChild: written by hand
\* in each of them, and in each of them all, in their order.
\* Slips, in one action only: the declaration of an array adds the leaf of its
\* name again for the one of its number; a list of arguments loses the last.
IsArrayDeclaration(entries) == Len(entries) = 6 /\ entries[4].symbol = "NUMBER"
IsArgList(entries) == Len(entries) = 3 /\ entries[2].symbol = "COMMA" /\ entries[1].symbol = "arg-list"
AdoptedTwice(entries) ==
    [j \in DOMAIN entries |-> IF j = 4 /\ IsArrayDeclaration(entries) THEN 2 ELSE j]
AdoptedButLast(entries) == [j \in 1..(IF IsArgList(entries) THEN 2 ELSE Len(entries)) |-> j]
Adopted(entries) == [j \in DOMAIN entries |-> j]

ChildrenOf(entries, fresh) ==
    IF entries = <<>> THEN <<Len(nodes) + 1>>
    ELSE [k \in DOMAIN Adopted(entries) |->
            LET j == Adopted(entries)[k]
            IN  IF entries[j].node # 0 THEN entries[j].node ELSE Len(nodes) + Rank(entries, j)]

\* The texts an action frees, once their leaves hold them.
\* Slip: the declaration of an array frees one of its two texts twice.
TextsFreedTwice(entries) ==
    CountNamed(entries) + (IF IsArrayDeclaration(entries) THEN 1 ELSE 0)
TextsFreed(entries) == CountNamed(entries)

Reduce ==
    LET r == Reduction(State, Lookahead)
        below == SubSeq(stack, 1, Len(stack) - Popped(r))
        entries == SubSeq(stack, Len(stack) - Len(Rules[r].rhs) + 1, Len(stack))
        texts == TextsOf(entries)
        node == Len(nodes) + Len(texts) + 1
    IN  /\ pc = "parse"
        /\ ~Shifts(State, Lookahead)
        /\ Reductions(State) # {}
        /\ stack' = Append(below, Entry(Rules[r].lhs, GoTo(StateAfter(below), Rules[r].lhs), node, ""))
        /\ nodes' = nodes \o [j \in DOMAIN texts |-> [name |-> texts[j], children |-> <<>>]]
                    \o <<[name |-> Rules[r].lhs, children |-> ChildrenOf(entries, texts)]>>
        /\ live' = live \cup Len(nodes) + 1 .. node
        /\ root' = IF Rules[r].lhs = "program" THEN node ELSE root
        /\ strings' = strings - TextsFreed(entries)
        /\ UNCHANGED <<batch, file, pc, input, trees, verdicts, outputs>>

\* Where the driver goes when yyparse returns: on, whatever the answer.
\* Slip: yyparse is called again for what is left of a rejected file.
OnceParsedAgain(verdict) == IF verdict = "rejected" THEN "parse" ELSE "print"
OnceParsed(verdict) == "print"

\* The end of the input where a program may end: yyparse returns 0.
Accept ==
    /\ pc = "parse"
    /\ input = <<>>
    /\ Shifts(State, "$end")
    /\ Answered("accepted")
    /\ stack' = <<>>
    /\ pc' = OnceParsed("accepted")
    /\ UNCHANGED <<batch, file, input, heap, outputs>>

\* yyerror is called and yyparse returns 1; what the stack holds is dropped,
\* and so is the text of a token that has been read and not shifted.
SyntaxError ==
    /\ pc = "parse"
    /\ ~Shifts(State, Lookahead)
    /\ Reductions(State) = {}
    /\ Answered("rejected")
    /\ stack' = <<>>
    /\ strings' = strings + (IF Lookahead \in Named THEN 1 ELSE 0)
    /\ pc' = OnceParsed("rejected")
    /\ UNCHANGED <<batch, file, input, nodes, live, root, trees, outputs>>

-----------------------------------------------------------------------------
(* The driver.                                                             *)

Init ==
    /\ batch \in Batches
    /\ file = 0
    /\ pc = "next"
    /\ input = <<>>
    /\ stack = <<>>
    /\ nodes = <<>>
    /\ live = {}
    /\ root = Nullptr
    /\ trees = 0
    /\ strings = 0
    /\ verdicts = [f \in DOMAIN batch |-> "unread"]
    /\ outputs = <<>>

\* What yylex returns after yyrestart(yyin): the tokens of the file alone.
\* Slip: nobody calls it, and flex first goes through what a rejected file
\* has left in its buffer behind the token at which it was rejected.
NotRestarted(text) == (IF input = <<>> THEN <<>> ELSE Tail(input)) \o text
Restarted(text) == text

\* syntax(): a new tree whose root nobody has set, then the two files.  The
\* process ends when the input cannot be opened; when the output cannot,
\* the function returns at once.
Open ==
    /\ pc = "next"
    /\ file < Len(batch)
    /\ file' = file + 1
    /\ trees' = trees + 1
    /\ root' \in {Nullptr, Wild}
    /\ \E opening \in Openings :
        \/ /\ opening = "no input"
           /\ pc' = "exit"
           /\ UNCHANGED <<input, outputs>>
        \/ /\ opening = "no output"
           /\ pc' = "next"
           /\ outputs' = Append(outputs, Nullptr)
           /\ UNCHANGED input
        \/ /\ opening = "opened"
           /\ pc' = "parse"
           /\ input' = Restarted(batch[file'])
           /\ UNCHANGED outputs
    /\ UNCHANGED <<batch, stack, nodes, live, strings, verdicts>>

\* printSyntaxTree and deleteSyntaxTree.
PrintTree ==
    /\ pc = "print"
    /\ root # Wild
    /\ outputs' = Append(outputs, root)
    /\ live' = IF root = Nullptr THEN live ELSE live \ Freed(root)
    /\ trees' = trees - 1
    /\ root' = Nullptr
    /\ pc' = "next"
    /\ UNCHANGED <<batch, file, parser, nodes, strings, verdicts>>

\* The same on a pointer that points nowhere: after that nothing is known.
PrintWildTree ==
    /\ pc = "print"
    /\ root = Wild
    /\ outputs' = Append(outputs, Wild)
    /\ pc' = "undefined"
    /\ UNCHANGED <<batch, file, parser, heap, verdicts>>

\* syntax_main returns; after that, after exit, and after undefined
\* behaviour, the model takes no step that changes anything.
Return ==
    /\ pc = "next"
    /\ file = Len(batch)
    /\ pc' = "done"
    /\ UNCHANGED <<batch, file, parser, heap, verdicts, outputs>>

Ended == pc \in {"done", "exit", "undefined"} /\ UNCHANGED vars

Parse == Shift \/ Reduce \/ Accept \/ SyntaxError
Next == Open \/ Parse \/ PrintTree \/ PrintWildTree \/ Return \/ Ended

Spec == Init /\ [][Next]_vars
FairSpec == Spec /\ WF_vars(Next)
=============================================================================
