------------------------------ MODULE Grammar ------------------------------
(***************************************************************************)
(* The grammar of C-minus in lab2_syntax_analyzer/syntax_analyzer.y, rule  *)
(* by rule, and the LR automaton bison makes of it.                        *)
(*                                                                         *)
(* A rule needs no action of its own here, because all actions of the      *)
(* grammar do the same: they make a node named after the left-hand side,   *)
(* whose children are, for each symbol of the right-hand side, the node of *)
(* a nonterminal or a new leaf with the text of a token; an empty          *)
(* right-hand side has one leaf "epsilon".                                 *)
(***************************************************************************)
EXTENDS Integers, Sequences, SequencesExt, TLC

Rule(lhs, rhs) == [lhs |-> lhs, rhs |-> rhs]

DeclarationRules == <<
    Rule("program", <<"declaration-list">>),
    Rule("declaration-list", <<"declaration-list", "declaration">>),
    Rule("declaration-list", <<"declaration">>),
    Rule("declaration", <<"var-declaration">>),
    Rule("declaration", <<"fun-declaration">>),
    Rule("var-declaration", <<"type-specifier", "IDENTIFIER", "SEMICOLON">>),
    Rule("var-declaration", <<"type-specifier", "IDENTIFIER", "LBRACKET", "NUMBER",
                              "RBRACKET", "SEMICOLON">>),
    Rule("type-specifier", <<"INT">>),
    Rule("type-specifier", <<"VOID">>),
    Rule("fun-declaration", <<"type-specifier", "IDENTIFIER", "LPARENTHESE", "params",
                              "RPARENTHESE", "compound-stmt">>),
    Rule("params", <<"param-list">>),
    Rule("params", <<"VOID">>),
    Rule("param-list", <<"param-list", "COMMA", "param">>),
    Rule("param-list", <<"param">>),
    Rule("param", <<"type-specifier", "IDENTIFIER">>),
    Rule("param", <<"type-specifier", "IDENTIFIER", "ARRAY">>) >>

StatementRules == <<
    Rule("compound-stmt", <<"LBRACE", "local-declarations", "statement-list", "RBRACE">>),
    Rule("local-declarations", <<"local-declarations", "var-declaration">>),
    Rule("local-declarations", <<>>),
    Rule("statement-list", <<"statement-list", "statement">>),
    Rule("statement-list", <<>>),
    Rule("statement", <<"expression-stmt">>),
    Rule("statement", <<"compound-stmt">>),
    Rule("statement", <<"selection-stmt">>),
    Rule("statement", <<"iteration-stmt">>),
    Rule("statement", <<"return-stmt">>),
    Rule("expression-stmt", <<"expression", "SEMICOLON">>),
    Rule("expression-stmt", <<"SEMICOLON">>),
    Rule("selection-stmt", <<"IF", "LPARENTHESE", "expression", "RPARENTHESE", "statement">>),
    Rule("selection-stmt", <<"IF", "LPARENTHESE", "expression", "RPARENTHESE", "statement",
                             "ELSE", "statement">>),
    Rule("iteration-stmt", <<"WHILE", "LPARENTHESE", "expression", "RPARENTHESE",
                             "statement">>),
    Rule("return-stmt", <<"RETURN", "SEMICOLON">>),
    Rule("return-stmt", <<"RETURN", "expression", "SEMICOLON">>) >>

\* Rules that give one nonterminal one symbol each.
Alternatives(lhs, symbols) == [j \in DOMAIN symbols |-> Rule(lhs, <<symbols[j]>>)]

ExpressionRules == <<
    Rule("expression", <<"var", "ASSIN", "expression">>),
    Rule("expression", <<"simple-expression">>),
    Rule("var", <<"IDENTIFIER">>),
    Rule("var", <<"IDENTIFIER", "LBRACKET", "expression", "RBRACKET">>),
    Rule("simple-expression", <<"additive-expression", "relop", "additive-expression">>),
    Rule("simple-expression", <<"additive-expression">>) >>
    \o Alternatives("relop", <<"LTE", "LT", "GT", "GTE", "EQ", "NEQ">>) \o <<
    Rule("additive-expression", <<"additive-expression", "addop", "term">>),
    Rule("additive-expression", <<"term">>) >>
    \o Alternatives("addop", <<"ADD", "SUB">>) \o <<
    Rule("term", <<"term", "mulop", "factor">>),
    Rule("term", <<"factor">>) >>
    \o Alternatives("mulop", <<"MUL", "DIV">>) \o <<
    Rule("factor", <<"LPARENTHESE", "expression", "RPARENTHESE">>) >>
    \o Alternatives("factor", <<"var", "call", "NUMBER">>)

CallRules == <<
    Rule("call", <<"IDENTIFIER", "LPARENTHESE", "args", "RPARENTHESE">>),
    Rule("args", <<"arg-list">>),
    Rule("args", <<>>),
    Rule("arg-list", <<"arg-list", "COMMA", "expression">>),
    Rule("arg-list", <<"expression">>) >>

\* bison puts a rule for the start symbol and the end of the input first.
Rules == <<Rule("$accept", <<"program", "$end">>)>>
         \o DeclarationRules \o StatementRules \o ExpressionRules \o CallRules

Nonterminals == {Rules[r].lhs : r \in DOMAIN Rules}

\* The text the actions give to the leaf of a token that has only one.
Lexeme ==
    "INT" :> "int" @@ "VOID" :> "void" @@ "IF" :> "if" @@ "ELSE" :> "else" @@
    "WHILE" :> "while" @@ "RETURN" :> "return" @@ "SEMICOLON" :> ";" @@ "COMMA" :> "," @@
    "ASSIN" :> "=" @@ "ARRAY" :> "[]" @@ "LPARENTHESE" :> "(" @@ "RPARENTHESE" :> ")" @@
    "LBRACKET" :> "[" @@ "RBRACKET" :> "]" @@ "LBRACE" :> "{" @@ "RBRACE" :> "}" @@
    "LTE" :> "<=" @@ "LT" :> "<" @@ "GT" :> ">" @@ "GTE" :> ">=" @@ "EQ" :> "==" @@
    "NEQ" :> "!=" @@ "ADD" :> "+" @@ "SUB" :> "-" @@ "MUL" :> "*" @@ "DIV" :> "/"

-----------------------------------------------------------------------------
(* The automaton.  An item <<r, d>> says that the first d symbols of the   *)
(* right-hand side of rule r have been read; a state is known by its       *)
(* kernel, the items with something before the dot.                        *)

Item(r, d) == [rule |-> r, dot |-> d]
IsComplete(item) == item.dot = Len(Rules[item.rule].rhs)
Expects(item, symbol) == ~IsComplete(item) /\ Rules[item.rule].rhs[item.dot + 1] = symbol

\* The items a state has because a symbol is expected in it: those of the
\* nonterminals that a derivation of the symbol may begin with.
Begins == {<<Rules[r].lhs, Head(Rules[r].rhs)>> : r \in {r \in DOMAIN Rules : Rules[r].rhs # <<>>}}

\* A pair of the relation, or two in a row.
Longer(pairs) ==
    pairs \cup UNION {{<<p[1], q[2]>> : q \in {q \in pairs : q[1] = p[2]}} : p \in pairs}
Corners == Longer(Longer(Longer(Longer(Begins))))

Symbols == Nonterminals \cup UNION {Range(Rules[r].rhs) : r \in DOMAIN Rules}

Expanded ==
    [symbol \in Symbols |->
        {Item(r, 0) : r \in {r \in DOMAIN Rules :
                               Rules[r].lhs = symbol \/ <<symbol, Rules[r].lhs>> \in Corners}}]

Closure(kernel) ==
    kernel \cup UNION {Expanded[Rules[i.rule].rhs[i.dot + 1]] :
                         i \in {i \in kernel : ~IsComplete(i)}}

\* The state after reading a symbol in a state; empty if it cannot be read.
GoTo(kernel, symbol) ==
    {Item(i.rule, i.dot + 1) : i \in {i \in Closure(kernel) : Expects(i, symbol)}}

StartState == {Item(1, 0)}

\* The rules whose right-hand side ends here.
Reductions(kernel) == {i.rule : i \in {i \in Closure(kernel) : IsComplete(i)}}

\* Bison shifts the next token whenever the state allows it: that is how
\* the precedence of ELSE over "then" settles the dangling else.
\* Slip: %nonassoc ELSE stands before "then".
ShiftsThenFirst(kernel, token) ==
    GoTo(kernel, token) # {} /\ (token = "ELSE" => Reductions(kernel) = {})
Shifts(kernel, token) == GoTo(kernel, token) # {}

\* Otherwise it reduces.  The first of the reductions of a state is its
\* default, taken whatever the next token is; another is taken when its
\* left-hand side can be followed by that token.
Adjacent ==
    UNION {{<<Rules[r].rhs[d], Rules[r].rhs[d + 1]>> : d \in 1..Len(Rules[r].rhs) - 1} :
             r \in DOMAIN Rules}

Reduction(kernel, token) ==
    LET fitting == {r \in Reductions(kernel) : <<Rules[r].lhs, token>> \in Adjacent}
        first(S) == CHOOSE r \in S : \A q \in S : r <= q
    IN  IF fitting = {} THEN first(Reductions(kernel)) ELSE first(fitting)
=============================================================================
