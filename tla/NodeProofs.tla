----------------------------- MODULE NodeProofs -----------------------------
(***************************************************************************)
(* Proofs of what TreeMemory states of the driver of lab 2, its parser and *)
(* the nodes of the trees.                                                 *)
(***************************************************************************)
EXTENDS TreeMemory

-----------------------------------------------------------------------------
(* The grammar.                                                            *)

\* What the grammar file writes on the left of its rules, and on the right.
LeftWords == {
    "program", "declaration-list", "declaration", "var-declaration", "fun-declaration",
    "type-specifier", "params", "param-list", "param", "compound-stmt",
    "local-declarations", "statement-list", "statement", "expression-stmt",
    "selection-stmt", "iteration-stmt", "return-stmt", "expression", "var",
    "simple-expression", "relop", "additive-expression", "addop", "term", "mulop",
    "factor", "call", "args", "arg-list"}

RightWords == (LeftWords \ {"program"}) \cup {
    "INT", "VOID", "IF", "ELSE", "WHILE", "RETURN", "SEMICOLON", "COMMA", "ASSIN", "ARRAY",
    "LPARENTHESE", "RPARENTHESE", "LBRACKET", "RBRACKET", "LBRACE", "RBRACE", "LTE", "LT",
    "GT", "GTE", "EQ", "NEQ", "ADD", "SUB", "MUL", "DIV", "IDENTIFIER", "NUMBER"}

\* A rule of the grammar file: nothing derives the start symbol from another.
WrittenRule(rule) == rule.lhs \in LeftWords /\ rule.rhs \in Seq(RightWords)

LEMMA WrittenRules ==
    \A lhs \in LeftWords :
        /\ WrittenRule(Rule(lhs, <<>>))
        /\ \A a \in RightWords :
            /\ WrittenRule(Rule(lhs, <<a>>))
            /\ \A b \in RightWords :
                /\ WrittenRule(Rule(lhs, <<a, b>>))
                /\ \A c \in RightWords :
                    /\ WrittenRule(Rule(lhs, <<a, b, c>>))
                    /\ \A d \in RightWords :
                        /\ WrittenRule(Rule(lhs, <<a, b, c, d>>))
                        /\ \A e \in RightWords :
                            /\ WrittenRule(Rule(lhs, <<a, b, c, d, e>>))
                            /\ \A f \in RightWords :
                                /\ WrittenRule(Rule(lhs, <<a, b, c, d, e, f>>))
                                /\ \A g \in RightWords :
                                    WrittenRule(Rule(lhs, <<a, b, c, d, e, f, g>>))
  BY DEF WrittenRule, Rule

\* The words are among them.
LEMMA WordsOfDeclarations ==
    /\ "declaration-list" \in RightWords /\ "declaration" \in RightWords
    /\ "var-declaration" \in RightWords /\ "fun-declaration" \in RightWords
    /\ "type-specifier" \in RightWords /\ "compound-stmt" \in RightWords
    /\ "params" \in RightWords /\ "param-list" \in RightWords /\ "param" \in RightWords
    /\ "IDENTIFIER" \in RightWords /\ "SEMICOLON" \in RightWords /\ "NUMBER" \in RightWords
    /\ "LBRACKET" \in RightWords /\ "RBRACKET" \in RightWords /\ "INT" \in RightWords
    /\ "VOID" \in RightWords /\ "LPARENTHESE" \in RightWords /\ "RPARENTHESE" \in RightWords
    /\ "COMMA" \in RightWords /\ "ARRAY" \in RightWords
    /\ "program" \in LeftWords /\ "declaration-list" \in LeftWords /\ "declaration" \in LeftWords
    /\ "var-declaration" \in LeftWords /\ "type-specifier" \in LeftWords /\ "fun-declaration" \in LeftWords
    /\ "params" \in LeftWords /\ "param-list" \in LeftWords /\ "param" \in LeftWords
  BY DEF LeftWords, RightWords

LEMMA WrittenDeclarations ==
    IsSeq(DeclarationRules) /\ \A rule \in Range(DeclarationRules) : WrittenRule(rule)
<1>1. WrittenRule(DeclarationRules[1])  BY WordsOfDeclarations, WrittenRules DEF DeclarationRules
<1>2. WrittenRule(DeclarationRules[2])  BY WordsOfDeclarations, WrittenRules DEF DeclarationRules
<1>3. WrittenRule(DeclarationRules[3])  BY WordsOfDeclarations, WrittenRules DEF DeclarationRules
<1>4. WrittenRule(DeclarationRules[4])  BY WordsOfDeclarations, WrittenRules DEF DeclarationRules
<1>5. WrittenRule(DeclarationRules[5])  BY WordsOfDeclarations, WrittenRules DEF DeclarationRules
<1>6. WrittenRule(DeclarationRules[6])  BY WordsOfDeclarations, WrittenRules DEF DeclarationRules
<1>7. WrittenRule(DeclarationRules[7])  BY WordsOfDeclarations, WrittenRules DEF DeclarationRules
<1>8. WrittenRule(DeclarationRules[8])  BY WordsOfDeclarations, WrittenRules DEF DeclarationRules
<1>9. WrittenRule(DeclarationRules[9])  BY WordsOfDeclarations, WrittenRules DEF DeclarationRules
<1>10. WrittenRule(DeclarationRules[10])  BY WordsOfDeclarations, WrittenRules DEF DeclarationRules
<1>11. WrittenRule(DeclarationRules[11])  BY WordsOfDeclarations, WrittenRules DEF DeclarationRules
<1>12. WrittenRule(DeclarationRules[12])  BY WordsOfDeclarations, WrittenRules DEF DeclarationRules
<1>13. WrittenRule(DeclarationRules[13])  BY WordsOfDeclarations, WrittenRules DEF DeclarationRules
<1>14. WrittenRule(DeclarationRules[14])  BY WordsOfDeclarations, WrittenRules DEF DeclarationRules
<1>15. WrittenRule(DeclarationRules[15])  BY WordsOfDeclarations, WrittenRules DEF DeclarationRules
<1>16. WrittenRule(DeclarationRules[16])  BY WordsOfDeclarations, WrittenRules DEF DeclarationRules
<1>17. IsSeq(DeclarationRules) /\ DOMAIN DeclarationRules = 1..16
  <2>1. DOMAIN DeclarationRules = 1..16 /\ Len(DeclarationRules) = 16 /\ DeclarationRules = [j \in 1..16 |-> DeclarationRules[j]]
    BY DEF DeclarationRules
  <2>2. QED
    BY <2>1, FunctionIsSeq
<1>18. QED
  BY <1>1, <1>2, <1>3, <1>4, <1>5, <1>6, <1>7, <1>8, <1>9, <1>10, <1>11, <1>12, <1>13, <1>14, <1>15, <1>16, <1>17 DEF Range

LEMMA WordsOfStatements ==
    /\ "local-declarations" \in RightWords /\ "var-declaration" \in RightWords /\ "statement-list" \in RightWords
    /\ "statement" \in RightWords /\ "expression-stmt" \in RightWords /\ "compound-stmt" \in RightWords
    /\ "selection-stmt" \in RightWords /\ "iteration-stmt" \in RightWords /\ "return-stmt" \in RightWords
    /\ "expression" \in RightWords /\ "SEMICOLON" \in RightWords /\ "LBRACE" \in RightWords
    /\ "RBRACE" \in RightWords /\ "IF" \in RightWords /\ "ELSE" \in RightWords
    /\ "LPARENTHESE" \in RightWords /\ "RPARENTHESE" \in RightWords /\ "WHILE" \in RightWords
    /\ "RETURN" \in RightWords
    /\ "compound-stmt" \in LeftWords /\ "local-declarations" \in LeftWords /\ "statement-list" \in LeftWords
    /\ "statement" \in LeftWords /\ "expression-stmt" \in LeftWords /\ "selection-stmt" \in LeftWords
    /\ "iteration-stmt" \in LeftWords /\ "return-stmt" \in LeftWords
  BY DEF LeftWords, RightWords

LEMMA WrittenStatements ==
    IsSeq(StatementRules) /\ \A rule \in Range(StatementRules) : WrittenRule(rule)
<1>1. WrittenRule(StatementRules[1])  BY WordsOfStatements, WrittenRules DEF StatementRules
<1>2. WrittenRule(StatementRules[2])  BY WordsOfStatements, WrittenRules DEF StatementRules
<1>3. WrittenRule(StatementRules[3])  BY WordsOfStatements, WrittenRules DEF StatementRules
<1>4. WrittenRule(StatementRules[4])  BY WordsOfStatements, WrittenRules DEF StatementRules
<1>5. WrittenRule(StatementRules[5])  BY WordsOfStatements, WrittenRules DEF StatementRules
<1>6. WrittenRule(StatementRules[6])  BY WordsOfStatements, WrittenRules DEF StatementRules
<1>7. WrittenRule(StatementRules[7])  BY WordsOfStatements, WrittenRules DEF StatementRules
<1>8. WrittenRule(StatementRules[8])  BY WordsOfStatements, WrittenRules DEF StatementRules
<1>9. WrittenRule(StatementRules[9])  BY WordsOfStatements, WrittenRules DEF StatementRules
<1>10. WrittenRule(StatementRules[10])  BY WordsOfStatements, WrittenRules DEF StatementRules
<1>11. WrittenRule(StatementRules[11])  BY WordsOfStatements, WrittenRules DEF StatementRules
<1>12. WrittenRule(StatementRules[12])  BY WordsOfStatements, WrittenRules DEF StatementRules
<1>13. WrittenRule(StatementRules[13])  BY WordsOfStatements, WrittenRules DEF StatementRules
<1>14. WrittenRule(StatementRules[14])  BY WordsOfStatements, WrittenRules DEF StatementRules
<1>15. WrittenRule(StatementRules[15])  BY WordsOfStatements, WrittenRules DEF StatementRules
<1>16. WrittenRule(StatementRules[16])  BY WordsOfStatements, WrittenRules DEF StatementRules
<1>17. WrittenRule(StatementRules[17])  BY WordsOfStatements, WrittenRules DEF StatementRules
<1>18. IsSeq(StatementRules) /\ DOMAIN StatementRules = 1..17
  <2>1. DOMAIN StatementRules = 1..17 /\ Len(StatementRules) = 17 /\ StatementRules = [j \in 1..17 |-> StatementRules[j]]
    BY DEF StatementRules
  <2>2. QED
    BY <2>1, FunctionIsSeq
<1>19. QED
  BY <1>1, <1>2, <1>3, <1>4, <1>5, <1>6, <1>7, <1>8, <1>9, <1>10, <1>11, <1>12, <1>13, <1>14, <1>15, <1>16, <1>17, <1>18 DEF Range

LEMMA WordsOfCalls ==
    /\ "call" \in RightWords /\ "IDENTIFIER" \in RightWords /\ "LPARENTHESE" \in RightWords
    /\ "args" \in RightWords /\ "RPARENTHESE" \in RightWords /\ "arg-list" \in RightWords
    /\ "COMMA" \in RightWords /\ "expression" \in RightWords
    /\ "call" \in LeftWords /\ "args" \in LeftWords /\ "arg-list" \in LeftWords
  BY DEF LeftWords, RightWords

LEMMA WrittenCalls ==
    IsSeq(CallRules) /\ \A rule \in Range(CallRules) : WrittenRule(rule)
<1>1. WrittenRule(CallRules[1])  BY WordsOfCalls, WrittenRules DEF CallRules
<1>2. WrittenRule(CallRules[2])  BY WordsOfCalls, WrittenRules DEF CallRules
<1>3. WrittenRule(CallRules[3])  BY WordsOfCalls, WrittenRules DEF CallRules
<1>4. WrittenRule(CallRules[4])  BY WordsOfCalls, WrittenRules DEF CallRules
<1>5. WrittenRule(CallRules[5])  BY WordsOfCalls, WrittenRules DEF CallRules
<1>6. IsSeq(CallRules) /\ DOMAIN CallRules = 1..5
  <2>1. DOMAIN CallRules = 1..5 /\ Len(CallRules) = 5 /\ CallRules = [j \in 1..5 |-> CallRules[j]]
    BY DEF CallRules
  <2>2. QED
    BY <2>1, FunctionIsSeq
<1>7. QED
  BY <1>1, <1>2, <1>3, <1>4, <1>5, <1>6 DEF Range

LEMMA WordsOfExpressions ==
    /\ "expression" \in RightWords /\ "var" \in RightWords /\ "simple-expression" \in RightWords
    /\ "additive-expression" \in RightWords /\ "relop" \in RightWords /\ "addop" \in RightWords
    /\ "term" \in RightWords /\ "mulop" \in RightWords /\ "factor" \in RightWords
    /\ "call" \in RightWords /\ "ASSIN" \in RightWords /\ "IDENTIFIER" \in RightWords
    /\ "LBRACKET" \in RightWords /\ "RBRACKET" \in RightWords /\ "NUMBER" \in RightWords
    /\ "LPARENTHESE" \in RightWords /\ "RPARENTHESE" \in RightWords
    /\ "LTE" \in RightWords /\ "LT" \in RightWords /\ "GT" \in RightWords
    /\ "GTE" \in RightWords /\ "EQ" \in RightWords /\ "NEQ" \in RightWords
    /\ "ADD" \in RightWords /\ "SUB" \in RightWords /\ "MUL" \in RightWords
    /\ "DIV" \in RightWords
    /\ "expression" \in LeftWords /\ "var" \in LeftWords /\ "simple-expression" \in LeftWords
    /\ "relop" \in LeftWords /\ "additive-expression" \in LeftWords /\ "addop" \in LeftWords
    /\ "term" \in LeftWords /\ "mulop" \in LeftWords /\ "factor" \in LeftWords
  BY DEF LeftWords, RightWords

\* A sequence of rules of the grammar file.
Written(rules) == IsSeq(rules) /\ \A rule \in Range(rules) : WrittenRule(rule)

LEMMA WrittenConcat ==
    ASSUME NEW s, NEW t, Written(s), Written(t)
    PROVE  Written(s \o t)
  BY ConcatFacts DEF Written

LEMMA WrittenOne == ASSUME NEW rule, WrittenRule(rule) PROVE Written(<<rule>>)
  BY ShortSeqs DEF Written

LEMMA WrittenTwo ==
    ASSUME NEW rule, NEW other, WrittenRule(rule), WrittenRule(other)
    PROVE  Written(<<rule, other>>)
  BY ShortSeqs DEF Written

LEMMA WrittenAlternatives ==
    ASSUME NEW lhs \in LeftWords, NEW n \in Nat, NEW symbols, DOMAIN symbols = 1..n,
           \A j \in 1..n : symbols[j] \in RightWords
    PROVE  Written(Alternatives(lhs, symbols))
<1> DEFINE s == Alternatives(lhs, symbols)
<1>1. DOMAIN s = 1..n /\ s = [j \in 1..n |-> s[j]]
  BY DEF Alternatives
<1>2. ASSUME NEW j \in 1..n PROVE WrittenRule(s[j])
  <2>1. s[j] = Rule(lhs, <<symbols[j]>>)
    BY DEF Alternatives
  <2>2. QED
    BY <2>1, WrittenRules
<1> HIDE DEF s
<1>3. IsSeq(s)
  BY <1>1, FunctionIsSeq
<1>4. QED
  BY <1>1, <1>2, <1>3 DEF Written, Range, s

LEMMA WrittenExpressions == Written(ExpressionRules)
<1> DEFINE first == <<
                 Rule("expression", <<"var", "ASSIN", "expression">>),
                 Rule("expression", <<"simple-expression">>),
                 Rule("var", <<"IDENTIFIER">>),
                 Rule("var", <<"IDENTIFIER", "LBRACKET", "expression", "RBRACKET">>),
                 Rule("simple-expression",
                      <<"additive-expression", "relop", "additive-expression">>),
                 Rule("simple-expression", <<"additive-expression">>)>>
           relops == Alternatives("relop", <<"LTE", "LT", "GT", "GTE", "EQ", "NEQ">>)
           sums == <<Rule("additive-expression", <<"additive-expression", "addop", "term">>),
                     Rule("additive-expression", <<"term">>)>>
           addops == Alternatives("addop", <<"ADD", "SUB">>)
           products == <<Rule("term", <<"term", "mulop", "factor">>),
                         Rule("term", <<"factor">>)>>
           mulops == Alternatives("mulop", <<"MUL", "DIV">>)
           nested == <<Rule("factor", <<"LPARENTHESE", "expression", "RPARENTHESE">>)>>
           factors == Alternatives("factor", <<"var", "call", "NUMBER">>)
<1>1. Written(first)
  <2>1. WrittenRule(first[1])  BY WordsOfExpressions, WrittenRules
  <2>2. WrittenRule(first[2])  BY WordsOfExpressions, WrittenRules
  <2>3. WrittenRule(first[3])  BY WordsOfExpressions, WrittenRules
  <2>4. WrittenRule(first[4])  BY WordsOfExpressions, WrittenRules
  <2>5. WrittenRule(first[5])  BY WordsOfExpressions, WrittenRules
  <2>6. WrittenRule(first[6])  BY WordsOfExpressions, WrittenRules
  <2>7. DOMAIN first = 1..6 /\ first = [j \in 1..6 |-> first[j]]
    OBVIOUS
  <2> HIDE DEF first
  <2>8. IsSeq(first)
    BY <2>7, FunctionIsSeq
  <2>9. QED
    BY <2>1, <2>2, <2>3, <2>4, <2>5, <2>6, <2>7, <2>8 DEF Written, Range
<1>2. Written(relops)
  <2> DEFINE symbols == <<"LTE", "LT", "GT", "GTE", "EQ", "NEQ">>
  <2>1. DOMAIN symbols = 1..6 /\ \A j \in 1..6 : symbols[j] \in RightWords
    BY WordsOfExpressions
  <2> HIDE DEF symbols
  <2>2. Written(Alternatives("relop", symbols))
    BY <2>1, WrittenAlternatives, WordsOfExpressions
  <2>3. QED
    BY <2>2 DEF symbols
<1>3. Written(sums)
  BY WrittenTwo, WordsOfExpressions, WrittenRules
<1>4. Written(addops)
  <2> DEFINE symbols == <<"ADD", "SUB">>
  <2>1. DOMAIN symbols = 1..2 /\ \A j \in 1..2 : symbols[j] \in RightWords
    BY WordsOfExpressions
  <2> HIDE DEF symbols
  <2>2. Written(Alternatives("addop", symbols))
    BY <2>1, WrittenAlternatives, WordsOfExpressions
  <2>3. QED
    BY <2>2 DEF symbols
<1>5. Written(products)
  BY WrittenTwo, WordsOfExpressions, WrittenRules
<1>6. Written(mulops)
  <2> DEFINE symbols == <<"MUL", "DIV">>
  <2>1. DOMAIN symbols = 1..2 /\ \A j \in 1..2 : symbols[j] \in RightWords
    BY WordsOfExpressions
  <2> HIDE DEF symbols
  <2>2. Written(Alternatives("mulop", symbols))
    BY <2>1, WrittenAlternatives, WordsOfExpressions
  <2>3. QED
    BY <2>2 DEF symbols
<1>7. Written(nested)
  BY WrittenOne, WordsOfExpressions, WrittenRules
<1>8. Written(factors)
  <2> DEFINE symbols == <<"var", "call", "NUMBER">>
  <2>1. DOMAIN symbols = 1..3 /\ \A j \in 1..3 : symbols[j] \in RightWords
    BY WordsOfExpressions
  <2> HIDE DEF symbols
  <2>2. Written(Alternatives("factor", symbols))
    BY <2>1, WrittenAlternatives, WordsOfExpressions
  <2>3. QED
    BY <2>2 DEF symbols
<1>9. ExpressionRules = first \o relops \o sums \o addops \o products \o mulops
                        \o nested \o factors
  BY DEF ExpressionRules
<1> HIDE DEF first, relops, sums, addops, products, mulops, nested, factors
<1>10. Written(first \o relops \o sums \o addops)
  BY <1>1, <1>2, <1>3, <1>4, WrittenConcat
<1> DEFINE lower == first \o relops \o sums \o addops
<1> HIDE DEF lower
<1>11. Written(lower \o products \o mulops \o nested \o factors)
  BY <1>10, <1>5, <1>6, <1>7, <1>8, WrittenConcat DEF lower
<1>12. QED
  BY <1>9, <1>11 DEF lower

\* All rules but bison's own, which is the first, are of the grammar file.
LEMMA RulesFacts ==
    /\ IsSeq(Rules) /\ 1 \in DOMAIN Rules
    /\ Rules[1].lhs = "$accept" /\ Rules[1].rhs = <<"program", "$end">>
    /\ \A r \in DOMAIN Rules : r \in Nat /\ IsSeq(Rules[r].rhs) /\ (r # 1 => WrittenRule(Rules[r]))
<1> DEFINE start == <<Rule("$accept", <<"program", "$end">>)>>
           T == DeclarationRules
           U == StatementRules
           V == ExpressionRules
           W == CallRules
<1> DEFINE Led(s) == /\ IsSeq(s) /\ Len(s) >= 1 /\ s[1] = start[1]
                     /\ \A k \in 2..Len(s) : WrittenRule(s[k])
<1>1. ASSUME NEW s, NEW t, Led(s), Written(t)
      PROVE  Led(s \o t)
  <2> DEFINE u == s \o t
  <2>1. /\ IsSeq(u) /\ Len(u) = Len(s) + Len(t)
        /\ \A i \in 1..Len(s) : u[i] = s[i]
        /\ \A i \in 1..Len(t) : u[Len(s) + i] = t[i]
    BY <1>1, ConcatFacts DEF Written
  <2> HIDE DEF u
  <2>2. Len(s) \in Nat /\ Len(t) \in Nat
    BY <1>1, SeqFacts DEF Written
  <2>3. u[1] = start[1]
    BY <1>1, <2>1, <2>2
  <2>4. ASSUME NEW k \in 2..Len(u) PROVE WrittenRule(u[k])
    <3>1. CASE k <= Len(s)
      <4>1. k \in 1..Len(s) /\ k \in 2..Len(s)
        BY <3>1, <2>2
      <4>2. QED
        BY <4>1, <2>1, <1>1
    <3>2. CASE ~(k <= Len(s))
      <4>1. k - Len(s) \in 1..Len(t) /\ k = Len(s) + (k - Len(s))
        BY <3>2, <2>1, <2>2
      <4>2. u[k] = t[k - Len(s)] /\ t[k - Len(s)] \in Range(t)
        BY <4>1, <2>1, <1>1, SeqFacts DEF Written
      <4>3. QED
        BY <4>2, <1>1 DEF Written
    <3>3. QED
      BY <3>1, <3>2
  <2>5. Led(u)
    BY <1>1, <2>1, <2>2, <2>3, <2>4
  <2>6. QED
    BY <2>5 DEF u
<1>2. Led(start)
  BY ShortSeqs
<1>3. Written(T) /\ Written(U) /\ Written(V) /\ Written(W)
  BY WrittenDeclarations, WrittenStatements, WrittenExpressions, WrittenCalls DEF Written
<1>4. Rules = start \o T \o U \o V \o W
  BY DEF Rules
<1>5. start[1].lhs = "$accept" /\ start[1].rhs = <<"program", "$end">>
  BY DEF Rule
<1> HIDE DEF start, T, U, V, W
<1>6. Led(Rules)
  <2>1. Led(start \o T)
    BY <1>1, <1>2, <1>3
  <2>2. Led(start \o T \o U)
    BY <1>1, <2>1, <1>3
  <2>3. Led(start \o T \o U \o V)
    BY <1>1, <2>2, <1>3
  <2>4. Led(start \o T \o U \o V \o W)
    BY <1>1, <2>3, <1>3
  <2>5. QED
    BY <2>4, <1>4
<1>7. IsSeq(Rules) /\ DOMAIN Rules = 1..Len(Rules) /\ Len(Rules) \in Nat
  BY <1>6, SeqFacts
<1>8. ASSUME NEW r \in DOMAIN Rules
      PROVE  r \in Nat /\ IsSeq(Rules[r].rhs) /\ (r # 1 => WrittenRule(Rules[r]))
  <2>1. r \in Nat /\ (r # 1 => r \in 2..Len(Rules))
    BY <1>7
  <2>2. r # 1 => WrittenRule(Rules[r])
    BY <2>1, <1>6
  <2>3. r # 1 => IsSeq(Rules[r].rhs)
    BY <2>2, SeqOverRange DEF WrittenRule
  <2>4. r = 1 => IsSeq(Rules[r].rhs)
    <3>1. IsSeq(<<"program", "$end">>)
      BY ShortSeqs
    <3>2. Rules[1].rhs = <<"program", "$end">>
      BY <1>6, <1>5
    <3>3. QED
      BY <3>1, <3>2
  <2>5. QED
    BY <2>1, <2>2, <2>3, <2>4
<1>9. 1 \in DOMAIN Rules /\ Rules[1] = start[1]
  BY <1>6, <1>7
<1>10. QED
  BY <1>5, <1>9, <1>7, <1>8
\* Where bison's rule, the start symbol and the end of the input may stand.
LEMMA RuleFacts ==
    ASSUME NEW r \in DOMAIN Rules
    PROVE  /\ IsSeq(Rules[r].rhs) /\ Len(Rules[r].rhs) \in Nat
           /\ Rules[r].lhs \in Nonterminals /\ Rules[r].lhs \notin Named \cup {"$end"}
           /\ (r # 1 => Rules[r].lhs # "$accept")
           /\ (r = 1 => Len(Rules[r].rhs) = 2)
           /\ \A d \in 1..Len(Rules[r].rhs) :
                 /\ Rules[r].rhs[d] \in Symbols /\ Rules[r].rhs[d] # "$accept"
                 /\ (Rules[r].rhs[d] = "program" => r = 1 /\ d = 1)
                 /\ (Rules[r].rhs[d] = "$end" => r = 1 /\ d = 2)
                 /\ (r = 1 /\ d = 1 => Rules[r].rhs[d] = "program")
                 /\ (r = 1 /\ d = 2 => Rules[r].rhs[d] = "$end")
<1>1. /\ "$end" \notin RightWords /\ "$accept" \notin RightWords /\ "program" \notin RightWords
      /\ "$end" \notin LeftWords /\ "$accept" \notin LeftWords
      /\ \A w \in LeftWords \cup {"$accept"} : w \notin Named
  BY DEF RightWords, LeftWords, Named
<1>2. IsSeq(Rules[r].rhs) /\ Len(Rules[r].rhs) \in Nat
  BY RulesFacts, SeqFacts
<1>3. Rules[r].lhs \in Nonterminals /\ \A d \in 1..Len(Rules[r].rhs) : Rules[r].rhs[d] \in Symbols
  <2>1. \A d \in 1..Len(Rules[r].rhs) : Rules[r].rhs[d] \in Range(Rules[r].rhs)
    BY <1>2, SeqFacts
  <2>2. QED
    BY <2>1 DEF Nonterminals, Symbols
<1>4. CASE r = 1
  <2>1. Rules[r].lhs = "$accept" /\ Rules[r].rhs = <<"program", "$end">>
    BY <1>4, RulesFacts
  <2>2. Len(Rules[r].rhs) = 2 /\ Rules[r].rhs[1] = "program" /\ Rules[r].rhs[2] = "$end"
    BY <2>1
  <2>3. \A d \in 1..2 : d = 1 \/ d = 2
    OBVIOUS
  <2>4. QED
    BY <1>1, <1>2, <1>3, <1>4, <2>1, <2>2, <2>3
<1>5. CASE r # 1
  <2>1. Rules[r].lhs \in LeftWords /\ Rules[r].rhs \in Seq(RightWords)
    BY <1>5, RulesFacts DEF WrittenRule
  <2>2. \A d \in 1..Len(Rules[r].rhs) : Rules[r].rhs[d] \in RightWords
    BY <2>1
  <2>3. QED
    BY <1>1, <1>2, <1>3, <1>5, <2>1, <2>2
<1>6. QED
  BY <1>4, <1>5

\* No rule derives the end of the input.
LEMMA EndIsNoNonterminal == "$end" \notin Nonterminals
  BY RuleFacts DEF Nonterminals

\* A pair of the corner relation ends with a rule that begins with its second
\* part, and whose left-hand side its first part is or may begin with.
Grounded(pairs) ==
    \A p \in pairs :
        /\ p = <<p[1], p[2]>> /\ p[1] \in Nonterminals /\ p[2] # "$accept"
        /\ \E r \in DOMAIN Rules :
              /\ Rules[r].rhs # <<>> /\ Head(Rules[r].rhs) = p[2]
              /\ Rules[r].lhs = p[1] \/ <<p[1], Rules[r].lhs>> \in pairs

LEMMA LongerGrounded == ASSUME NEW P, Grounded(P) PROVE Grounded(Longer(P))
<1>1. P \subseteq Longer(P)
  BY DEF Longer
<1>2. \A p, q \in P : q[1] = p[2] => <<p[1], q[2]>> \in Longer(P)
  BY DEF Longer
<1>3. ASSUME NEW x \in Longer(P)
      PROVE  x \in P \/ \E p, q \in P : q[1] = p[2] /\ x = <<p[1], q[2]>>
  BY DEF Longer
<1>4. ASSUME NEW x \in P
      PROVE  /\ x = <<x[1], x[2]>> /\ x[1] \in Nonterminals /\ x[2] # "$accept"
             /\ \E r \in DOMAIN Rules :
                  /\ Rules[r].rhs # <<>> /\ Head(Rules[r].rhs) = x[2]
                  /\ Rules[r].lhs = x[1] \/ <<x[1], Rules[r].lhs>> \in Longer(P)
  BY <1>1 DEF Grounded
<1>5. ASSUME NEW p \in P, NEW q \in P, q[1] = p[2], NEW x, x = <<p[1], q[2]>>
      PROVE  /\ x = <<x[1], x[2]>> /\ x[1] \in Nonterminals /\ x[2] # "$accept"
             /\ \E r \in DOMAIN Rules :
                  /\ Rules[r].rhs # <<>> /\ Head(Rules[r].rhs) = x[2]
                  /\ Rules[r].lhs = x[1] \/ <<x[1], Rules[r].lhs>> \in Longer(P)
  <2>1. x[1] = p[1] /\ x[2] = q[2]
    BY <1>5
  <2>2. /\ p = <<p[1], p[2]>> /\ p[1] \in Nonterminals /\ q[2] # "$accept"
    BY DEF Grounded
  <2>3. PICK r \in DOMAIN Rules :
          /\ Rules[r].rhs # <<>> /\ Head(Rules[r].rhs) = q[2]
          /\ Rules[r].lhs = q[1] \/ <<q[1], Rules[r].lhs>> \in P
    BY DEF Grounded
  <2>4. <<p[1], Rules[r].lhs>> \in Longer(P)
    <3>1. CASE Rules[r].lhs = q[1]
      BY <3>1, <1>5, <2>2, <1>1
    <3>2. CASE <<q[1], Rules[r].lhs>> \in P
      <4> DEFINE z == <<q[1], Rules[r].lhs>>
      <4>1. z \in P /\ z[1] = p[2] /\ z[2] = Rules[r].lhs
        BY <3>2, <1>5
      <4> HIDE DEF z
      <4>2. <<p[1], z[2]>> \in Longer(P)
        BY <4>1, <1>2
      <4>3. QED
        BY <4>1, <4>2
    <3>3. QED
      BY <2>3, <3>1, <3>2
  <2>5. QED
    BY <2>1, <2>2, <2>3, <2>4, <1>5
<1>6. QED
  BY <1>3, <1>4, <1>5 DEF Grounded

LEMMA CornersGrounded == Grounded(Corners)
<1>1. Grounded(Begins)
  <2>1. ASSUME NEW r \in DOMAIN Rules, Rules[r].rhs # <<>>
        PROVE  Rules[r].lhs \in Nonterminals /\ Head(Rules[r].rhs) # "$accept"
    <3>1. IsSeq(Rules[r].rhs) /\ Len(Rules[r].rhs) \in Nat
      BY RuleFacts
    <3>2. 1 \in 1..Len(Rules[r].rhs) /\ Head(Rules[r].rhs) = Rules[r].rhs[1]
      BY <3>1, <2>1, SeqFacts, TailFacts
    <3>3. QED
      BY <3>2, RuleFacts
  <2>2. QED
    BY <2>1 DEF Grounded, Begins
<1>2. QED
  BY <1>1, LongerGrounded DEF Corners

\* A state made of items of the grammar.
IsState(kernel) ==
    \A i \in kernel : /\ i.rule \in DOMAIN Rules /\ i.dot \in 0..Len(Rules[i.rule].rhs)
                      /\ i = Item(i.rule, i.dot)

LEMMA ItemFacts == \A r, d : Item(r, d).rule = r /\ Item(r, d).dot = d
  BY DEF Item

LEMMA ExpectsFacts ==
    ASSUME NEW i, NEW symbol, i.rule \in DOMAIN Rules, i.dot \in 0..Len(Rules[i.rule].rhs)
    PROVE  /\ IsComplete(i) <=> i.dot = Len(Rules[i.rule].rhs)
           /\ ~IsComplete(i) => i.dot + 1 \in 1..Len(Rules[i.rule].rhs)
           /\ Expects(i, symbol) <=> ~IsComplete(i) /\ Rules[i.rule].rhs[i.dot + 1] = symbol
<1>1. Len(Rules[i.rule].rhs) \in Nat
  BY RuleFacts
<1>2. QED
  BY <1>1 DEF IsComplete, Expects

\* What the closure of a state adds are rules not begun, not bison's own,
\* whose left-hand sides the state can read.
LEMMA ClosureFacts ==
    ASSUME NEW kernel, IsState(kernel), NEW i \in Closure(kernel)
    PROVE  \/ i \in kernel
           \/ \E q \in DOMAIN Rules : i = Item(q, 0) /\ q # 1 /\ GoTo(kernel, Rules[q].lhs) # {}
<1> SUFFICES ASSUME i \notin kernel
             PROVE  \E q \in DOMAIN Rules :
                      i = Item(q, 0) /\ q # 1 /\ GoTo(kernel, Rules[q].lhs) # {}
  OBVIOUS
<1>1. PICK k \in kernel : ~IsComplete(k) /\ i \in Expanded[Rules[k.rule].rhs[k.dot + 1]]
  BY DEF Closure
<1> DEFINE symbol == Rules[k.rule].rhs[k.dot + 1]
<1>2. /\ k.rule \in DOMAIN Rules /\ k.dot \in 0..Len(Rules[k.rule].rhs)
      /\ k.dot + 1 \in 1..Len(Rules[k.rule].rhs) /\ Expects(k, symbol)
  BY <1>1, ExpectsFacts DEF IsState
<1>3. symbol \in Symbols /\ symbol # "$accept"
  BY <1>2, RuleFacts
<1>4. k \in Closure(kernel) /\ Expanded[symbol] \subseteq Closure(kernel)
  BY <1>1 DEF Closure
<1> HIDE DEF symbol
<1>5. Expanded[symbol] = {Item(r, 0) : r \in {r \in DOMAIN Rules :
                            Rules[r].lhs = symbol \/ <<symbol, Rules[r].lhs>> \in Corners}}
  BY <1>3 DEF Expanded
<1>6. PICK q \in DOMAIN Rules :
        i = Item(q, 0) /\ (Rules[q].lhs = symbol \/ <<symbol, Rules[q].lhs>> \in Corners)
  BY <1>1, <1>5 DEF symbol
<1>7. ASSUME NEW j \in Closure(kernel), NEW s, Expects(j, s) PROVE GoTo(kernel, s) # {}
  BY <1>7 DEF GoTo
<1>8. CASE Rules[q].lhs = symbol
  <2>1. q # 1
    BY <1>8, <1>3, RulesFacts
  <2>2. GoTo(kernel, symbol) # {}
    BY <1>2, <1>4, <1>7
  <2>3. QED
    BY <2>1, <2>2, <1>8, <1>6
<1>9. CASE <<symbol, Rules[q].lhs>> \in Corners
  <2> DEFINE p == <<symbol, Rules[q].lhs>>
  <2>1. p \in Corners /\ p[1] = symbol /\ p[2] = Rules[q].lhs
    BY <1>9
  <2> HIDE DEF p
  <2>2. q # 1
    BY <2>1, CornersGrounded, RulesFacts DEF Grounded
  <2>3. PICK r \in DOMAIN Rules :
          /\ Rules[r].rhs # <<>> /\ Head(Rules[r].rhs) = Rules[q].lhs
          /\ Rules[r].lhs = symbol \/ <<symbol, Rules[r].lhs>> \in Corners
    BY <2>1, CornersGrounded DEF Grounded
  <2>4. Item(r, 0) \in Closure(kernel)
    BY <2>3, <1>4, <1>5
  <2>5. Expects(Item(r, 0), Rules[q].lhs)
    <3>1. IsSeq(Rules[r].rhs) /\ Len(Rules[r].rhs) \in Nat /\ Len(Rules[r].rhs) >= 1
      BY <2>3, RuleFacts, SeqFacts
    <3>2. Head(Rules[r].rhs) = Rules[r].rhs[1]
      BY <3>1, <2>3, TailFacts
    <3>3. QED
      BY <3>1, <3>2, <2>3, ItemFacts DEF Expects, IsComplete
  <2>6. QED
    BY <2>2, <2>4, <2>5, <1>7, <1>6
<1>10. QED
  BY <1>6, <1>8, <1>9
\* A state the automaton goes to is made of the items it expected a symbol in.
LEMMA GoToFacts ==
    ASSUME NEW kernel, IsState(kernel), NEW symbol, NEW i \in GoTo(kernel, symbol)
    PROVE  /\ i = Item(i.rule, i.dot) /\ i.rule \in DOMAIN Rules
           /\ i.dot \in 1..Len(Rules[i.rule].rhs)
           /\ Rules[i.rule].rhs[i.dot] = symbol
           /\ Item(i.rule, i.dot - 1) \in Closure(kernel)
           /\ Item(i.rule, i.dot - 1) \in kernel \/ (i.dot = 1 /\ i.rule # 1)
<1>1. PICK k \in Closure(kernel) : Expects(k, symbol) /\ i = Item(k.rule, k.dot + 1)
  BY DEF GoTo
<1>2. /\ k.rule \in DOMAIN Rules /\ k.dot \in 0..Len(Rules[k.rule].rhs)
      /\ k = Item(k.rule, k.dot) /\ (k \in kernel \/ (k.dot = 0 /\ k.rule # 1))
  <2>1. CASE k \in kernel
    BY <2>1 DEF IsState
  <2>2. CASE k \notin kernel
    <3>1. PICK q \in DOMAIN Rules : k = Item(q, 0) /\ q # 1
      BY <2>2, ClosureFacts
    <3>2. k.rule = q /\ k.dot = 0 /\ Len(Rules[q].rhs) \in Nat
      BY <3>1, ItemFacts, RuleFacts
    <3>3. QED
      BY <3>1, <3>2
  <2>3. QED
    BY <2>1, <2>2
<1>3. k.dot + 1 \in 1..Len(Rules[k.rule].rhs) /\ Rules[k.rule].rhs[k.dot + 1] = symbol
  BY <1>1, <1>2, ExpectsFacts
<1>4. i.rule = k.rule /\ i.dot = k.dot + 1 /\ k.dot \in Nat
  BY <1>1, <1>2, ItemFacts
<1>5. i.dot - 1 = k.dot
  BY <1>4
<1>6. Item(i.rule, i.dot - 1) = k
  BY <1>2, <1>4, <1>5
<1>7. QED
  BY <1>1, <1>2, <1>3, <1>4, <1>6

LEMMA GoToIsState ==
    ASSUME NEW kernel, IsState(kernel), NEW symbol
    PROVE  IsState(GoTo(kernel, symbol))
<1>1. ASSUME NEW i \in GoTo(kernel, symbol)
      PROVE  /\ i.rule \in DOMAIN Rules /\ i = Item(i.rule, i.dot)
             /\ i.dot \in 0..Len(Rules[i.rule].rhs)
  <2>1. i.rule \in DOMAIN Rules /\ i = Item(i.rule, i.dot) /\ i.dot \in 1..Len(Rules[i.rule].rhs)
    BY GoToFacts
  <2>2. QED
    BY <2>1, RuleFacts
<1>2. QED
  BY <1>1 DEF IsState

LEMMA StartIsState == IsState(StartState)
<1>1. 1 \in DOMAIN Rules /\ Len(Rules[1].rhs) \in Nat
  BY RulesFacts, RuleFacts
<1>2. QED
  BY <1>1, ItemFacts DEF IsState, StartState

-----------------------------------------------------------------------------
(* The parser's stack.                                                     *)

LEMMA StateIsReached ==
    ASSUME NEW entries, IsSeq(entries)
    PROVE  StateAfter(entries) = Reached(entries, Len(entries))
<1>1. entries = <<>> <=> Len(entries) = 0
  BY SeqFacts
<1>2. QED
  BY <1>1 DEF StateAfter, Reached, Last

\* Each state on a stack is made of items.
LEMMA ReachedIsState ==
    ASSUME NEW entries, IsSeq(entries), Spelled(entries), NEW j \in 0..Len(entries)
    PROVE  /\ IsState(Reached(entries, j))
           /\ \A i \in Reached(entries, j) : (j = 0 => i = Item(1, 0)) /\ (i.rule = 1 => i.dot = j)
           /\ \A i \in Reached(entries, j) : j # 0 => i.dot \in 1..j
<1>1. CASE j = 0
  BY <1>1, StartIsState, ItemFacts DEF Reached, StartState
<1>2. CASE j # 0
  <2>1. j \in DOMAIN entries
    BY <1>2, SeqFacts
  <2>2. entries[j].state = GoTo(Reached(entries, j - 1), entries[j].symbol)
    BY <2>1 DEF Spelled
  <2>3. ASSUME NEW i \in entries[j].state
        PROVE  /\ i = Item(i.rule, i.dot) /\ i.rule \in DOMAIN Rules /\ i.dot \in 1..j
               /\ i.dot \in 0..Len(Rules[i.rule].rhs) /\ (i.rule = 1 => i.dot = j)
    <3>1. i = Item(i.rule, i.dot)
      BY <2>2, ItemFacts DEF GoTo
    <3>2. /\ i.rule \in DOMAIN Rules /\ i.dot \in 1..j /\ i.dot <= Len(Rules[i.rule].rhs)
          /\ (i.rule = 1 => i.dot = j)
      BY <2>1 DEF Spelled
    <3>3. Len(Rules[i.rule].rhs) \in Nat
      BY <3>2, RuleFacts
    <3>4. QED
      BY <3>1, <3>2, <3>3
  <2>4. QED
    BY <1>2, <2>3 DEF Reached, IsState
<1>3. QED
  BY <1>1, <1>2
\* What stays on the stack when the entries of a handle are popped.
LEMMA PoppedSpelled ==
    ASSUME NEW entries, IsSeq(entries), Spelled(entries), NEW m \in 0..Len(entries)
    PROVE  Spelled(SubSeq(entries, 1, m))
<1> DEFINE p == SubSeq(entries, 1, m)
<1>1. /\ IsSeq(p) /\ Len(p) = m /\ DOMAIN p = 1..m
      /\ \A i \in 1..m : p[i] = entries[i]
  BY TakeFacts, SeqFacts
<1> HIDE DEF p
<1>2. Len(entries) \in Nat /\ m \in Nat /\ DOMAIN entries = 1..Len(entries)
  BY SeqFacts
<1>3. \A j \in 0..m : Reached(p, j) = Reached(entries, j)
  BY <1>1, <1>2 DEF Reached
<1>4. ASSUME NEW j \in 1..m
      PROVE  /\ p[j].state = GoTo(Reached(p, j - 1), p[j].symbol)
             /\ p[j].state # {} /\ p[j].symbol # "$end"
             /\ \A item \in p[j].state :
                   /\ item.rule \in DOMAIN Rules /\ item.dot \in 1..j
                   /\ item.dot <= Len(Rules[item.rule].rhs)
                   /\ \A k \in 1..item.dot :
                         Item(item.rule, item.dot - k) \in Closure(Reached(p, j - k))
                   /\ item.rule = 1 => item.dot = j
  <2>1. j \in DOMAIN entries /\ j - 1 \in 0..m /\ p[j] = entries[j]
    BY <1>1, <1>2
  <2>2. /\ entries[j].state = GoTo(Reached(entries, j - 1), entries[j].symbol)
        /\ entries[j].state # {} /\ entries[j].symbol # "$end"
    BY <2>1 DEF Spelled
  <2>3. ASSUME NEW item \in entries[j].state
        PROVE  /\ item.rule \in DOMAIN Rules /\ item.dot \in 1..j
               /\ item.dot <= Len(Rules[item.rule].rhs)
               /\ \A k \in 1..item.dot :
                     Item(item.rule, item.dot - k) \in Closure(Reached(p, j - k))
               /\ item.rule = 1 => item.dot = j
    <3>1. /\ item.rule \in DOMAIN Rules /\ item.dot \in 1..j
          /\ item.dot <= Len(Rules[item.rule].rhs)
          /\ \A k \in 1..item.dot :
                Item(item.rule, item.dot - k) \in Closure(Reached(entries, j - k))
          /\ item.rule = 1 => item.dot = j
      BY <2>1 DEF Spelled
    <3>2. \A k \in 1..item.dot : j - k \in 0..m
      BY <3>1, <1>2
    <3>3. QED
      BY <3>1, <3>2, <1>3
  <2>4. QED
    BY <2>1, <2>2, <2>3, <1>3
<1>5. Spelled(p)
  BY <1>1, <1>4 DEF Spelled
<1>6. QED
  BY <1>5 DEF p

\* What an entry that the state expects leaves.
LEMMA PushedSpelled ==
    ASSUME NEW entries, IsSeq(entries), Spelled(entries), NEW e,
           e.state = GoTo(Reached(entries, Len(entries)), e.symbol),
           e.state # {}, e.symbol # "$end"
    PROVE  Spelled(Append(entries, e))
<1> DEFINE p == Append(entries, e)
           m == Len(entries)
           top == Reached(entries, m)
<1>1. /\ IsSeq(p) /\ Len(p) = m + 1 /\ p[m + 1] = e
      /\ \A i \in 1..m : p[i] = entries[i]
  BY AppendFacts
<1>2. m \in Nat /\ DOMAIN entries = 1..m /\ m \in 0..m
  BY SeqFacts
<1>3. DOMAIN p = 1..m + 1
  BY <1>1, SeqFacts
<1>4. e.state = GoTo(top, e.symbol) /\ IsState(top)
  BY <1>2, ReachedIsState
<1>5. /\ \A i \in top : (m = 0 => i = Item(1, 0)) /\ (i.rule = 1 => i.dot = m)
      /\ \A i \in top : m # 0 => i.dot \in 1..m
  BY <1>2, ReachedIsState
<1> HIDE DEF p
<1>6. \A j \in 0..m : Reached(p, j) = Reached(entries, j)
  BY <1>1, <1>2 DEF Reached
<1> HIDE DEF m
<1>7. ASSUME NEW item \in e.state
      PROVE  /\ item.rule \in DOMAIN Rules /\ item.dot \in 1..m + 1
             /\ item.dot <= Len(Rules[item.rule].rhs)
             /\ \A k \in 1..item.dot :
                   Item(item.rule, item.dot - k) \in Closure(Reached(p, m + 1 - k))
             /\ item.rule = 1 => item.dot = m + 1
  <2> DEFINE d == item.dot
             before == Item(item.rule, d - 1)
  <2>1. /\ item.rule \in DOMAIN Rules /\ d \in 1..Len(Rules[item.rule].rhs)
        /\ before \in Closure(top) /\ (before \in top \/ (d = 1 /\ item.rule # 1))
    BY <1>4, GoToFacts
  <2>2. d \in Nat /\ d >= 1 /\ d <= Len(Rules[item.rule].rhs) /\ Len(Rules[item.rule].rhs) \in Nat
    BY <2>1, RuleFacts
  <2>3. before.rule = item.rule /\ before.dot = d - 1
    BY ItemFacts
  <2>4. CASE d = 1
    <3>1. m + 1 - 1 = m /\ d - 1 = 0
      BY <2>4, <1>2
    <3>2. item.rule = 1 => m = 0
      BY <2>1, <2>3, <3>1, <1>5
    <3>3. \A k \in 1..d : k = 1
      BY <2>4
    <3>4. Item(item.rule, d - 1) \in Closure(Reached(p, m + 1 - 1))
      BY <2>1, <3>1, <1>6, <1>2
    <3>5. QED
      BY <2>1, <2>2, <2>4, <3>2, <3>3, <3>4, <1>2
  <2>5. CASE d # 1
    <3>1. before \in top /\ d - 1 >= 1
      BY <2>1, <2>2, <2>5
    <3>2. m # 0
      BY <3>1, <2>3, <1>5, ItemFacts
    <3>3. d - 1 \in 1..m /\ (item.rule = 1 => d - 1 = m)
      BY <3>1, <3>2, <2>3, <1>5
    <3>4. m \in DOMAIN entries /\ top = entries[m].state
      BY <3>2, <1>2 DEF Reached
    <3>5. \A k \in 1..before.dot :
            Item(before.rule, before.dot - k) \in Closure(Reached(entries, m - k))
      BY <3>1, <3>4 DEF Spelled
    <3>6. ASSUME NEW k \in 1..d
          PROVE  Item(item.rule, d - k) \in Closure(Reached(p, m + 1 - k))
      <4>1. CASE k = 1
        BY <4>1, <2>1, <1>6, <1>2
      <4>2. CASE k # 1
        <5>1. k - 1 \in 1..before.dot /\ m - (k - 1) = m + 1 - k /\ before.dot - (k - 1) = d - k
          BY <4>2, <2>2, <2>3, <1>2
        <5>2. m + 1 - k \in 0..m
          BY <4>2, <3>3, <2>2, <1>2
        <5>3. Item(before.rule, before.dot - (k - 1)) \in Closure(Reached(entries, m - (k - 1)))
          BY <5>1, <3>5
        <5>4. QED
          BY <5>1, <5>2, <5>3, <2>3, <1>6
      <4>3. QED
        BY <4>1, <4>2
    <3>7. d \in 1..m + 1 /\ (item.rule = 1 => d = m + 1)
      BY <3>3, <2>2, <1>2
    <3>8. QED
      BY <2>1, <2>2, <3>6, <3>7
  <2>6. QED
    BY <2>4, <2>5
<1>8. ASSUME NEW j \in 1..m + 1
      PROVE  /\ p[j].state = GoTo(Reached(p, j - 1), p[j].symbol)
             /\ p[j].state # {} /\ p[j].symbol # "$end"
             /\ \A item \in p[j].state :
                   /\ item.rule \in DOMAIN Rules /\ item.dot \in 1..j
                   /\ item.dot <= Len(Rules[item.rule].rhs)
                   /\ \A k \in 1..item.dot :
                         Item(item.rule, item.dot - k) \in Closure(Reached(p, j - k))
                   /\ item.rule = 1 => item.dot = j
  <2>1. CASE j = m + 1
    <3>1. j - 1 = m /\ p[j] = e /\ Reached(p, j - 1) = top
      BY <2>1, <1>1, <1>2, <1>6
    <3>2. QED
      BY <3>1, <2>1, <1>4, <1>7
  <2>2. CASE j # m + 1
    <3>1. j \in DOMAIN entries /\ j - 1 \in 0..m /\ p[j] = entries[j]
      BY <2>2, <1>1, <1>2
    <3>2. /\ entries[j].state = GoTo(Reached(entries, j - 1), entries[j].symbol)
          /\ entries[j].state # {} /\ entries[j].symbol # "$end"
      BY <3>1 DEF Spelled
    <3>3. ASSUME NEW item \in entries[j].state
          PROVE  /\ item.rule \in DOMAIN Rules /\ item.dot \in 1..j
                 /\ item.dot <= Len(Rules[item.rule].rhs)
                 /\ \A k \in 1..item.dot :
                       Item(item.rule, item.dot - k) \in Closure(Reached(p, j - k))
                 /\ item.rule = 1 => item.dot = j
      <4>1. /\ item.rule \in DOMAIN Rules /\ item.dot \in 1..j
            /\ item.dot <= Len(Rules[item.rule].rhs)
            /\ \A k \in 1..item.dot :
                  Item(item.rule, item.dot - k) \in Closure(Reached(entries, j - k))
            /\ item.rule = 1 => item.dot = j
        BY <3>1 DEF Spelled
      <4>2. \A k \in 1..item.dot : j - k \in 0..m
        BY <4>1, <3>1, <1>2
      <4>3. QED
        BY <4>1, <4>2, <1>6
    <3>4. QED
      BY <3>1, <3>2, <3>3, <1>6
  <2>3. QED
    BY <2>1, <2>2
<1>9. Spelled(p)
  BY <1>3, <1>8 DEF Spelled
<1>10. QED
  BY <1>9 DEF p
\* When a rule is reduced the stack ends with its right-hand side, and the
\* state below can read its left-hand side; bison's own rule is never reduced.
LEMMA HandleFacts ==
    ASSUME NEW entries, IsSeq(entries), Spelled(entries),
           NEW r \in Reductions(Reached(entries, Len(entries)))
    PROVE  /\ r \in DOMAIN Rules /\ r # 1 /\ Len(Rules[r].rhs) \in 0..Len(entries)
           /\ GoTo(Reached(entries, Len(entries) - Len(Rules[r].rhs)), Rules[r].lhs) # {}
<1> DEFINE n == Len(entries)
           top == Reached(entries, n)
<1>1. n \in Nat /\ n \in 0..n /\ DOMAIN entries = 1..n
  BY SeqFacts
<1>2. IsState(top) /\ \A i \in top : (n = 0 => i = Item(1, 0)) /\ (n # 0 => i.dot \in 1..n)
  BY <1>1, ReachedIsState
<1>3. PICK i \in Closure(top) : IsComplete(i) /\ r = i.rule
  BY DEF Reductions
<1>4. CASE i \in top
  <2> DEFINE d == i.dot
             m == n - d
  <2>1. r \in DOMAIN Rules /\ d = Len(Rules[r].rhs) /\ d \in Nat
    <3>1. i.rule \in DOMAIN Rules
      BY <1>2, <1>4 DEF IsState
    <3>2. QED
      BY <1>3, <3>1, RuleFacts DEF IsComplete
  <2>2. n # 0
    <3>1. ASSUME n = 0 PROVE FALSE
      <4>1. r = 1 /\ d = 0
        BY <3>1, <1>2, <1>3, <1>4, ItemFacts
      <4>2. QED
        BY <4>1, <2>1, RuleFacts
    <3>2. QED
      BY <3>1
  <2>3. d \in 1..n /\ n \in DOMAIN entries /\ top = entries[n].state
    BY <2>2, <1>1, <1>2, <1>4 DEF Reached
  <2>4. entries[n].state = GoTo(Reached(entries, n - 1), entries[n].symbol)
        /\ entries[n].symbol # "$end"
    BY <2>3 DEF Spelled
  <2>5. r # 1
    <3>1. ASSUME r = 1 PROVE FALSE
      <4>1. d = 2
        BY <3>1, <2>1, RuleFacts
      <4>2. IsState(Reached(entries, n - 1))
        BY <2>3, <1>1, ReachedIsState
      <4>3. Rules[r].rhs[d] = entries[n].symbol
        BY <4>2, <2>3, <2>4, <1>3, <1>4, GoToFacts
      <4>4. QED
        BY <4>1, <4>3, <3>1, <2>1, <2>4, RuleFacts
    <3>2. QED
      BY <3>1
  <2>6. m \in 0..n /\ d - d = 0
    BY <2>3, <1>1
  <2>7. Item(r, d - d) \in Closure(Reached(entries, n - d))
    BY <2>3, <1>3, <1>4 DEF Spelled
  <2>8. Item(r, 0) \in Closure(Reached(entries, m))
    BY <2>6, <2>7
  <2>9. /\ IsState(Reached(entries, m))
        /\ \A j \in Reached(entries, m) : (m = 0 => j = Item(1, 0)) /\ (m # 0 => j.dot \in 1..m)
    BY <2>6, ReachedIsState
  <2>10. Item(r, 0) \notin Reached(entries, m)
    BY <2>9, <2>5, <2>6, ItemFacts
  <2>11. PICK q \in DOMAIN Rules :
           Item(r, 0) = Item(q, 0) /\ GoTo(Reached(entries, m), Rules[q].lhs) # {}
    BY <2>8, <2>9, <2>10, ClosureFacts
  <2>12. q = r
    BY <2>11, ItemFacts
  <2>13. QED
    BY <2>1, <2>3, <2>5, <2>11, <2>12, <1>1
<1>5. CASE i \notin top
  <2>1. PICK q \in DOMAIN Rules : i = Item(q, 0) /\ q # 1 /\ GoTo(top, Rules[q].lhs) # {}
    BY <1>5, <1>2, <1>3, ClosureFacts
  <2>2. r = q /\ Len(Rules[q].rhs) = 0
    BY <2>1, <1>3, ItemFacts DEF IsComplete
  <2>3. n - Len(Rules[r].rhs) = n
    BY <2>2, <1>1
  <2>4. QED
    BY <2>1, <2>2, <2>3, <1>1
<1>6. QED
  BY <1>4, <1>5

\* The rule that Reduction chooses is one of those that can be reduced.
LEMMA ReductionFacts ==
    ASSUME NEW kernel, NEW token, IsState(kernel), Reductions(kernel) # {}
    PROVE  Reduction(kernel, token) \in Reductions(kernel)
<1> DEFINE R == Reductions(kernel)
           fitting == {r \in R : <<Rules[r].lhs, token>> \in Adjacent}
           first(S) == CHOOSE r \in S : \A q \in S : r <= q
<1>1. R \subseteq Nat
  <2>1. ASSUME NEW i \in Closure(kernel) PROVE i.rule \in DOMAIN Rules
    BY ClosureFacts, ItemFacts DEF IsState
  <2>2. QED
    BY <2>1, RulesFacts DEF Reductions
<1>2. ASSUME NEW S, S \subseteq R, S # {} PROVE first(S) \in S
  <2>1. S \subseteq Nat
    BY <1>1, <1>2
  <2>2. \E r \in S : \A q \in S : r <= q
    BY <2>1, <1>2, LeastNat
  <2>3. QED
    BY <2>2
<1>3. fitting \subseteq R
  OBVIOUS
<1>4. Reduction(kernel, token) = IF fitting = {} THEN first(R) ELSE first(fitting)
  BY DEF Reduction
<1> HIDE DEF R, fitting, first
<1>5. Reduction(kernel, token) \in R
  BY <1>2, <1>3, <1>4 DEF R
<1>6. QED
  BY <1>5 DEF R

\* The program is read in the start state alone, and then the stack holds
\* nothing else.
LEMMA ProgramFirst ==
    ASSUME NEW entries, IsSeq(entries), Spelled(entries), NEW j \in DOMAIN entries,
           entries[j].symbol = "program"
    PROVE  j = 1
<1>1. Len(entries) \in Nat /\ j \in 1..Len(entries) /\ j - 1 \in 0..Len(entries)
  BY SeqFacts
<1>2. PICK i \in entries[j].state : TRUE
  BY DEF Spelled
<1>3. IsState(Reached(entries, j - 1))
  BY <1>1, ReachedIsState
<1>4. i \in GoTo(Reached(entries, j - 1), "program")
  BY <1>2 DEF Spelled
<1>5. /\ i.rule \in DOMAIN Rules /\ i.dot \in 1..Len(Rules[i.rule].rhs)
      /\ Rules[i.rule].rhs[i.dot] = "program"
  BY <1>3, <1>4, GoToFacts
<1>6. i.rule = 1 /\ i.dot = 1
  BY <1>5, RuleFacts
<1>7. i.dot = j
  BY <1>2, <1>6 DEF Spelled
<1>8. QED
  BY <1>6, <1>7

\* The end of the input is read in that state alone.
LEMMA EndAfterProgram ==
    ASSUME NEW entries, IsSeq(entries), Spelled(entries),
           GoTo(Reached(entries, Len(entries)), "$end") # {}
    PROVE  Len(entries) = 1 /\ entries[1].symbol = "program"
<1> DEFINE n == Len(entries)
           top == Reached(entries, n)
<1>1. n \in Nat /\ n \in 0..n /\ DOMAIN entries = 1..n
  BY SeqFacts
<1>2. /\ IsState(top)
      /\ \A i \in top : (n = 0 => i = Item(1, 0)) /\ (i.rule = 1 => i.dot = n)
      /\ \A i \in top : n # 0 => i.dot \in 1..n
  BY <1>1, ReachedIsState
<1>3. PICK i \in GoTo(top, "$end") : TRUE
  OBVIOUS
<1>4. /\ i.rule \in DOMAIN Rules /\ i.dot \in 1..Len(Rules[i.rule].rhs)
      /\ Rules[i.rule].rhs[i.dot] = "$end"
      /\ Item(i.rule, i.dot - 1) \in top \/ (i.dot = 1 /\ i.rule # 1)
  BY <1>2, <1>3, GoToFacts
<1>5. i.rule = 1 /\ i.dot = 2
  BY <1>4, RuleFacts
<1>6. Item(1, 1) \in top
  BY <1>4, <1>5
<1>7. n = 1
  <2>1. Item(1, 1).rule = 1 /\ Item(1, 1).dot = 1
    BY ItemFacts
  <2>2. QED
    BY <1>6, <1>2, <2>1
<1>8. Item(1, 1) \in GoTo(Reached(entries, 0), entries[1].symbol)
  BY <1>6, <1>7, <1>1 DEF Spelled, Reached
<1>9. IsState(Reached(entries, 0))
  BY <1>1, <1>7, ReachedIsState
<1>10. Rules[1].rhs[1] = entries[1].symbol
  BY <1>8, <1>9, GoToFacts, ItemFacts
<1>11. 1 \in DOMAIN Rules
  BY RulesFacts
<1>12. QED
  BY <1>7, <1>10, <1>11, RuleFacts

\* In that state nothing else can be read and nothing can be reduced.
LEMMA NothingAfterProgram ==
    ASSUME NEW entries, IsSeq(entries), Spelled(entries), Len(entries) = 1,
           entries[1].symbol = "program"
    PROVE  /\ Reductions(Reached(entries, 1)) = {}
           /\ \A token : GoTo(Reached(entries, 1), token) # {} => token = "$end"
<1> DEFINE top == Reached(entries, 1)
<1>1. 1 \in DOMAIN entries /\ 0 \in 0..Len(entries) /\ 1 \in 0..Len(entries)
  BY SeqFacts
<1>2. IsState(Reached(entries, 0)) /\ IsState(top)
  BY <1>1, ReachedIsState
<1>3. top = GoTo(Reached(entries, 0), "program")
  BY <1>1 DEF Spelled, Reached
<1>4. \A i \in top : i.rule = 1 /\ i.dot = 1
  BY <1>2, <1>3, GoToFacts, RuleFacts
<1>5. 1 \in DOMAIN Rules /\ Rules[1].rhs[2] = "$end" /\ Len(Rules[1].rhs) = 2
  BY RulesFacts, RuleFacts
<1>6. \A i \in top : ~IsComplete(i) /\ Rules[i.rule].rhs[i.dot + 1] = "$end"
  BY <1>4, <1>5 DEF IsComplete
<1>7. Expanded["$end"] = {}
  <2>1. "$end" \in Symbols
    <3>1. 2 \in 1..Len(Rules[1].rhs)
      BY <1>5
    <3>2. QED
      BY <3>1, <1>5, RuleFacts
  <2>2. ASSUME NEW r \in DOMAIN Rules
        PROVE  ~(Rules[r].lhs = "$end" \/ <<"$end", Rules[r].lhs>> \in Corners)
    <3>1. Rules[r].lhs # "$end"
      BY RuleFacts
    <3>2. ASSUME <<"$end", Rules[r].lhs>> \in Corners PROVE FALSE
      <4> DEFINE p == <<"$end", Rules[r].lhs>>
      <4>1. p \in Corners /\ p[1] = "$end"
        BY <3>2
      <4> HIDE DEF p
      <4>2. QED
        BY <4>1, CornersGrounded, EndIsNoNonterminal DEF Grounded
    <3>3. QED
      BY <3>1, <3>2
  <2>3. Expanded["$end"] = {Item(r, 0) : r \in {r \in DOMAIN Rules :
                              Rules[r].lhs = "$end" \/ <<"$end", Rules[r].lhs>> \in Corners}}
    BY <2>1 DEF Expanded
  <2>4. QED
    BY <2>2, <2>3
<1>8. Closure(top) = top
  BY <1>6, <1>7 DEF Closure
<1> HIDE DEF top
<1>9. Reductions(top) = {}
  BY <1>6, <1>8 DEF Reductions
<1>10. \A token : GoTo(top, token) # {} => token = "$end"
  BY <1>6, <1>8 DEF GoTo, Expects
<1>11. QED
  BY <1>9, <1>10 DEF top
-----------------------------------------------------------------------------
(* Counting entries.                                                       *)

LEMMA PlacesFacts ==
    ASSUME NEW entries, IsSeq(entries), NEW P, P \subseteq DOMAIN entries
    PROVE  /\ IsFiniteSet(P) /\ Cardinality(P) \in Nat /\ (Cardinality(P) = 0 <=> P = {})
           /\ P \subseteq 1..Len(entries)
<1>1. DOMAIN entries = 1..Len(entries) /\ Len(entries) \in Int /\ 1 \in Int
  BY SeqFacts
<1>2. IsFiniteSet(DOMAIN entries)
  BY <1>1, FS_Interval
<1>3. P \in SUBSET (DOMAIN entries)
  OBVIOUS
<1>4. IsFiniteSet(P)
  BY <1>2, <1>3, FS_Subset
<1>5. Cardinality(P) \in Nat /\ (Cardinality(P) = 0 <=> P = {})
  BY <1>4, FS_CardinalityType, FS_EmptySet
<1>6. QED
  BY <1>1, <1>4, <1>5

\* The tokens of a handle are numbered from 1, each number once.
LEMMA RankFacts ==
    ASSUME NEW entries, IsSeq(entries)
    PROVE  /\ Cardinality(TokenPlaces(entries)) \in Nat
           /\ \A j \in TokenPlaces(entries) :
                 Rank(entries, j) \in 1..Cardinality(TokenPlaces(entries))
           /\ \A i, j \in TokenPlaces(entries) : Rank(entries, i) = Rank(entries, j) => i = j
           /\ \A n \in 1..Cardinality(TokenPlaces(entries)) :
                 \E j \in TokenPlaces(entries) : Rank(entries, j) = n
<1> DEFINE TP == TokenPlaces(entries)
           c == Cardinality(TP)
           To(j) == {k \in TP : k <= j}
<1>1. TP \subseteq DOMAIN entries /\ \A j : To(j) \subseteq TP /\ To(j) \subseteq DOMAIN entries
  BY DEF TokenPlaces
<1>2. IsFiniteSet(TP) /\ c \in Nat /\ TP \subseteq 1..Len(entries)
  BY <1>1, PlacesFacts
<1>3. \A j : IsFiniteSet(To(j)) /\ Cardinality(To(j)) \in Nat /\ (Cardinality(To(j)) = 0 <=> To(j) = {})
  BY <1>1, PlacesFacts
<1>4. \A j : Rank(entries, j) = Cardinality(To(j))
  BY DEF Rank
<1>5. \A j \in TP : j \in Int
  BY <1>2
<1>6. \A j \in TP : j \in To(j)
  BY <1>5
<1>7. \A j \in TP : Rank(entries, j) \in 1..c
  <2>1. ASSUME NEW j \in TP PROVE Cardinality(To(j)) \in 1..c
    <3>1. To(j) \in SUBSET TP /\ To(j) # {}
      BY <1>1, <1>6, <2>1
    <3> HIDE DEF To, TP
    <3>2. Cardinality(To(j)) <= c
      BY <3>1, <1>2, FS_Subset
    <3>3. QED
      BY <3>1, <3>2, <1>2, <1>3
  <2>2. QED
    BY <2>1, <1>4
<1>8. ASSUME NEW i \in TP, NEW j \in TP, i < j PROVE Cardinality(To(i)) < Cardinality(To(j))
  <2>1. To(i) \cup {j} \in SUBSET To(j) /\ j \notin To(i)
    BY <1>8, <1>5
  <2> HIDE DEF To, TP
  <2>2. Cardinality(To(i) \cup {j}) = Cardinality(To(i)) + 1
    BY <2>1, <1>3, FS_AddElement
  <2>3. Cardinality(To(i) \cup {j}) <= Cardinality(To(j))
    BY <2>1, <1>3, FS_Subset
  <2>4. QED
    BY <2>2, <2>3, <1>3
<1>9. \A i, j \in TP : Rank(entries, i) = Rank(entries, j) => i = j
  <2>1. ASSUME NEW i \in TP, NEW j \in TP, Cardinality(To(i)) = Cardinality(To(j)) PROVE i = j
    <3>1. i \in Int /\ j \in Int /\ Cardinality(To(i)) \in Nat /\ Cardinality(To(j)) \in Nat
      BY <2>1, <1>5, <1>3
    <3>2. ~(i < j) /\ ~(j < i)
      BY <2>1, <3>1, <1>8
    <3>3. QED
      BY <3>1, <3>2
  <2>2. QED
    BY <2>1, <1>4
<1>10. ASSUME NEW n \in 1..c PROVE \E j \in TP : Rank(entries, j) = n
  <2> DEFINE f == [j \in TP |-> Rank(entries, j)]
  <2>1. f \in Injection(TP, 1..c)
    BY <1>7, <1>9 DEF Injection, IsInjective
  <2>2. IsFiniteSet(1..c) /\ Cardinality(1..c) = c
    BY <1>2, FS_Interval
  <2> HIDE DEF f, TP
  <2>3. f \in Surjection(TP, 1..c)
    BY <2>1, <2>2, FS_Injection
  <2>4. \E j \in TP : f[j] = n
    BY <2>3 DEF Surjection
  <2>5. QED
    BY <2>4 DEF f
<1>11. QED
  BY <1>2, <1>7, <1>9, <1>10

\* An action makes a leaf for each token, and at least one child.
LEMMA TextsFacts ==
    ASSUME NEW entries, IsSeq(entries)
    PROVE  /\ IsSeq(TextsOf(entries)) /\ Len(TextsOf(entries)) \in Nat
           /\ entries = <<>> => Len(TextsOf(entries)) = 1
           /\ entries # <<>> => Len(TextsOf(entries)) = Cardinality(TokenPlaces(entries))
<1>1. CASE entries = <<>>
  <2>1. TextsOf(entries) = <<"epsilon">>
    BY <1>1 DEF TextsOf
  <2>2. QED
    BY <1>1, <2>1, ShortSeqs
<1>2. CASE entries # <<>>
  <2> DEFINE c == Cardinality(TokenPlaces(entries))
             t == TextsOf(entries)
  <2>1. c \in Nat
    BY RankFacts
  <2>2. t = [k \in 1..c |-> entries[CHOOSE j \in TokenPlaces(entries) : Rank(entries, j) = k].text]
    BY <1>2 DEF TextsOf
  <2> HIDE DEF c, t
  <2>3. DOMAIN t = 1..c /\ t = [k \in 1..c |-> t[k]]
    BY <2>2
  <2>4. IsSeq(t) /\ Len(t) = c
    BY <2>1, <2>3, FunctionIsSeq
  <2>5. QED
    BY <1>2, <2>1, <2>4 DEF c, t
<1>3. QED
  BY <1>1, <1>2

NamedPlaces(entries) == {j \in DOMAIN entries : entries[j].symbol \in Named}

LEMMA CountNat ==
    ASSUME NEW entries, IsSeq(entries)
    PROVE  /\ CountNamed(entries) = Cardinality(NamedPlaces(entries))
           /\ CountNamed(entries) \in Nat /\ IsFiniteSet(NamedPlaces(entries))
<1>1. NamedPlaces(entries) \subseteq DOMAIN entries
  BY DEF NamedPlaces
<1>2. CountNamed(entries) = Cardinality(NamedPlaces(entries))
  BY DEF CountNamed, NamedPlaces
<1>3. QED
  BY <1>1, <1>2, PlacesFacts

LEMMA CountNothing == CountNamed(<<>>) = 0
<1>1. NamedPlaces(<<>>) = {}
  BY DEF NamedPlaces
<1>2. QED
  BY <1>1, CountNat, ShortSeqs, FS_EmptySet

\* The texts of a stack when an entry is pushed.
LEMMA CountPushed ==
    ASSUME NEW entries, IsSeq(entries), NEW e
    PROVE  CountNamed(Append(entries, e))
             = CountNamed(entries) + (IF e.symbol \in Named THEN 1 ELSE 0)
<1> DEFINE p == Append(entries, e)
           m == Len(entries)
<1>1. /\ IsSeq(p) /\ Len(p) = m + 1 /\ p[m + 1] = e
      /\ \A i \in 1..m : p[i] = entries[i]
  BY AppendFacts
<1>2. m \in Nat /\ DOMAIN entries = 1..m
  BY SeqFacts
<1>3. DOMAIN p = 1..m + 1
  BY <1>1, SeqFacts
<1> HIDE DEF p, m
<1>4. NamedPlaces(p) = NamedPlaces(entries) \cup (IF e.symbol \in Named THEN {m + 1} ELSE {})
  BY <1>1, <1>2, <1>3 DEF NamedPlaces
<1>5. m + 1 \notin NamedPlaces(entries)
  BY <1>2 DEF NamedPlaces
<1>6. IsFiniteSet(NamedPlaces(entries)) /\ CountNamed(entries) = Cardinality(NamedPlaces(entries))
      /\ CountNamed(p) = Cardinality(NamedPlaces(p)) /\ CountNamed(entries) \in Nat
  BY <1>1, CountNat
<1>7. CASE e.symbol \in Named
  BY <1>4, <1>5, <1>6, <1>7, FS_AddElement DEF p
<1>8. CASE e.symbol \notin Named
  BY <1>4, <1>6, <1>8 DEF p
<1>9. QED
  BY <1>7, <1>8

\* The texts of a stack are those of its first entries and of the others.
LEMMA CountSplit ==
    ASSUME NEW s, IsSeq(s), NEW m \in 0..Len(s)
    PROVE  CountNamed(s) = CountNamed(SubSeq(s, 1, m)) + CountNamed(SubSeq(s, m + 1, Len(s)))
<1> DEFINE low == SubSeq(s, 1, m)
           high == SubSeq(s, m + 1, Len(s))
           n == Len(s)
           moved == {m + j : j \in NamedPlaces(high)}
           f == [j \in NamedPlaces(high) |-> m + j]
<1>1. IsSeq(low) /\ Len(low) = m /\ \A i \in 1..m : low[i] = s[i]
  BY TakeFacts
<1>2. IsSeq(high) /\ Len(high) = n - m /\ \A i \in 1..n - m : high[i] = s[m + i]
  BY DropFacts
<1>3. n \in Nat /\ m \in Nat /\ m <= n /\ DOMAIN s = 1..n
  BY SeqFacts
<1>4. DOMAIN low = 1..m /\ DOMAIN high = 1..n - m
  BY <1>1, <1>2, SeqFacts
<1> HIDE DEF low, high, n
<1>5. /\ NamedPlaces(low) = {j \in 1..m : s[j].symbol \in Named}
      /\ NamedPlaces(high) = {j \in 1..n - m : s[m + j].symbol \in Named}
      /\ NamedPlaces(s) = {j \in 1..n : s[j].symbol \in Named}
  BY <1>1, <1>2, <1>3, <1>4 DEF NamedPlaces
<1>6. NamedPlaces(s) = NamedPlaces(low) \cup moved
  <2>1. ASSUME NEW j \in NamedPlaces(s) PROVE j \in NamedPlaces(low) \cup moved
    <3>1. CASE j <= m
      BY <3>1, <1>5, <1>3
    <3>2. CASE ~(j <= m)
      <4>1. j - m \in 1..n - m /\ m + (j - m) = j
        BY <3>2, <1>5, <1>3
      <4>2. j - m \in NamedPlaces(high)
        BY <4>1, <1>5
      <4>3. QED
        BY <4>1, <4>2
    <3>3. QED
      BY <3>1, <3>2
  <2>2. NamedPlaces(low) \subseteq NamedPlaces(s)
    BY <1>5, <1>3
  <2>3. ASSUME NEW j \in NamedPlaces(high) PROVE m + j \in NamedPlaces(s)
    BY <1>5, <1>3
  <2>4. QED
    BY <2>1, <2>2, <2>3
<1>7. NamedPlaces(low) \cap moved = {}
  BY <1>5, <1>3
<1>8. f \in Bijection(NamedPlaces(high), moved)
  <2>1. \A j \in NamedPlaces(high) : j \in Int
    BY <1>5
  <2>2. f \in [NamedPlaces(high) -> moved]
    OBVIOUS
  <2>3. \A a, b \in NamedPlaces(high) : f[a] = f[b] => a = b
    BY <2>1, <1>3
  <2>4. \A t \in moved : \E a \in NamedPlaces(high) : f[a] = t
    OBVIOUS
  <2>5. QED
    BY <2>2, <2>3, <2>4 DEF Bijection, Injection, IsInjective, Surjection
<1> HIDE DEF moved, f
<1>9. /\ IsFiniteSet(NamedPlaces(low)) /\ CountNamed(low) = Cardinality(NamedPlaces(low))
      /\ IsFiniteSet(NamedPlaces(high)) /\ CountNamed(high) = Cardinality(NamedPlaces(high))
      /\ CountNamed(s) = Cardinality(NamedPlaces(s))
      /\ CountNamed(low) \in Nat /\ CountNamed(high) \in Nat
  BY <1>1, <1>2, CountNat
<1>10. IsFiniteSet(moved) /\ Cardinality(moved) = Cardinality(NamedPlaces(high))
  BY <1>8, <1>9, FS_Bijection DEF ExistsBijection
<1>11. Cardinality(NamedPlaces(s)) =
         Cardinality(NamedPlaces(low)) + Cardinality(moved) - Cardinality(NamedPlaces(low) \cap moved)
  BY <1>6, <1>9, <1>10, FS_Union
<1>12. Cardinality(NamedPlaces(low) \cap moved) = 0
  BY <1>7, FS_EmptySet
<1>13. CountNamed(s) = CountNamed(low) + CountNamed(high)
  BY <1>9, <1>10, <1>11, <1>12
<1>14. QED
  BY <1>13 DEF low, high, n
-----------------------------------------------------------------------------
(* The nodes below a node.                                                 *)

\* The least set of nodes that holds a node and the children of its members.
Closed(nds, S) == \A m \in S : Range(nds[m].children) \subseteq S
Reach(nds, n) ==
    {x \in DOMAIN nds : \A S \in SUBSET DOMAIN nds : n \in S /\ Closed(nds, S) => x \in S}

BelowIn(nds, node) ==
    LET below[n \in DOMAIN nds] == {n} \cup UNION {below[c] : c \in Range(nds[n].children)}
    IN  below[node]

\* Children are older than their parents.
Older(nds) ==
    IsSeq(nds) /\ \A n \in DOMAIN nds : Range(nds[n].children) \subseteq 1..n - 1

LEMMA ReachFacts ==
    ASSUME NEW nds, Older(nds), NEW n \in DOMAIN nds
    PROVE  /\ Reach(nds, n) = {n} \cup UNION {Reach(nds, c) : c \in Range(nds[n].children)}
           /\ Reach(nds, n) \subseteq DOMAIN nds /\ Closed(nds, Reach(nds, n))
           /\ Range(nds[n].children) \subseteq DOMAIN nds
<1> DEFINE N == DOMAIN nds
           ch(m) == Range(nds[m].children)
<1>1. N = 1..Len(nds) /\ Len(nds) \in Nat
  BY SeqFacts DEF Older
<1>2. \A m \in N : ch(m) \subseteq N
  BY <1>1 DEF Older
<1> HIDE DEF N
<1>3. ASSUME NEW m \in N PROVE m \in Reach(nds, m)
  BY <1>3 DEF Reach, N
<1>4. \A m \in N : Reach(nds, m) \subseteq N
  BY DEF Reach, N
<1>5. ASSUME NEW m \in N, NEW x \in Reach(nds, m), NEW y \in ch(x) PROVE y \in Reach(nds, m)
  <2>1. y \in N
    BY <1>2, <1>4, <1>5
  <2>2. ASSUME NEW S \in SUBSET N, m \in S, Closed(nds, S) PROVE y \in S
    <3>1. x \in S
      BY <2>2, <1>5 DEF Reach, N
    <3>2. QED
      BY <3>1, <2>2, <1>5 DEF Closed
  <2>3. QED
    BY <2>1, <2>2 DEF Reach, N
<1>6. ASSUME NEW c \in ch(n) PROVE Reach(nds, c) \subseteq Reach(nds, n)
  <2>1. n \in N
    BY DEF N
  <2>2. ASSUME NEW x \in Reach(nds, c), NEW S \in SUBSET N, n \in S, Closed(nds, S) PROVE x \in S
    <3>1. c \in S
      BY <2>2, <1>6 DEF Closed
    <3>2. QED
      BY <3>1, <2>2 DEF Reach, N
  <2>3. QED
    BY <2>2 DEF Reach, N
<1>7. Reach(nds, n) \subseteq {n} \cup UNION {Reach(nds, c) : c \in ch(n)}
  <2> DEFINE S == {n} \cup UNION {Reach(nds, c) : c \in ch(n)}
  <2>1. n \in N /\ ch(n) \subseteq N
    BY <1>2 DEF N
  <2>2. S \in SUBSET N
    BY <2>1, <1>4
  <2>3. ASSUME NEW m \in S PROVE ch(m) \subseteq S
    <3>1. CASE m = n
      BY <3>1, <1>3, <2>1
    <3>2. CASE m # n
      <4>1. PICK c \in ch(n) : m \in Reach(nds, c)
        BY <3>2, <2>3
      <4>2. ch(m) \subseteq Reach(nds, c)
        BY <4>1, <2>1, <1>5
      <4>3. QED
        BY <4>2
    <3>3. QED
      BY <3>1, <3>2
  <2>4. Closed(nds, S)
    BY <2>3 DEF Closed
  <2>5. n \in S
    OBVIOUS
  <2> HIDE DEF S
  <2>6. Reach(nds, n) \subseteq S
    BY <2>2, <2>4, <2>5 DEF Reach, N
  <2>7. QED
    BY <2>6 DEF S
<1>8. n \in N
  BY DEF N
<1>9. Reach(nds, n) = {n} \cup UNION {Reach(nds, c) : c \in ch(n)}
  BY <1>3, <1>6, <1>7, <1>8
<1>10. Closed(nds, Reach(nds, n))
  BY <1>5, <1>8 DEF Closed
<1>11. QED
  BY <1>2, <1>4, <1>8, <1>9, <1>10 DEF N

LEMMA BelowIsReach ==
    ASSUME NEW nds, Older(nds), NEW node \in DOMAIN nds
    PROVE  BelowIn(nds, node) = Reach(nds, node)
<1> DEFINE N == DOMAIN nds
           ch(m) == Range(nds[m].children)
           Is(f) == f = [n \in N |-> {n} \cup UNION {f[c] : c \in ch(n)}]
           g == CHOOSE f : Is(f)
           h == [n \in N |-> Reach(nds, n)]
<1>1. N = 1..Len(nds) /\ Len(nds) \in Nat /\ \A m \in N : ch(m) \subseteq 1..m - 1
  BY SeqFacts DEF Older
<1>2. \A m \in N : ch(m) \subseteq N
  BY <1>1
<1>3. Is(h)
  <2>1. ASSUME NEW n \in N PROVE h[n] = {n} \cup UNION {h[c] : c \in ch(n)}
    <3>1. UNION {h[c] : c \in ch(n)} = UNION {Reach(nds, c) : c \in ch(n)}
      BY <1>2
    <3>2. h[n] = Reach(nds, n)
      OBVIOUS
    <3>3. QED
      BY <3>1, <3>2, ReachFacts
  <2>2. QED
    BY <2>1
<1>4. Is(g)
  <2> HIDE DEF Is, h
  <2>1. \E f : Is(f)
    BY <1>3
  <2>2. QED
    BY <2>1
<1>5. BelowIn(nds, node) = g[node]
  BY DEF BelowIn
<1> HIDE DEF g
<1> DEFINE T == {n \in N : g[n] # Reach(nds, n)}
<1>6. T = {}
  <2> SUFFICES ASSUME T # {} PROVE FALSE
    OBVIOUS
  <2>1. T \subseteq Nat
    BY <1>1
  <2> HIDE DEF T
  <2>2. PICK m \in T : \A k \in T : m <= k
    BY <2>1, LeastNat
  <2>3. m \in N /\ m \in Nat
    BY <2>1, <2>2 DEF T
  <2>4. ASSUME NEW c \in ch(m) PROVE g[c] = Reach(nds, c)
    <3>0. ch(m) \subseteq 1..m - 1 /\ ch(m) \subseteq N
      BY <2>3, <1>1, <1>2
    <3>1. c \in N /\ c < m
      BY <3>0, <2>4, <2>3
    <3>2. c \notin T
      BY <3>1, <2>2, <2>3, <1>1
    <3>3. QED
      BY <3>1, <3>2 DEF T
  <2>5. g[m] = {m} \cup UNION {g[c] : c \in ch(m)}
    BY <1>4, <2>3
  <2>6. g[m] = Reach(nds, m)
    BY <2>3, <2>4, <2>5, ReachFacts
  <2>7. QED
    BY <2>6, <2>2 DEF T
<1>7. QED
  BY <1>5, <1>6
\* All but the node itself have a parent among the nodes below.
LEMMA ReachParent ==
    ASSUME NEW nds, Older(nds), NEW n \in DOMAIN nds, NEW x \in Reach(nds, n), x # n
    PROVE  \E m \in Reach(nds, n) : x \in Range(nds[m].children)
<1> SUFFICES ASSUME \A m \in Reach(nds, n) : x \notin Range(nds[m].children) PROVE FALSE
  OBVIOUS
<1> DEFINE S == Reach(nds, n) \ {x}
<1>1. Reach(nds, n) \subseteq DOMAIN nds /\ Closed(nds, Reach(nds, n)) /\ n \in Reach(nds, n)
  BY ReachFacts
<1>2. n \in S /\ S \in SUBSET DOMAIN nds /\ x \notin S
  BY <1>1
<1>3. Closed(nds, S)
  BY <1>1 DEF Closed
<1> HIDE DEF S
<1>4. x \in S
  BY <1>2, <1>3 DEF Reach
<1>5. QED
  BY <1>2, <1>4

\* Nodes that are new leave what is below the others alone.
LEMMA ReachKept ==
    ASSUME NEW old, NEW new, Older(old), Older(new), DOMAIN old \subseteq DOMAIN new,
           \A n \in DOMAIN old : new[n].children = old[n].children,
           NEW n \in DOMAIN old
    PROVE  Reach(new, n) = Reach(old, n)
<1>1. \A m \in DOMAIN old : Range(old[m].children) \subseteq DOMAIN old
  BY ReachFacts
<1>2. /\ Reach(old, n) \subseteq DOMAIN old /\ Closed(old, Reach(old, n)) /\ n \in Reach(old, n)
  BY ReachFacts
<1>3. n \in DOMAIN new /\ Closed(new, Reach(new, n)) /\ n \in Reach(new, n)
  BY ReachFacts
<1>4. Reach(new, n) \subseteq Reach(old, n)
  <2>1. Closed(new, Reach(old, n)) /\ Reach(old, n) \in SUBSET DOMAIN new
    BY <1>2 DEF Closed
  <2>2. QED
    BY <2>1, <1>2 DEF Reach
<1>5. Reach(old, n) \subseteq Reach(new, n)
  <2> DEFINE S == Reach(new, n) \cap DOMAIN old
  <2>1. Closed(old, S) /\ n \in S /\ S \in SUBSET DOMAIN old
    BY <1>1, <1>3 DEF Closed
  <2> HIDE DEF S
  <2>2. Reach(old, n) \subseteq S
    BY <2>1 DEF Reach
  <2>3. QED
    BY <2>2 DEF S
<1>6. QED
  BY <1>4, <1>5

LEMMA BelowFacts ==
    ASSUME Forest, NEW n \in DOMAIN nodes
    PROVE  Older(nodes) /\ Below(n) = Reach(nodes, n)
<1>1. Older(nodes)
  BY DEF Forest, Older, Children
<1>2. Below(n) = BelowIn(nodes, n)
  BY DEF Below, BelowIn
<1>3. QED
  BY <1>1, <1>2, BelowIsReach

-----------------------------------------------------------------------------
(* The steps.                                                              *)

\* The parser takes no token for the start symbol.
LEMMA ProgramIsNonterminal == "program" \in Nonterminals
<1> DEFINE start == <<Rule("$accept", <<"program", "$end">>)>>
           first == DeclarationRules[1]
<1>1. first = Rule("program", <<"declaration-list">>) /\ 1 \in DOMAIN DeclarationRules
  BY DEF DeclarationRules
<1>2. first.lhs = "program" /\ first \in Range(DeclarationRules)
  BY <1>1 DEF Rule, Range
<1>3. IsSeq(start)
  BY ShortSeqs
<1>4. /\ IsSeq(DeclarationRules) /\ IsSeq(StatementRules)
      /\ IsSeq(ExpressionRules) /\ IsSeq(CallRules)
  BY WrittenDeclarations, WrittenStatements, WrittenExpressions, WrittenCalls DEF Written
<1>5. Rules = start \o DeclarationRules \o StatementRules \o ExpressionRules \o CallRules
  BY DEF Rules
<1> HIDE DEF start, first
<1>6. IsSeq(start \o DeclarationRules) /\ first \in Range(start \o DeclarationRules)
  BY <1>2, <1>3, <1>4, ConcatFacts
<1> DEFINE two == start \o DeclarationRules
<1> HIDE DEF two
<1>7. IsSeq(two) /\ first \in Range(two)
  BY <1>6 DEF two
<1>8. IsSeq(two \o StatementRules) /\ first \in Range(two \o StatementRules)
  BY <1>7, <1>4, ConcatFacts
<1> DEFINE three == two \o StatementRules
<1> HIDE DEF three
<1>9. IsSeq(three) /\ first \in Range(three)
  BY <1>8 DEF three
<1>10. IsSeq(three \o ExpressionRules) /\ first \in Range(three \o ExpressionRules)
  BY <1>9, <1>4, ConcatFacts
<1> DEFINE four == three \o ExpressionRules
<1> HIDE DEF four
<1>11. IsSeq(four) /\ first \in Range(four)
  BY <1>10 DEF four
<1>12. first \in Range(four \o CallRules)
  BY <1>11, <1>4, ConcatFacts
<1>13. first \in Range(Rules)
  BY <1>5, <1>12 DEF two, three, four
<1>14. QED
  BY <1>2, <1>13 DEF Nonterminals, Range

\* A batch is a sequence of sequences of tokens.
LEMMA BatchFacts ==
    ASSUME NEW b, IsBatch(b)
    PROVE  /\ IsSeq(b) /\ Len(b) \in Nat /\ DOMAIN b = 1..Len(b)
           /\ \A f \in DOMAIN b :
                 /\ IsSeq(b[f])
                 /\ \A token \in Range(b[f]) : token.type \notin Nonterminals \cup {"$end"}
  BY SeqFacts DEF IsBatch

LEMMA BatchesFacts == \A b \in Batches : IsBatch(b)
<1> SUFFICES ASSUME NEW b \in Batches PROVE IsBatch(b)
  OBVIOUS
<1>1. IsSeq(b)
  BY BatchesAssumption DEF IsSeq
<1>2. \A f \in DOMAIN b : IsSeq(b[f])
  BY BatchesAssumption DEF IsSeq
<1>3. \A f \in DOMAIN b : \A token \in Range(b[f]) : token.type \notin Nonterminals \cup {"$end"}
  BY BatchesAssumption DEF Range
<1>4. QED
  BY <1>1, <1>2, <1>3 DEF IsBatch

\* Nothing is allocated when the driver starts.
LEMMA InitMemory == Init => MemoryInv
<1> SUFFICES ASSUME Init PROVE MemoryInv
  OBVIOUS
<1> USE DEF Init
<1>1. Files
  <2>1. IsBatch(batch) /\ IsSeq(batch) /\ Len(batch) \in Nat /\ 0 \in 0..Len(batch)
    BY BatchesFacts, BatchFacts
  <2>2. IsSeq(input) /\ Range(input) = {}
    BY ShortSeqs
  <2>3. DOMAIN verdicts = DOMAIN batch /\ \A f \in DOMAIN batch : verdicts[f] = "unread"
    OBVIOUS
  <2>4. QED
    BY <2>1, <2>2, <2>3 DEF Files
<1>2. ParserStack
  BY ShortSeqs DEF ParserStack, Spelled
<1>3. Forest
  BY ShortSeqs DEF Forest, InHand
<1>4. Roots
  BY DEF Roots, Nullptr
<1>5. Counts
  BY CountNothing DEF Counts
<1>6. Reading
  BY DEF Reading
<1>7. QED
  BY <1>1, <1>2, <1>3, <1>4, <1>5, <1>6 DEF MemoryInv

\* syntax() makes a tree and opens the files.
LEMMA OpenMemory == ASSUME MemoryInv, Open PROVE MemoryInv'
<1> USE DEF MemoryInv
<1>1. /\ pc = "next" /\ stack = <<>> /\ file \in Nat /\ file + 1 \in 1..Len(batch)
      /\ pc' \in {"exit", "next", "parse"} /\ file' = file + 1
      /\ input' = (IF pc' = "parse" THEN batch[file + 1] ELSE input)
      /\ trees' = trees + 1 /\ root' \in {Nullptr, Wild}
      /\ UNCHANGED <<batch, stack, nodes, live, strings, verdicts>>
  <2>1. IsBatch(batch) /\ Len(batch) \in Nat
    BY BatchFacts DEF Files
  <2>2. /\ pc = "next" /\ file < Len(batch) /\ file' = file + 1
        /\ trees' = trees + 1 /\ root' \in {Nullptr, Wild}
        /\ UNCHANGED <<batch, stack, nodes, live, strings, verdicts>>
    BY DEF Open
  <2>3. /\ pc' \in {"exit", "next", "parse"}
        /\ input' = (IF pc' = "parse" THEN batch[file'] ELSE input)
    BY DEF Open, Restarted
  <2>4. stack = <<>> /\ file \in 0..Len(batch)
    BY <2>2 DEF ParserStack, Files
  <2>5. file \in Nat /\ file + 1 \in 1..Len(batch)
    BY <2>1, <2>2, <2>4
  <2>6. input' = (IF pc' = "parse" THEN batch[file + 1] ELSE input)
    BY <2>2, <2>3
  <2>7. QED
    BY <2>2, <2>3, <2>4, <2>5, <2>6
<1>2. /\ IsBatch(batch) /\ DOMAIN batch = 1..Len(batch) /\ Len(batch) \in Nat
  BY BatchFacts DEF Files
<1>3. Files'
  <2>1. IsSeq(input') /\ \A token \in Range(input') : token.type \notin Nonterminals \cup {"$end"}
    <3>1. CASE pc' = "parse"
      BY <3>1, <1>1, <1>2, BatchFacts
    <3>2. CASE pc' # "parse"
      BY <3>2, <1>1 DEF Files
    <3>3. QED
      BY <3>1, <3>2
  <2>2. \A f \in DOMAIN batch : f > file + 1 \/ f = file + 1 => f > file
    BY <1>1, <1>2
  <2>3. \A f \in DOMAIN batch : f > file' \/ (f = file' /\ pc' = "parse") => verdicts'[f] = "unread"
    BY <2>2, <1>1 DEF Files
  <2>4. file' \in 0..Len(batch') /\ file' >= 1
    BY <1>1, <1>2
  <2>5. QED
    BY <2>1, <2>3, <2>4, <1>1 DEF Files
<1>4. ParserStack'
  BY <1>1 DEF ParserStack, Spelled
<1>5. Forest'
  <2>1. InHand' = {}
    BY <1>1 DEF InHand, Tops
  <2>2. \A n : Children(n)' = Children(n)
    BY <1>1 DEF Children
  <2>3. QED
    BY <2>1, <2>2, <1>1 DEF Forest
<1>6. Roots'
  <2>1. root' \notin live
    <3>1. live \subseteq 1..Len(nodes)
      BY SeqFacts DEF Forest
    <3>2. QED
      BY <3>1, <1>1 DEF Nullptr, Wild
  <2>2. QED
    BY <2>1, <1>1 DEF Roots
<1>7. Counts'
  BY <1>1 DEF Counts
<1>8. Reading'
  <2>1. CASE pc' = "parse"
    <3>1. input' = batch[file'] /\ batch' = batch
      BY <2>1, <1>1
    <3>2. Len(input') \in Nat /\ DOMAIN input' = 1..Len(input')
      BY <1>3, SeqFacts DEF Files
    <3>3. \A j \in 1..Len(input') : Len(input') - Len(input') + j = j
      BY <3>2
    <3>4. QED
      BY <3>1, <3>2, <3>3 DEF Reading
  <2>2. QED
    BY <2>1 DEF Reading
<1>9. QED
  BY <1>3, <1>4, <1>5, <1>6, <1>7, <1>8
\* What is known of the parser's stack while it parses.
LEMMA StackFacts ==
    ASSUME MemoryInv
    PROVE  /\ IsSeq(stack) /\ Spelled(stack) /\ Len(stack) \in Nat
           /\ DOMAIN stack = 1..Len(stack) /\ Len(stack) \in 0..Len(stack)
           /\ State = Reached(stack, Len(stack)) /\ IsState(State)
<1>1. IsSeq(stack) /\ Spelled(stack)
  BY DEF MemoryInv, ParserStack
<1>2. Len(stack) \in Nat /\ DOMAIN stack = 1..Len(stack)
  BY <1>1, SeqFacts
<1>3. Len(stack) \in 0..Len(stack)
  BY <1>2
<1>4. State = Reached(stack, Len(stack))
  BY <1>1, StateIsReached DEF State
<1>5. IsState(State)
  BY <1>1, <1>3, <1>4, ReachedIsState
<1>6. QED
  BY <1>1, <1>2, <1>3, <1>4, <1>5

\* While a program is on the stack nothing is shifted or reduced, and
\* otherwise the root has not been set.
LEMMA RootSetLast ==
    ASSUME MemoryInv, pc = "parse", Reductions(State) # {} \/ \E t : t # "$end" /\ Shifts(State, t)
    PROVE  root \notin live /\ \A j \in DOMAIN stack : stack[j].symbol # "program"
<1>1. ASSUME root \in live PROVE FALSE
  <2>1. Len(stack) = 1 /\ stack[1].symbol = "program"
    BY <1>1 DEF MemoryInv, Roots
  <2>2. State = Reached(stack, 1) /\ IsSeq(stack) /\ Spelled(stack)
    BY <2>1, StackFacts
  <2>3. /\ Reductions(State) = {}
        /\ \A t : GoTo(State, t) # {} => t = "$end"
    BY <2>1, <2>2, NothingAfterProgram
  <2>4. QED
    BY <2>3 DEF Shifts
<1>2. QED
  BY <1>1 DEF MemoryInv, Roots

\* yylex returns a token and the parser shifts it.
LEMMA ShiftMemory == ASSUME MemoryInv, Shift PROVE MemoryInv'
<1> DEFINE token == Head(input)
           e == Entry(token.type, GoTo(State, token.type), 0,
                      IF token.type \in Named THEN token.text ELSE Lexeme[token.type])
           n == Len(stack)
<1>1. /\ pc = "parse" /\ input # <<>> /\ Shifts(State, token.type)
      /\ input' = Tail(input) /\ stack' = Append(stack, e)
      /\ strings' = strings + (IF token.type \in Named THEN 1 ELSE 0)
      /\ UNCHANGED <<batch, file, pc, nodes, live, root, trees, verdicts, outputs>>
  BY DEF Shift
<1>2. /\ IsSeq(stack) /\ Spelled(stack) /\ n \in Nat /\ DOMAIN stack = 1..n
      /\ State = Reached(stack, n)
  BY StackFacts
<1>3. IsSeq(input) /\ \A t \in Range(input) : t.type \notin Nonterminals \cup {"$end"}
  BY DEF MemoryInv, Files
<1>4. /\ IsSeq(Tail(input)) /\ Range(Tail(input)) \subseteq Range(input)
      /\ token \in Range(input)
  BY <1>1, <1>3, TailFacts
<1>5. token.type # "$end" /\ token.type # "program"
  BY <1>3, <1>4, ProgramIsNonterminal
<1>6. e.symbol = token.type /\ e.state = GoTo(State, token.type) /\ e.node = 0
  BY DEF Entry
<1> HIDE DEF e, token
<1>7. /\ IsSeq(stack') /\ Len(stack') = n + 1 /\ stack'[n + 1] = e
      /\ \A j \in 1..n : stack'[j] = stack[j]
  BY <1>1, <1>2, AppendFacts
<1>8. DOMAIN stack' = 1..n + 1
  BY <1>7, SeqFacts
<1> HIDE DEF n
<1>9. \A j \in DOMAIN stack' : (j \in DOMAIN stack /\ stack'[j] = stack[j]) \/ (j = n + 1 /\ stack'[j] = e)
  BY <1>2, <1>7, <1>8
<1>10. Files'
  BY <1>1, <1>3, <1>4 DEF MemoryInv, Files
<1>11. ParserStack'
  <2>1. e.state # {}
    BY <1>1, <1>6 DEF Shifts
  <2>2. Spelled(Append(stack, e))
    BY <1>2, <1>5, <1>6, <2>1, PushedSpelled DEF n
  <2>3. QED
    BY <1>1, <1>7, <2>2 DEF ParserStack
<1>12. Forest'
  <2>1. Tops' = Tops
    <3>1. DOMAIN stack \subseteq DOMAIN stack' /\ \A j \in DOMAIN stack : stack'[j] = stack[j]
      BY <1>2, <1>7, <1>8
    <3>2. QED
      BY <3>1, <1>9, <1>6 DEF Tops
  <2>2. InHand' = InHand
    BY <2>1, <1>1 DEF InHand
  <2>3. \A m : Children(m)' = Children(m)
    BY <1>1 DEF Children
  <2>4. \A m : Parents(m)' = Parents(m)
    BY <1>1, <2>3 DEF Parents
  <2>5. \A j, k \in DOMAIN stack' : stack'[j].node = stack'[k].node => stack'[j].node = 0 \/ j = k
    BY <1>6, <1>9 DEF MemoryInv, Forest
  <2>6. \A j \in DOMAIN stack' : stack'[j].node \in {0} \cup live
    BY <1>6, <1>9 DEF MemoryInv, Forest
  <2>7. QED
    BY <2>2, <2>3, <2>4, <2>5, <2>6, <1>1 DEF MemoryInv, Forest
<1>13. Roots'
  <2>1. root \notin live /\ \A j \in DOMAIN stack : stack[j].symbol # "program"
    BY <1>1, <1>5, RootSetLast
  <2>2. \A j \in DOMAIN stack' : stack'[j].symbol # "program"
    BY <2>1, <1>5, <1>6, <1>9
  <2>3. QED
    BY <2>1, <2>2, <1>1 DEF MemoryInv, Roots
<1>14. Counts'
  <2>1. CountNamed(stack') = CountNamed(stack) + (IF token.type \in Named THEN 1 ELSE 0)
    BY <1>1, <1>2, <1>6, CountPushed
  <2>2. CountNamed(stack) \in Nat
    BY <1>2, CountNat
  <2>3. CountNamed(stack)' = CountNamed(stack')
    OBVIOUS
  <2>4. QED
    BY <2>1, <2>2, <2>3, <1>1 DEF MemoryInv, Counts
<1>15. Reading'
  <2> DEFINE text == batch[file]
             rest == Tail(input)
  <2>1. /\ Len(input) <= Len(text)
        /\ \A j \in DOMAIN input : input[j] = text[Len(text) - Len(input) + j]
    BY <1>1 DEF MemoryInv, Reading
  <2>2. /\ Len(input) \in Nat /\ DOMAIN input = 1..Len(input) /\ Len(input) >= 1
    BY <1>1, <1>3, TailFacts, SeqFacts
  <2>3. /\ Len(rest) = Len(input) - 1 /\ DOMAIN rest = 1..Len(rest)
        /\ \A j \in 1..Len(rest) : rest[j] = input[j + 1]
    BY <1>1, <1>3, <1>4, TailFacts, SeqFacts
  <2>4. Len(text) \in Nat
    BY <1>1, BatchFacts, SeqFacts DEF MemoryInv, Files
  <2> HIDE DEF rest, text
  <2>5. \A j \in 1..Len(rest) :
           j + 1 \in 1..Len(input) /\ Len(text) - Len(input) + (j + 1) = Len(text) - Len(rest) + j
    BY <2>2, <2>3, <2>4
  <2>6. Len(rest) <= Len(text)
    BY <2>1, <2>2, <2>3, <2>4
  <2>7. \A j \in DOMAIN rest : rest[j] = text[Len(text) - Len(rest) + j]
    BY <2>1, <2>2, <2>3, <2>5
  <2>8. input' = rest /\ batch' = batch /\ file' = file
    BY <1>1 DEF rest
  <2>9. QED
    BY <2>6, <2>7, <2>8 DEF Reading, text
<1>16. QED
  BY <1>10, <1>11, <1>12, <1>13, <1>14, <1>15 DEF MemoryInv

\* A root that has been set has no parent.
LEMMA RootAlone ==
    ASSUME MemoryInv, root \in live, pc \in {"parse", "print"}
    PROVE  /\ Parents(root) = {} /\ root \in DOMAIN nodes /\ root \notin {Nullptr, Wild}
           /\ InHand = {root}
<1>1. root \in DOMAIN nodes /\ root \notin {Nullptr, Wild}
  <2>1. live \subseteq 1..Len(nodes) /\ live \subseteq DOMAIN nodes
    BY SeqFacts DEF MemoryInv, Forest
  <2>2. QED
    BY <2>1 DEF Nullptr, Wild
<1>2. InHand = {root}
  <2>1. CASE pc = "parse"
    <3>1. Len(stack) = 1 /\ stack[1].symbol = "program" /\ DOMAIN stack = 1..Len(stack)
      BY <2>1, StackFacts DEF MemoryInv, Roots
    <3>2. 1 \in DOMAIN stack /\ \A j \in DOMAIN stack : j = 1
      BY <3>1
    <3>3. root = stack[1].node
      BY <3>1, <3>2 DEF MemoryInv, Roots
    <3>4. Tops = {root}
      BY <3>2, <3>3, <1>1 DEF Tops, Nullptr
    <3>5. QED
      BY <2>1, <3>4 DEF InHand
  <2>2. CASE pc = "print"
    BY <2>2, <1>1 DEF InHand
  <2>3. QED
    BY <2>1, <2>2
<1>3. QED
  BY <1>1, <1>2 DEF MemoryInv, Forest

\* yyparse returns: the stack is dropped, the root stays.
LEMMA AnsweredMemory ==
    ASSUME MemoryInv, pc = "parse", NEW verdict, verdict = "accepted" => root \in live,
           NEW more \in {0, 1},
           verdicts' = [verdicts EXCEPT ![file] = verdict], stack' = <<>>, pc' = "print",
           strings' = strings + more,
           UNCHANGED <<batch, file, input, nodes, live, root, trees>>
    PROVE  MemoryInv'
<1>1. file \in DOMAIN batch /\ file \in Nat /\ DOMAIN verdicts = DOMAIN batch
  <2>1. IsBatch(batch) /\ file \in 0..Len(batch) /\ file >= 1 /\ DOMAIN verdicts = DOMAIN batch
    BY DEF MemoryInv, Files
  <2>2. Len(batch) \in Nat /\ DOMAIN batch = 1..Len(batch)
    BY <2>1, BatchFacts
  <2>3. QED
    BY <2>1, <2>2
<1>2. Files'
  <2>1. DOMAIN verdicts' = DOMAIN batch
    BY <1>1
  <2>2. \A f \in DOMAIN batch : f > file => verdicts'[f] = verdicts[f]
    BY <1>1
  <2>3. QED
    BY <2>1, <2>2 DEF MemoryInv, Files
<1>3. ParserStack'
  BY ShortSeqs DEF ParserStack, Spelled
<1>4. Forest'
  <2>1. \A m : Children(m)' = Children(m)
    BY DEF Children
  <2>2. \A m : Parents(m)' = Parents(m)
    BY <2>1 DEF Parents
  <2>3. InHand' = {root} \ {Nullptr, Wild}
    BY DEF InHand
  <2>4. InHand' \subseteq live /\ \A m \in InHand' : Parents(m) = {}
    <3>1. CASE root \in live
      BY <3>1, <2>3, RootAlone
    <3>2. CASE root \notin live
      BY <3>2, <2>3 DEF MemoryInv, Roots
    <3>3. QED
      BY <3>1, <3>2
  <2>5. DOMAIN stack' = {}
    OBVIOUS
  <2>6. QED
    BY <2>1, <2>2, <2>4, <2>5 DEF MemoryInv, Forest
<1>5. Roots'
  <2>1. DOMAIN stack' = {}
    OBVIOUS
  <2>2. verdicts'[file] = verdict
    BY <1>1
  <2>3. QED
    BY <2>1, <2>2 DEF MemoryInv, Roots
<1>6. Counts'
  <2>1. CountNamed(stack)' = 0
    BY CountNothing
  <2>2. QED
    BY <2>1 DEF MemoryInv, Counts
<1>7. Reading'
  BY DEF Reading
<1>8. QED
  BY <1>2, <1>3, <1>4, <1>5, <1>6, <1>7 DEF MemoryInv

LEMMA AcceptMemory == ASSUME MemoryInv, Accept PROVE MemoryInv' /\ root \in live
<1>1. /\ pc = "parse" /\ Shifts(State, "$end") /\ stack' = <<>> /\ pc' = "print"
      /\ verdicts' = [verdicts EXCEPT ![file] = "accepted"] /\ strings' = strings
      /\ UNCHANGED <<batch, file, input, nodes, live, root, trees>>
  BY DEF Accept, Answered, OnceParsed, heap
<1>2. root \in live
  <2>1. Len(stack) = 1 /\ stack[1].symbol = "program"
    BY <1>1, StackFacts, EndAfterProgram DEF Shifts
  <2>2. 1 \in DOMAIN stack
    BY <2>1, StackFacts
  <2>3. QED
    BY <2>1, <2>2 DEF MemoryInv, Roots
<1>3. strings' = strings + 0
  BY <1>1 DEF MemoryInv, Counts
<1>4. QED
  BY <1>1, <1>2, <1>3, AnsweredMemory

LEMMA SyntaxErrorMemory == ASSUME MemoryInv, SyntaxError PROVE MemoryInv'
<1>1. /\ pc = "parse" /\ stack' = <<>> /\ pc' = "print"
      /\ verdicts' = [verdicts EXCEPT ![file] = "rejected"]
      /\ strings' = strings + (IF Lookahead \in Named THEN 1 ELSE 0)
      /\ UNCHANGED <<batch, file, input, nodes, live, root, trees>>
  BY DEF SyntaxError, Answered, OnceParsed
<1>2. QED
  BY <1>1, AnsweredMemory
\* printSyntaxTree and deleteSyntaxTree: what is freed is allocated, and what
\* stays allocated has none of it for a child.
LEMMA PrintTreeMemory == ASSUME MemoryInv, PrintTree PROVE MemoryInv'
<1>1. /\ pc = "print" /\ root # Wild /\ trees' = trees - 1 /\ root' = Nullptr /\ pc' = "next"
      /\ live' = (IF root = Nullptr THEN live ELSE live \ Below(root))
      /\ UNCHANGED <<batch, file, input, stack, nodes, strings, verdicts>>
  BY DEF PrintTree, parser, Freed
<1>2. stack = <<>> /\ IsSeq(stack)
  BY <1>1 DEF MemoryInv, ParserStack
<1>3. live' \subseteq live
  BY <1>1
<1>4. ASSUME NEW n \in live' PROVE Children(n) \subseteq live'
  <2>1. n \in live /\ Children(n) \subseteq live
    BY <1>3, <1>4 DEF MemoryInv, Forest
  <2>2. CASE root = Nullptr
    BY <2>1, <2>2, <1>1
  <2>3. CASE root # Nullptr
    <3>1. root \in live
      BY <2>3, <1>1 DEF MemoryInv, Roots
    <3>2. root \in DOMAIN nodes /\ Parents(root) = {}
      BY <3>1, <1>1, RootAlone
    <3>3. Older(nodes) /\ Below(root) = Reach(nodes, root)
      BY <3>2, BelowFacts DEF MemoryInv
    <3>4. live' = live \ Reach(nodes, root)
      BY <2>3, <3>3, <1>1
    <3>5. live \in SUBSET DOMAIN nodes /\ Closed(nodes, live)
      BY DEF MemoryInv, Forest, Closed, Children
    <3>6. Reach(nodes, root) \subseteq live
      BY <3>1, <3>5 DEF Reach
    <3>7. ASSUME NEW c \in Children(n), c \in Reach(nodes, root) PROVE FALSE
      <4>1. c # root
        BY <3>2, <3>7, <2>1 DEF Parents
      <4>2. PICK m \in Reach(nodes, root) : c \in Children(m)
        BY <3>2, <3>3, <3>7, <4>1, ReachParent DEF Children
      <4>3. m \in live /\ Children(m) \cap Children(n) # {}
        BY <4>2, <3>6, <3>7
      <4>4. m = n
        BY <4>3, <2>1 DEF MemoryInv, Forest
      <4>5. QED
        BY <4>2, <4>4, <1>4, <3>4
    <3>8. QED
      BY <2>1, <3>4, <3>7
  <2>4. QED
    BY <2>2, <2>3
<1>5. \A m : Children(m)' = Children(m)
  BY <1>1 DEF Children
<1>6. InHand' = {} /\ DOMAIN stack' = {}
  BY <1>1, <1>2 DEF InHand
<1>7. Files'
  BY <1>1 DEF MemoryInv, Files
<1>8. ParserStack'
  BY <1>1, <1>2 DEF ParserStack, Spelled
<1>9. Forest'
  BY <1>1, <1>3, <1>4, <1>5, <1>6 DEF MemoryInv, Forest
<1>10. Roots'
  BY <1>1, <1>6 DEF Roots
<1>11. Counts'
  BY <1>1 DEF MemoryInv, Counts
<1>12. Reading'
  BY <1>1 DEF Reading
<1>13. QED
  BY <1>7, <1>8, <1>9, <1>10, <1>11, <1>12 DEF MemoryInv

\* The steps after which nothing is parsed or printed.
LEMMA RestMemory ==
    ASSUME MemoryInv, PrintWildTree \/ Return \/ Ended
    PROVE  MemoryInv'
<1>1. UNCHANGED <<batch, file, input, stack, nodes, live, root, trees, strings, verdicts>>
  BY DEF PrintWildTree, Return, Ended, parser, heap, vars
<1>2. /\ pc' \in {"done", "exit", "undefined"}
      /\ pc \in {"next", "print", "done", "exit", "undefined"}
      /\ (pc = "print" => root = Wild)
  BY DEF PrintWildTree, Return, Ended, vars
<1>3. Files'
  BY <1>1, <1>2 DEF MemoryInv, Files
<1>4. ParserStack'
  <2>1. stack = <<>>
    BY <1>2 DEF MemoryInv, ParserStack
  <2>2. QED
    BY <2>1, <1>1, ShortSeqs DEF ParserStack, Spelled
<1>5. Forest'
  <2>1. InHand' = {}
    BY <1>2 DEF InHand
  <2>2. \A m : Children(m)' = Children(m)
    BY <1>1 DEF Children
  <2>3. QED
    BY <2>1, <2>2, <1>1 DEF MemoryInv, Forest
<1>6. Roots'
  <2>1. root \in {Nullptr, Wild}
    BY <1>2 DEF MemoryInv, Roots
  <2>2. QED
    BY <2>1, <1>1, <1>2 DEF MemoryInv, Roots
<1>7. Counts'
  <2>1. CountNamed(stack)' = CountNamed(stack)
    BY <1>1
  <2>2. QED
    BY <2>1, <1>1, <1>2 DEF MemoryInv, Counts
<1>8. Reading'
  BY <1>2 DEF Reading
<1>9. QED
  BY <1>3, <1>4, <1>5, <1>6, <1>7, <1>8 DEF MemoryInv

\* A step that changes nothing.
LEMMA StutterMemory == ASSUME MemoryInv, UNCHANGED vars PROVE MemoryInv'
<1>1. UNCHANGED <<batch, file, pc, input, stack, nodes, live, root, trees, strings, verdicts>>
  BY DEF vars, parser, heap
<1>2. Files'
  BY <1>1 DEF MemoryInv, Files
<1>3. ParserStack'
  BY <1>1 DEF MemoryInv, ParserStack
<1>4. Forest'
  <2>1. InHand' = InHand
    BY <1>1 DEF InHand, Tops
  <2>2. \A m : Children(m)' = Children(m)
    BY <1>1 DEF Children
  <2>3. \A m : Parents(m)' = Parents(m)
    BY <2>2, <1>1 DEF Parents
  <2>4. QED
    BY <2>1, <2>2, <2>3, <1>1 DEF MemoryInv, Forest
<1>5. Roots'
  BY <1>1 DEF MemoryInv, Roots
<1>6. Counts'
  <2>1. CountNamed(stack)' = CountNamed(stack)
    BY <1>1
  <2>2. QED
    BY <2>1, <1>1 DEF MemoryInv, Counts
<1>7. Reading'
  BY <1>1 DEF MemoryInv, Reading
<1>8. QED
  BY <1>2, <1>3, <1>4, <1>5, <1>6, <1>7 DEF MemoryInv
\* The children an action gives to its node: the nodes of the nonterminals
\* of the handle and all new leaves, none of them twice.
LEMMA ChildrenFacts ==
    ASSUME NEW entries, IsSeq(entries), NEW n \in Nat, n = Len(nodes),
           \A j \in DOMAIN entries : entries[j].node \in {0} \cup 1..n,
           \A j, k \in DOMAIN entries :
              entries[j].node = entries[k].node => entries[j].node = 0 \/ j = k,
           NEW texts, texts = TextsOf(entries), NEW ch, ch = ChildrenOf(entries, texts)
    PROVE  /\ IsSeq(ch)
           /\ \A c \in Range(ch) : \/ c \in n + 1..n + Len(texts)
                                   \/ c \in 1..n /\ \E j \in DOMAIN entries : entries[j].node = c
           /\ \A j \in DOMAIN entries : entries[j].node # 0 => entries[j].node \in Range(ch)
           /\ n + 1..n + Len(texts) \subseteq Range(ch)
           /\ \A i, j \in DOMAIN ch : ch[i] = ch[j] => i = j
<1>1. CASE entries = <<>>
  <2>1. Len(texts) = 1
    BY <1>1, TextsFacts
  <2>2. ch = <<n + 1>>
    BY <1>1 DEF ChildrenOf
  <2>3. IsSeq(ch) /\ Range(ch) = {n + 1} /\ Len(ch) = 1
    BY <2>2, ShortSeqs
  <2>4. DOMAIN ch = {1}
    BY <2>2
  <2>5. n + 1..n + Len(texts) = {n + 1}
    BY <2>1
  <2>6. DOMAIN entries = {}
    BY <1>1
  <2>7. QED
    BY <2>3, <2>4, <2>5, <2>6
<1>2. CASE entries # <<>>
  <2> DEFINE TP == TokenPlaces(entries)
             L == Len(texts)
  <2>1. DOMAIN entries = 1..Len(entries) /\ Len(entries) \in Nat
    BY SeqFacts
  <2>2. /\ DOMAIN ch = DOMAIN entries
        /\ \A j \in DOMAIN entries :
              ch[j] = IF entries[j].node # 0 THEN entries[j].node ELSE n + Rank(entries, j)
    BY <1>2 DEF ChildrenOf, Adopted
  <2>3. L = Cardinality(TP) /\ L \in Nat
    BY <1>2, TextsFacts
  <2>4. /\ \A j \in TP : Rank(entries, j) \in 1..L
        /\ \A i, j \in TP : Rank(entries, i) = Rank(entries, j) => i = j
        /\ \A k \in 1..L : \E j \in TP : Rank(entries, j) = k
    BY <2>3, RankFacts
  <2>5. TP = {j \in DOMAIN entries : entries[j].node = 0}
    BY DEF TokenPlaces
  <2>6. IsSeq(ch)
    <3>1. ch = [j \in 1..Len(entries) |-> ch[j]]
      BY <1>2, <2>1 DEF ChildrenOf, Adopted
    <3>2. QED
      BY <3>1, <2>1, <2>2, FunctionIsSeq
  <2> HIDE DEF TP, L
  <2>7. \A j \in TP : ch[j] = n + Rank(entries, j) /\ ch[j] \in n + 1..n + L
    BY <2>2, <2>3, <2>4, <2>5
  <2>8. \A j \in DOMAIN entries : j \in TP \/ (entries[j].node \in 1..n /\ ch[j] = entries[j].node)
    BY <2>2, <2>5
  <2>9. \A c \in Range(ch) : \/ c \in n + 1..n + L
                             \/ c \in 1..n /\ \E j \in DOMAIN entries : entries[j].node = c
    BY <2>2, <2>7, <2>8 DEF Range
  <2>10. \A j \in DOMAIN entries : entries[j].node # 0 => entries[j].node \in Range(ch)
    BY <2>2 DEF Range
  <2>11. ASSUME NEW c \in n + 1..n + L PROVE c \in Range(ch)
    <3>1. c - n \in 1..L /\ n + (c - n) = c
      BY <2>3, <2>11
    <3>2. PICK j \in TP : Rank(entries, j) = c - n
      BY <3>1, <2>4
    <3>3. j \in DOMAIN ch /\ ch[j] = c
      BY <3>1, <3>2, <2>2, <2>5, <2>7
    <3>4. QED
      BY <3>3 DEF Range
  <2>12. ASSUME NEW i \in DOMAIN ch, NEW j \in DOMAIN ch, ch[i] = ch[j] PROVE i = j
    <3>1. i \in DOMAIN entries /\ j \in DOMAIN entries
      BY <2>2
    <3>2. CASE i \in TP /\ j \in TP
      <4>1. n + Rank(entries, i) = n + Rank(entries, j)
        BY <3>2, <2>7, <2>12
      <4>2. Rank(entries, i) = Rank(entries, j)
        BY <4>1, <3>2, <2>4, <2>3
      <4>3. QED
        BY <4>2, <3>2, <2>4
    <3>3. CASE i \in TP /\ j \notin TP
      <4>1. ch[i] \in n + 1..n + L /\ ch[j] \in 1..n
        BY <3>1, <3>3, <2>7, <2>8
      <4>2. QED
        BY <4>1, <2>12, <2>3
    <3>4. CASE i \notin TP /\ j \in TP
      <4>1. ch[j] \in n + 1..n + L /\ ch[i] \in 1..n
        BY <3>1, <3>4, <2>7, <2>8
      <4>2. QED
        BY <4>1, <2>12, <2>3
    <3>5. CASE i \notin TP /\ j \notin TP
      <4>1. entries[i].node = entries[j].node /\ entries[i].node \in 1..n
        BY <3>1, <3>5, <2>8, <2>12
      <4>2. entries[i].node # 0
        BY <4>1
      <4>3. QED
        BY <3>1, <4>1, <4>2
    <3>6. QED
      BY <3>2, <3>3, <3>4, <3>5
  <2>13. QED
    BY <2>6, <2>9, <2>10, <2>11, <2>12 DEF L
<1>3. QED
  BY <1>1, <1>2

\* Two sequences and one element.
LEMMA ThreeParts ==
    ASSUME NEW s, NEW t, NEW x, IsSeq(s), IsSeq(t)
    PROVE  /\ IsSeq(s \o t \o <<x>>) /\ Len(s \o t \o <<x>>) = Len(s) + Len(t) + 1
           /\ \A k \in 1..Len(s) : (s \o t \o <<x>>)[k] = s[k]
           /\ \A k \in 1..Len(t) : (s \o t \o <<x>>)[Len(s) + k] = t[k]
           /\ (s \o t \o <<x>>)[Len(s) + Len(t) + 1] = x
<1> DEFINE both == s \o t
           u == Append(both, x)
<1>1. /\ IsSeq(both) /\ Len(both) = Len(s) + Len(t)
      /\ \A k \in 1..Len(s) : both[k] = s[k]
      /\ \A k \in 1..Len(t) : both[Len(s) + k] = t[k]
  BY ConcatFacts
<1>2. Len(s) \in Nat /\ Len(t) \in Nat
  BY SeqFacts
<1>3. u = both \o <<x>>
  <2> HIDE DEF both
  <2>1. QED
    BY <1>1, AppendConcat
<1>4. /\ IsSeq(u) /\ Len(u) = Len(both) + 1
      /\ \A k \in 1..Len(both) : u[k] = both[k]
      /\ u[Len(both) + 1] = x
  <2> HIDE DEF both
  <2>1. QED
    BY <1>1, AppendFacts
<1> HIDE DEF both, u
<1>5. \A k \in 1..Len(s) : u[k] = s[k]
  BY <1>1, <1>2, <1>4
<1>6. \A k \in 1..Len(t) : u[Len(s) + k] = t[k]
  BY <1>1, <1>2, <1>4
<1>7. Len(u) = Len(s) + Len(t) + 1 /\ u[Len(s) + Len(t) + 1] = x
  BY <1>1, <1>4
<1>8. u = s \o t \o <<x>>
  BY <1>3 DEF both
<1>9. QED
  BY <1>4, <1>5, <1>6, <1>7, <1>8

\* The leaves an action makes.
LeavesOf(texts) == [j \in DOMAIN texts |-> [name |-> texts[j], children |-> <<>>]]

LEMMA LeavesFacts ==
    ASSUME NEW texts, IsSeq(texts)
    PROVE  /\ IsSeq(LeavesOf(texts)) /\ Len(LeavesOf(texts)) = Len(texts)
           /\ \A j \in 1..Len(texts) : LeavesOf(texts)[j].children = <<>>
<1> DEFINE leaves == LeavesOf(texts)
           L == Len(texts)
<1>1. L \in Nat /\ DOMAIN texts = 1..L
  BY SeqFacts
<1> HIDE DEF L
<1>2. /\ DOMAIN leaves = 1..L /\ leaves = [j \in 1..L |-> leaves[j]]
      /\ \A j \in 1..L : leaves[j].children = <<>>
  BY <1>1 DEF LeavesOf
<1> HIDE DEF leaves
<1>3. IsSeq(leaves) /\ Len(leaves) = L
  BY <1>1, <1>2, FunctionIsSeq
<1>4. QED
  BY <1>2, <1>3 DEF leaves, L

\* The nodes after an action: the old ones, the leaves, the node itself.
LEMMA NewNodes ==
    ASSUME NEW old, NEW texts, NEW top, IsSeq(old), IsSeq(texts)
    PROVE  LET new == old \o LeavesOf(texts) \o <<top>> IN
           /\ IsSeq(new) /\ DOMAIN new = 1..Len(old) + Len(texts) + 1
           /\ Len(new) = Len(old) + Len(texts) + 1
           /\ Len(old) \in Nat /\ Len(texts) \in Nat /\ DOMAIN old = 1..Len(old)
           /\ \A k \in 1..Len(old) : new[k] = old[k]
           /\ \A k \in Len(old) + 1..Len(old) + Len(texts) : new[k].children = <<>>
           /\ new[Len(old) + Len(texts) + 1] = top
<1> DEFINE leaves == LeavesOf(texts)
           n == Len(old)
           L == Len(texts)
           new == old \o leaves \o <<top>>
<1>1. n \in Nat /\ L \in Nat /\ DOMAIN old = 1..n
  BY SeqFacts
<1>2. IsSeq(leaves) /\ Len(leaves) = L /\ \A j \in 1..L : leaves[j].children = <<>>
  BY LeavesFacts
<1>a. IsSeq(leaves)
  BY LeavesFacts
<1> HIDE DEF leaves
<1>3. /\ IsSeq(new) /\ Len(new) = Len(old) + Len(leaves) + 1
      /\ \A k \in 1..Len(old) : new[k] = old[k]
      /\ \A k \in 1..Len(leaves) : new[Len(old) + k] = leaves[k]
      /\ new[Len(old) + Len(leaves) + 1] = top
  BY <1>a, ThreeParts
<1> HIDE DEF new
<1>4. /\ Len(new) = n + L + 1 /\ \A k \in 1..n : new[k] = old[k]
      /\ \A k \in 1..L : new[n + k] = leaves[k]
      /\ new[n + L + 1] = top
  BY <1>2, <1>3
<1>5. DOMAIN new = 1..Len(new)
  BY <1>3, SeqFacts
<1> HIDE DEF n, L
<1>6. ASSUME NEW k \in n + 1..n + L PROVE new[k].children = <<>>
  <2>1. k - n \in 1..L /\ n + (k - n) = k
    BY <1>1
  <2>2. QED
    BY <2>1, <1>2, <1>4
<1>7. /\ IsSeq(new) /\ DOMAIN new = 1..n + L + 1 /\ Len(new) = n + L + 1
      /\ n \in Nat /\ L \in Nat /\ DOMAIN old = 1..n
      /\ \A k \in 1..n : new[k] = old[k]
      /\ \A k \in n + 1..n + L : new[k].children = <<>>
      /\ new[n + L + 1] = top
  BY <1>1, <1>3, <1>4, <1>5, <1>6
<1>8. QED
  BY <1>7 DEF n, L, new, leaves
\* The rule a reduction takes, the entries it leaves, those it pops, and the
\* node it makes after the leaves.
Reduced == Reduction(State, Lookahead)
Kept == Len(stack) - Len(Rules[Reduced].rhs)
Handle == SubSeq(stack, Kept + 1, Len(stack))
NewLeaves == Len(nodes) + 1..Len(nodes) + Len(TextsOf(Handle))
NewNode == Len(nodes) + Len(TextsOf(Handle)) + 1

\* What Reduce does, in those words.
LEMMA ReduceStack ==
    ASSUME MemoryInv, Reduce
    PROVE  /\ Reduced \in DOMAIN Rules /\ Kept \in 0..Len(stack)
           /\ IsSeq(Handle) /\ Len(Handle) = Len(stack) - Kept
           /\ \A j \in 1..Len(stack) - Kept : Handle[j] = stack[Kept + j]
           /\ IsSeq(stack') /\ Spelled(stack') /\ DOMAIN stack' = 1..Kept + 1
           /\ \A j \in 1..Kept : stack'[j] = stack[j]
           /\ stack'[Kept + 1].node = NewNode /\ stack'[Kept + 1].symbol = Rules[Reduced].lhs
           /\ CountNamed(Handle) \in Nat /\ CountNamed(stack') \in Nat
           /\ CountNamed(stack) = CountNamed(stack') + CountNamed(Handle)
<1> DEFINE r == Reduced
           rhs == Rules[r].rhs
           n == Len(stack)
           m == Kept
           below == SubSeq(stack, 1, m)
           e == Entry(Rules[r].lhs, GoTo(StateAfter(below), Rules[r].lhs), NewNode, "")
<1>1. /\ pc = "parse" /\ ~Shifts(State, Lookahead) /\ Reductions(State) # {}
      /\ stack' = Append(SubSeq(stack, 1, n - Len(rhs)),
                         Entry(Rules[r].lhs, GoTo(StateAfter(SubSeq(stack, 1, n - Len(rhs))), Rules[r].lhs),
                               Len(nodes) + Len(TextsOf(SubSeq(stack, n - Len(rhs) + 1, n))) + 1, ""))
  BY DEF Reduce, Popped, Reduced
<1>2. stack' = Append(below, e)
  BY <1>1 DEF Kept, NewNode, Handle
<1>3. /\ IsSeq(stack) /\ Spelled(stack) /\ n \in Nat /\ DOMAIN stack = 1..n
      /\ State = Reached(stack, n) /\ IsState(State)
  BY StackFacts
<1>4. r \in Reductions(Reached(stack, n))
  BY <1>1, <1>3, ReductionFacts DEF Reduced
<1>5. /\ r \in DOMAIN Rules /\ r # 1 /\ Len(rhs) \in 0..n
      /\ GoTo(Reached(stack, n - Len(rhs)), Rules[r].lhs) # {}
  BY <1>3, <1>4, HandleFacts
<1>6. m \in 0..n /\ m = n - Len(rhs) /\ m \in Nat
  BY <1>3, <1>5 DEF Kept
<1>7. GoTo(Reached(stack, m), Rules[r].lhs) # {}
  BY <1>5, <1>6
<1>8. Rules[r].lhs # "$end" /\ Rules[r].lhs \notin Named
  BY <1>5, RuleFacts
<1> HIDE DEF r, m
<1>9. IsSeq(below) /\ Len(below) = m /\ (\A j \in 1..m : below[j] = stack[j]) /\ Spelled(below)
  BY <1>3, <1>6, TakeFacts, PoppedSpelled
<1>10. IsSeq(Handle) /\ Len(Handle) = n - m /\ \A j \in 1..n - m : Handle[j] = stack[m + j]
  BY <1>3, <1>6, DropFacts DEF Handle, m
<1>11. CountNamed(stack) = CountNamed(below) + CountNamed(Handle)
  BY <1>3, <1>6, CountSplit DEF Handle, m
<1> HIDE DEF below
<1>12. StateAfter(below) = Reached(below, m)
  BY <1>9, StateIsReached
<1>13. Reached(below, m) = Reached(stack, m)
  BY <1>6, <1>9 DEF Reached
<1>14. e.symbol = Rules[r].lhs /\ e.state = GoTo(Reached(below, m), Rules[r].lhs) /\ e.node = NewNode
  BY <1>12 DEF Entry
<1> HIDE DEF e
<1>15. e.state # {} /\ e.symbol # "$end"
  BY <1>7, <1>8, <1>13, <1>14
<1>16. Spelled(Append(below, e))
  BY <1>9, <1>14, <1>15, PushedSpelled
<1>17. /\ IsSeq(stack') /\ Len(stack') = m + 1 /\ stack'[m + 1] = e
       /\ \A j \in 1..m : stack'[j] = below[j]
  BY <1>2, <1>9, AppendFacts
<1>18. DOMAIN stack' = 1..m + 1
  BY <1>17, SeqFacts
<1>19. CountNamed(stack') = CountNamed(below)
  <2>1. CountNamed(stack') = CountNamed(below) + 0
    BY <1>2, <1>8, <1>9, <1>14, CountPushed
  <2>2. CountNamed(below) \in Nat
    BY <1>9, CountNat
  <2>3. QED
    BY <2>1, <2>2
<1>20. CountNamed(stack') \in Nat /\ CountNamed(Handle) \in Nat
  BY <1>10, <1>17, CountNat
<1>21. QED
  BY <1>2, <1>5, <1>6, <1>9, <1>10, <1>11, <1>14, <1>16, <1>17, <1>18, <1>19, <1>20 DEF r, m

LEMMA ReduceNodes ==
    ASSUME MemoryInv, Reduce
    PROVE  /\ IsSeq(nodes') /\ DOMAIN nodes' = 1..NewNode /\ Len(nodes) \in Nat
           /\ Len(TextsOf(Handle)) \in Nat /\ DOMAIN nodes = 1..Len(nodes)
           /\ \A k \in DOMAIN nodes : nodes'[k] = nodes[k]
           /\ \A k \in NewLeaves : nodes'[k].children = <<>>
           /\ IsSeq(nodes'[NewNode].children)
           /\ \A c \in Range(nodes'[NewNode].children) :
                 \/ c \in NewLeaves
                 \/ c \in DOMAIN nodes /\ \E j \in Kept + 1..Len(stack) : stack[j].node = c
           /\ \A j \in Kept + 1..Len(stack) :
                 stack[j].node # 0 => stack[j].node \in Range(nodes'[NewNode].children)
           /\ NewLeaves \subseteq Range(nodes'[NewNode].children)
           /\ \A i, j \in DOMAIN nodes'[NewNode].children :
                 nodes'[NewNode].children[i] = nodes'[NewNode].children[j] => i = j
<1> DEFINE n == Len(nodes)
           texts == TextsOf(Handle)
           ch == ChildrenOf(Handle, texts)
           top == [name |-> Rules[Reduced].lhs, children |-> ch]
<1>1. nodes' = nodes \o LeavesOf(texts) \o <<top>>
  BY DEF Reduce, LeavesOf, Reduced, Handle, Kept
<1>2. /\ IsSeq(Handle) /\ Len(Handle) = Len(stack) - Kept /\ Kept \in 0..Len(stack)
      /\ \A j \in 1..Len(stack) - Kept : Handle[j] = stack[Kept + j]
  BY ReduceStack
<1>3. DOMAIN Handle = 1..Len(stack) - Kept /\ DOMAIN stack = 1..Len(stack) /\ Len(stack) \in Nat
  BY <1>2, SeqFacts, StackFacts
<1>4. IsSeq(nodes) /\ n \in Nat /\ DOMAIN nodes = 1..n
  BY SeqFacts DEF MemoryInv, Forest
<1>5. IsSeq(texts)
  BY <1>2, TextsFacts
<1>6. \A j \in DOMAIN Handle : Kept + j \in DOMAIN stack /\ Handle[j] = stack[Kept + j]
  BY <1>2, <1>3
<1>7. \A j \in Kept + 1..Len(stack) : j - Kept \in DOMAIN Handle /\ Handle[j - Kept] = stack[j]
  <2>1. \A j \in Kept + 1..Len(stack) : j - Kept \in 1..Len(stack) - Kept /\ Kept + (j - Kept) = j
    BY <1>2, <1>3
  <2>2. QED
    BY <2>1, <1>2, <1>3
<1>8. \A j \in DOMAIN Handle : Handle[j].node \in {0} \cup 1..n
  <2>1. \A j \in DOMAIN stack : stack[j].node \in {0} \cup 1..n
    BY <1>4 DEF MemoryInv, Forest
  <2>2. QED
    BY <2>1, <1>6
<1>9. \A j, k \in DOMAIN Handle :
         Handle[j].node = Handle[k].node => Handle[j].node = 0 \/ j = k
  <2>1. \A j, k \in DOMAIN stack : stack[j].node = stack[k].node => stack[j].node = 0 \/ j = k
    BY DEF MemoryInv, Forest
  <2>2. ASSUME NEW j \in DOMAIN Handle, NEW k \in DOMAIN Handle,
               Handle[j].node = Handle[k].node, Handle[j].node # 0
        PROVE  j = k
    <3>1. Kept + j = Kept + k
      BY <2>1, <2>2, <1>6
    <3>2. QED
      BY <3>1, <2>2, <1>2, <1>3
  <2>3. QED
    BY <2>2
<1>10. top.children = ch
  OBVIOUS
<1>a. texts = TextsOf(Handle) /\ ch = ChildrenOf(Handle, texts) /\ n = Len(nodes)
  OBVIOUS
<1>b. IsSeq(nodes)
  BY <1>4
<1> HIDE DEF texts, ch, top, n
<1>11. /\ IsSeq(ch)
       /\ \A c \in Range(ch) : \/ c \in n + 1..n + Len(texts)
                               \/ c \in 1..n /\ \E j \in DOMAIN Handle : Handle[j].node = c
       /\ \A j \in DOMAIN Handle : Handle[j].node # 0 => Handle[j].node \in Range(ch)
       /\ n + 1..n + Len(texts) \subseteq Range(ch)
       /\ \A i, j \in DOMAIN ch : ch[i] = ch[j] => i = j
  <2>1. IsSeq(Handle) /\ n \in Nat
    BY <1>2, <1>4
  <2>2. QED
    BY <2>1, <1>8, <1>9, <1>a, ChildrenFacts
<1>12. /\ IsSeq(nodes') /\ DOMAIN nodes' = 1..Len(nodes) + Len(texts) + 1
       /\ Len(texts) \in Nat
       /\ \A k \in 1..Len(nodes) : nodes'[k] = nodes[k]
       /\ \A k \in Len(nodes) + 1..Len(nodes) + Len(texts) : nodes'[k].children = <<>>
       /\ nodes'[Len(nodes) + Len(texts) + 1] = top
  <2> DEFINE new == nodes \o LeavesOf(texts) \o <<top>>
  <2>1. /\ IsSeq(new) /\ DOMAIN new = 1..Len(nodes) + Len(texts) + 1
        /\ Len(texts) \in Nat
        /\ \A k \in 1..Len(nodes) : new[k] = nodes[k]
        /\ \A k \in Len(nodes) + 1..Len(nodes) + Len(texts) : new[k].children = <<>>
        /\ new[Len(nodes) + Len(texts) + 1] = top
    BY <1>b, <1>5, NewNodes
  <2>2. QED
    BY <2>1, <1>1
<1>13. NewLeaves = n + 1..n + Len(texts) /\ NewNode = n + Len(texts) + 1
  BY DEF NewLeaves, NewNode, n, texts
<1>14. nodes'[NewNode].children = ch
  BY <1>10, <1>12, <1>13 DEF n
<1>15. /\ \A c \in Range(ch) :
             \/ c \in NewLeaves
             \/ c \in DOMAIN nodes /\ \E j \in Kept + 1..Len(stack) : stack[j].node = c
       /\ \A j \in Kept + 1..Len(stack) : stack[j].node # 0 => stack[j].node \in Range(ch)
  <2>1. ASSUME NEW c \in Range(ch), c \notin NewLeaves
        PROVE  c \in DOMAIN nodes /\ \E j \in Kept + 1..Len(stack) : stack[j].node = c
    <3>1. c \in DOMAIN nodes
      BY <2>1, <1>4, <1>11, <1>13
    <3>2. PICK j \in DOMAIN Handle : Handle[j].node = c
      BY <2>1, <1>11, <1>13
    <3>3. Kept + j \in Kept + 1..Len(stack) /\ stack[Kept + j].node = c
      BY <3>2, <1>2, <1>3, <1>6
    <3>4. QED
      BY <3>1, <3>3
  <2>2. ASSUME NEW j \in Kept + 1..Len(stack), stack[j].node # 0
        PROVE  stack[j].node \in Range(ch)
    <3>1. j - Kept \in DOMAIN Handle /\ Handle[j - Kept] = stack[j]
      BY <1>7
    <3>2. QED
      BY <3>1, <2>2, <1>11
  <2>3. QED
    BY <2>1, <2>2
<1>16. QED
  BY <1>4, <1>11, <1>12, <1>13, <1>14, <1>15 DEF n, texts
\* What Reduce leaves alone, and the rest of what it does.
LEMMA ReduceRest ==
    ASSUME MemoryInv, Reduce
    PROVE  /\ pc = "parse" /\ UNCHANGED <<batch, file, pc, input, trees, verdicts>>
           /\ live' = live \cup Len(nodes) + 1..NewNode
           /\ root' = (IF Rules[Reduced].lhs = "program" THEN NewNode ELSE root)
           /\ strings' = strings - CountNamed(Handle)
           /\ root \notin live /\ \A j \in DOMAIN stack : stack[j].symbol # "program"
<1>1. pc = "parse" /\ Reductions(State) # {}
  BY DEF Reduce
<1>2. root \notin live /\ \A j \in DOMAIN stack : stack[j].symbol # "program"
  BY <1>1, RootSetLast
<1>3. /\ UNCHANGED <<batch, file, pc, input, trees, verdicts>>
      /\ live' = live \cup Len(nodes) + 1..NewNode
      /\ root' = (IF Rules[Reduced].lhs = "program" THEN NewNode ELSE root)
      /\ strings' = strings - CountNamed(Handle)
  BY DEF Reduce, TextsFreed, Reduced, Handle, Kept, NewNode
<1>4. QED
  BY <1>1, <1>2, <1>3

\* The nodes that are allocated after Reduce: the old ones, the leaves and
\* their parent, whose other children were on the stack.
LEMMA ReduceForest ==
    ASSUME MemoryInv, Reduce
    PROVE  /\ NewNode \in live' /\ NewNode \notin live /\ NewNode \notin DOMAIN nodes
           /\ live \subseteq live' /\ NewLeaves \subseteq live' /\ live' \subseteq DOMAIN nodes'
           /\ NewLeaves \cap DOMAIN nodes = {} /\ live \subseteq DOMAIN nodes
           /\ \A k \in live' : k \in live \/ k \in NewLeaves \/ k = NewNode
           /\ \A k \in DOMAIN nodes' : k \in DOMAIN nodes \/ k \in NewLeaves \/ k = NewNode
           /\ \A k \in DOMAIN nodes : Children(k)' = Children(k)
           /\ \A k \in NewLeaves : Children(k)' = {}
           /\ Range(nodes'[NewNode].children) \subseteq 1..NewNode - 1
           /\ \A c \in Range(nodes'[NewNode].children) :
                 c \in NewLeaves \/ (c \in live /\ c \in Tops /\ Parents(c) = {})
<1> DEFINE n == Len(nodes)
           L == Len(TextsOf(Handle))
<1>1. /\ DOMAIN nodes' = 1..NewNode /\ n \in Nat /\ L \in Nat /\ DOMAIN nodes = 1..n
      /\ NewNode = n + L + 1 /\ NewLeaves = n + 1..n + L
  BY ReduceNodes DEF NewNode, NewLeaves
<1>2. live' = live \cup n + 1..NewNode /\ live \subseteq DOMAIN nodes
  BY ReduceRest DEF MemoryInv, Forest
<1> HIDE DEF n, L
<1>3. /\ NewNode \in live' /\ NewNode \notin live /\ NewNode \notin DOMAIN nodes
      /\ live \subseteq live' /\ NewLeaves \subseteq live' /\ live' \subseteq DOMAIN nodes'
      /\ NewLeaves \cap DOMAIN nodes = {}
      /\ \A k \in live' : k \in live \/ k \in NewLeaves \/ k = NewNode
      /\ \A k \in DOMAIN nodes' : k \in DOMAIN nodes \/ k \in NewLeaves \/ k = NewNode
  BY <1>1, <1>2
<1>4. \A k \in DOMAIN nodes : Children(k)' = Children(k)
  BY ReduceNodes DEF Children
<1>5. \A k \in NewLeaves : Children(k)' = {}
  BY ReduceNodes, ShortSeqs DEF Children
<1>6. \A c \in Range(nodes'[NewNode].children) :
         \/ c \in NewLeaves
         \/ c \in DOMAIN nodes /\ \E j \in Kept + 1..Len(stack) : stack[j].node = c
  BY ReduceNodes DEF Children
<1>7. Range(nodes'[NewNode].children) \subseteq 1..NewNode - 1
  BY <1>6, <1>1
<1>8. ASSUME NEW c \in Range(nodes'[NewNode].children), c \notin NewLeaves
      PROVE  c \in live /\ c \in Tops /\ Parents(c) = {}
  <2>1. PICK j \in Kept + 1..Len(stack) : stack[j].node = c /\ c \in DOMAIN nodes
    BY <1>6, <1>8
  <2>2. Kept \in 0..Len(stack) /\ DOMAIN stack = 1..Len(stack) /\ Len(stack) \in Nat
    BY ReduceStack, StackFacts
  <2>3. j \in DOMAIN stack /\ c # 0
    BY <2>1, <2>2, <1>1
  <2>4. c \in Tops
    BY <2>1, <2>3 DEF Tops
  <2>5. InHand = Tops
    BY ReduceRest DEF InHand
  <2>6. QED
    BY <2>4, <2>5 DEF MemoryInv, Forest
<1>9. QED
  BY <1>2, <1>3, <1>4, <1>5, <1>7, <1>8

\* What is on the stack after Reduce: the new node and what has been left.
LEMMA ReduceTops ==
    ASSUME MemoryInv, Reduce
    PROVE  /\ Tops' = ({stack[j].node : j \in 1..Kept} \ {0}) \cup {NewNode}
           /\ InHand' = Tops' /\ InHand = Tops /\ 1..Kept \subseteq DOMAIN stack
           /\ \A j \in DOMAIN stack' : \/ j \in 1..Kept /\ stack'[j] = stack[j]
                                       \/ j = Kept + 1 /\ stack'[j].node = NewNode
<1>1. /\ Kept \in 0..Len(stack) /\ DOMAIN stack = 1..Len(stack) /\ Len(stack) \in Nat
      /\ DOMAIN stack' = 1..Kept + 1 /\ \A j \in 1..Kept : stack'[j] = stack[j]
      /\ stack'[Kept + 1].node = NewNode
  BY ReduceStack, StackFacts
<1>2. NewNode # 0
  BY ReduceNodes DEF NewNode
<1>3. 1..Kept + 1 = 1..Kept \cup {Kept + 1} /\ 1..Kept \subseteq DOMAIN stack
  BY <1>1
<1>4. Tops' = ({stack[j].node : j \in 1..Kept} \ {0}) \cup {NewNode}
  BY <1>1, <1>2, <1>3 DEF Tops
<1>5. InHand' = Tops' /\ InHand = Tops
  BY ReduceRest DEF InHand
<1>6. QED
  BY <1>1, <1>3, <1>4, <1>5

\* An action of the grammar makes its node.
LEMMA ReduceMemory == ASSUME MemoryInv, Reduce PROVE MemoryInv'
<1>1. Files'
  BY ReduceRest DEF MemoryInv, Files
<1>2. ParserStack'
  BY ReduceRest, ReduceStack DEF ParserStack
<1>3. Forest'
  <2>1. IsSeq(nodes') /\ live' \subseteq DOMAIN nodes'
    BY ReduceNodes, ReduceForest
  <2>2. ASSUME NEW k \in DOMAIN nodes'
        PROVE  IsSeq(nodes'[k].children) /\ Children(k)' \subseteq 1..k - 1
    <3>1. CASE k \in DOMAIN nodes
      <4>1. IsSeq(nodes[k].children) /\ Children(k) \subseteq 1..k - 1
        BY <3>1 DEF MemoryInv, Forest
      <4>2. nodes'[k] = nodes[k] /\ Children(k)' = Children(k)
        BY <3>1, ReduceNodes, ReduceForest
      <4>3. QED
        BY <4>1, <4>2
    <3>2. CASE k \in NewLeaves
      <4>1. nodes'[k].children = <<>> /\ Children(k)' = {}
        BY <3>2, ReduceNodes, ReduceForest
      <4>2. QED
        BY <4>1, ShortSeqs
    <3>3. CASE k = NewNode
      <4>1. Children(k)' = Range(nodes'[NewNode].children)
        BY <3>3 DEF Children
      <4>2. IsSeq(nodes'[k].children)
        BY <3>3, ReduceNodes
      <4>3. Range(nodes'[NewNode].children) \subseteq 1..NewNode - 1
        BY ReduceForest
      <4>4. QED
        BY <3>3, <4>1, <4>2, <4>3
    <3>4. QED
      BY <3>1, <3>2, <3>3, ReduceForest
  <2>3. ASSUME NEW k \in live' PROVE Children(k)' \subseteq live'
    <3>1. CASE k \in live
      <4>1. Children(k)' = Children(k) /\ Children(k) \subseteq live /\ live \subseteq live'
        BY <3>1, ReduceForest DEF MemoryInv, Forest
      <4>2. QED
        BY <4>1
    <3>2. CASE k \in NewLeaves
      <4>1. Children(k)' = {}
        BY <3>2, ReduceForest
      <4>2. QED
        BY <4>1
    <3>3. CASE k = NewNode
      <4>1. Children(k)' = Range(nodes'[NewNode].children)
        BY <3>3 DEF Children
      <4>2. Range(nodes'[NewNode].children) \subseteq live'
        BY ReduceForest
      <4>3. QED
        BY <4>1, <4>2
    <3>4. QED
      BY <3>1, <3>2, <3>3, ReduceForest
  <2>4. ASSUME NEW k \in live'
        PROVE  \A i, j \in DOMAIN nodes'[k].children :
                  nodes'[k].children[i] = nodes'[k].children[j] => i = j
    <3>1. CASE k \in live
      <4>1. nodes'[k] = nodes[k]
        BY <3>1, ReduceNodes, ReduceForest
      <4>2. QED
        BY <3>1, <4>1 DEF MemoryInv, Forest
    <3>2. CASE k \in NewLeaves
      <4>1. nodes'[k].children = <<>>
        BY <3>2, ReduceNodes
      <4>2. QED
        BY <4>1
    <3>3. CASE k = NewNode
      BY <3>3, ReduceNodes
    <3>4. QED
      BY <3>1, <3>2, <3>3, ReduceForest
  <2>5. ASSUME NEW k \in live', NEW c \in Children(k)' \cap Range(nodes'[NewNode].children)
        PROVE  k = NewNode
    <3>1. CASE k \in live
      <4>1. c \in Children(k) /\ k \in DOMAIN nodes
        BY <3>1, <2>5, ReduceForest
      <4>2. c \in DOMAIN nodes
        <5>1. Children(k) \subseteq 1..k - 1 /\ DOMAIN nodes = 1..Len(nodes) /\ Len(nodes) \in Nat
          BY <4>1, ReduceNodes DEF MemoryInv, Forest
        <5>2. QED
          BY <4>1, <5>1
      <4>3. Parents(c) = {}
        BY <4>2, <2>5, ReduceForest
      <4>4. QED
        BY <3>1, <4>1, <4>3 DEF Parents
    <3>2. CASE k \in NewLeaves
      <4>1. Children(k)' = {}
        BY <3>2, ReduceForest
      <4>2. QED
        BY <4>1, <2>5
    <3>3. QED
      BY <3>1, <3>2, ReduceForest
  <2>6. ASSUME NEW m \in live', NEW k \in live', Children(m)' \cap Children(k)' # {}
        PROVE  m = k
    <3>1. CASE m = NewNode
      <4>1. Children(m)' = Range(nodes'[NewNode].children)
        BY <3>1 DEF Children
      <4>2. QED
        BY <3>1, <4>1, <2>5, <2>6
    <3>4. CASE k = NewNode
      <4>1. Children(k)' = Range(nodes'[NewNode].children)
        BY <3>4 DEF Children
      <4>2. QED
        BY <3>4, <4>1, <2>5, <2>6
    <3>2. CASE m # NewNode /\ k # NewNode
      <4>1. m \notin NewLeaves /\ k \notin NewLeaves
        BY <2>6, ReduceForest
      <4>2. m \in live /\ k \in live
        BY <4>1, <3>2, ReduceForest
      <4>3. Children(m)' = Children(m) /\ Children(k)' = Children(k)
        BY <4>2, ReduceForest
      <4>4. QED
        BY <4>2, <4>3, <2>6 DEF MemoryInv, Forest
    <3>3. QED
      BY <3>1, <3>2, <3>4
  <2>7. ASSUME NEW c \in InHand' PROVE c \in live' /\ Parents(c)' = {}
    <3>1. CASE c = NewNode
      <4>1. ASSUME NEW m \in live', c \in Children(m)' PROVE FALSE
        <5>1. m \in 1..NewNode /\ NewNode \in Nat
          BY ReduceForest, ReduceNodes DEF NewNode
        <5>2. Children(m)' \subseteq 1..m - 1
          BY <4>1, <2>1, <2>2
        <5>3. QED
          BY <3>1, <4>1, <5>1, <5>2
      <4>2. QED
        BY <3>1, <4>1, ReduceForest DEF Parents
    <3>2. CASE c # NewNode
      <4>1. PICK j \in 1..Kept : c = stack[j].node /\ c # 0
        BY <3>2, <2>7, ReduceTops
      <4>2. j \in DOMAIN stack
        BY ReduceTops
      <4>3. c \in InHand
        BY <4>1, <4>2, ReduceTops DEF Tops
      <4>4. c \in live /\ Parents(c) = {}
        BY <4>3 DEF MemoryInv, Forest
      <4>5. ASSUME NEW m \in live', c \in Children(m)' PROVE FALSE
        <5>1. CASE m \in live
          <6>1. Children(m)' = Children(m)
            BY <5>1, ReduceForest
          <6>2. QED
            BY <5>1, <6>1, <4>4, <4>5 DEF Parents
        <5>2. CASE m \in NewLeaves
          <6>1. Children(m)' = {}
            BY <5>2, ReduceForest
          <6>2. QED
            BY <6>1, <4>5
        <5>3. CASE m = NewNode
          <6>1. c \in DOMAIN nodes /\ c \notin NewLeaves
            BY <4>4, ReduceForest
          <6>2. PICK k \in Kept + 1..Len(stack) : stack[k].node = c
            BY <5>3, <4>5, <6>1, ReduceNodes DEF Children
          <6>3. /\ Kept \in 0..Len(stack) /\ DOMAIN stack = 1..Len(stack) /\ Len(stack) \in Nat
            BY ReduceStack, StackFacts
          <6>4. k \in DOMAIN stack /\ k # j
            BY <6>3
          <6>5. QED
            BY <6>2, <6>4, <4>1, <4>2 DEF MemoryInv, Forest
        <5>4. QED
          BY <5>1, <5>2, <5>3, ReduceForest
      <4>6. Parents(c)' = {}
        BY <4>5 DEF Parents
      <4>7. QED
        BY <4>4, <4>6, ReduceForest
    <3>3. QED
      BY <3>1, <3>2
  <2>8. \A j \in DOMAIN stack' : stack'[j].node \in {0} \cup live'
    <3>1. \A j \in DOMAIN stack : stack[j].node \in {0} \cup live
      BY DEF MemoryInv, Forest
    <3>2. QED
      BY <3>1, ReduceTops, ReduceForest
  <2>9. \A j, k \in DOMAIN stack' : stack'[j].node = stack'[k].node => stack'[j].node = 0 \/ j = k
    <3>1. \A j \in 1..Kept : j \in DOMAIN stack /\ stack[j].node # NewNode
      <4>1. \A j \in DOMAIN stack : stack[j].node \in {0} \cup live
        BY DEF MemoryInv, Forest
      <4>2. NewNode \notin {0} \cup live
        BY ReduceForest, ReduceNodes DEF NewNode
      <4>3. QED
        BY <4>1, <4>2, ReduceTops
    <3>2. \A j, k \in DOMAIN stack : stack[j].node = stack[k].node => stack[j].node = 0 \/ j = k
      BY DEF MemoryInv, Forest
    <3>3. QED
      BY <3>1, <3>2, ReduceTops
  <2>10. QED
    BY <2>1, <2>2, <2>3, <2>4, <2>6, <2>7, <2>8, <2>9 DEF Forest
<1>4. Roots'
  <2>1. CASE Rules[Reduced].lhs = "program"
    <3>1. root' = NewNode /\ NewNode \in live' /\ pc' = "parse"
      BY <2>1, ReduceRest, ReduceForest
    <3>2. /\ IsSeq(stack') /\ Spelled(stack') /\ DOMAIN stack' = 1..Kept + 1
          /\ stack'[Kept + 1].node = NewNode /\ stack'[Kept + 1].symbol = "program"
          /\ Kept \in Nat
      <4>1. Kept \in 0..Len(stack) /\ Len(stack) \in Nat
        BY ReduceStack, StackFacts
      <4>2. QED
        BY <4>1, <2>1, ReduceStack
    <3>3. Kept + 1 \in DOMAIN stack'
      BY <3>2
    <3>4. Kept + 1 = 1
      BY <3>2, <3>3, ProgramFirst
    <3>5. Len(stack') = 1 /\ stack'[1].symbol = "program" /\ stack'[1].node = NewNode
          /\ \A j \in DOMAIN stack' : j = 1
      BY <3>2, <3>4, SeqFacts
    <3>6. QED
      BY <3>1, <3>5 DEF Roots
  <2>2. CASE Rules[Reduced].lhs # "program"
    <3>1. root' = root /\ root \notin live /\ pc' = "parse"
      BY <2>2, ReduceRest
    <3>2. root \in {Nullptr, Wild}
      BY <3>1 DEF MemoryInv, Roots
    <3>3. root \notin live'
      <4>1. live' \subseteq 1..NewNode
        BY ReduceForest, ReduceNodes
      <4>2. QED
        BY <4>1, <3>2 DEF Nullptr, Wild
    <3>4. \A j \in DOMAIN stack' : stack'[j].symbol # "program"
      BY <2>2, ReduceRest, ReduceStack, ReduceTops
    <3>5. QED
      BY <3>1, <3>2, <3>3, <3>4 DEF Roots
  <2>3. QED
    BY <2>1, <2>2
<1>5. Counts'
  <2>1. /\ CountNamed(Handle) \in Nat /\ CountNamed(stack') \in Nat
        /\ CountNamed(stack) = CountNamed(stack') + CountNamed(Handle)
        /\ strings' = strings - CountNamed(Handle)
    BY ReduceStack, ReduceRest
  <2>2. strings \in Nat /\ strings >= CountNamed(stack)
    BY DEF MemoryInv, Counts
  <2>3. strings' \in Nat /\ strings' >= CountNamed(stack')
    BY <2>1, <2>2
  <2>4. QED
    BY <2>3, ReduceRest DEF MemoryInv, Counts
<1>6. Reading'
  BY ReduceRest DEF MemoryInv, Reading
<1>7. QED
  BY <1>1, <1>2, <1>3, <1>4, <1>5, <1>6 DEF MemoryInv
-----------------------------------------------------------------------------
(* The theorems.                                                           *)

\* What syntax() and the actions of the grammar keep true of the memory they
\* use holds however the files read and in whichever order the steps come
\* (SyntaxTree.c:11-70, syntax_analyzer.y:593-624).
THEOREM MemoryInvariance == Spec => []MemoryInv
<1>1. Init => MemoryInv
  BY InitMemory
<1>2. MemoryInv /\ [Next]_vars => MemoryInv'
  <2> SUFFICES ASSUME MemoryInv, [Next]_vars PROVE MemoryInv'
    OBVIOUS
  <2>1. CASE Open
    BY <2>1, OpenMemory
  <2>2. CASE Shift
    BY <2>2, ShiftMemory
  <2>3. CASE Reduce
    BY <2>3, ReduceMemory
  <2>4. CASE Accept
    BY <2>4, AcceptMemory
  <2>5. CASE SyntaxError
    BY <2>5, SyntaxErrorMemory
  <2>6. CASE PrintTree
    BY <2>6, PrintTreeMemory
  <2>7. CASE PrintWildTree \/ Return \/ Ended
    BY <2>7, RestMemory
  <2>8. CASE UNCHANGED vars
    BY <2>8, StutterMemory
  <2>9. QED
    BY <2>1, <2>2, <2>3, <2>4, <2>5, <2>6, <2>7, <2>8 DEF Next, Parse
<1>3. QED
  BY <1>1, <1>2, PTL DEF Spec

\* Whatever the files hold, the state is made of nodes, stack entries and
\* files that exist, and a child is older than its parent: the trees that
\* newSyntaxTreeNode and SyntaxTreeNode_AddChild build have no cycle
\* (SyntaxTree.c:11-35).
THEOREM TypeCorrectness == Spec => []TreeTypeOK
<1>1. MemoryInv => TreeTypeOK
  <2> SUFFICES ASSUME MemoryInv PROVE TreeTypeOK
    OBVIOUS
  <2>1. pc \in {"next", "parse", "print", "done", "exit", "undefined"} /\ file \in 0..Len(batch)
    BY DEF MemoryInv, Files
  <2>2. live \subseteq DOMAIN nodes /\ \A n \in DOMAIN nodes : Children(n) \subseteq 1..n - 1
    BY DEF MemoryInv, Forest
  <2>3. root \in {Nullptr, Wild} \cup DOMAIN nodes
    BY <2>2 DEF MemoryInv, Roots
  <2>4. \A j \in DOMAIN stack : stack[j].state # {}
    BY DEF MemoryInv, ParserStack, Spelled
  <2>5. \A j \in DOMAIN stack : stack[j].node \in {0} \cup DOMAIN nodes
    BY <2>2 DEF MemoryInv, Forest
  <2>6. strings \in Nat /\ trees \in Nat
    BY DEF MemoryInv, Counts
  <2>7. QED
    BY <2>1, <2>2, <2>3, <2>4, <2>5, <2>6 DEF TreeTypeOK
<1>2. QED
  BY <1>1, MemoryInvariance, PTL

\* The places of the children of some nodes, and the children, are as many
\* when no two places hold the same child.
PlacesIn(nds, S) == UNION {{<<n, j>> : j \in DOMAIN nds[n].children} : n \in S}
ChildrenIn(nds, S) == UNION {Range(nds[n].children) : n \in S}
PlacedOnce(nds, S) ==
    \A m, n \in S : \A i \in DOMAIN nds[m].children, j \in DOMAIN nds[n].children :
        nds[m].children[i] = nds[n].children[j] => m = n /\ i = j

LEMMA OncePlaced ==
    ASSUME NEW nds, NEW S, NEW N \in Nat, PlacedOnce(nds, S),
           \A n \in S : Range(nds[n].children) \subseteq 1..N
    PROVE  Cardinality(PlacesIn(nds, S)) = Cardinality(ChildrenIn(nds, S))
<1> USE DEF PlacedOnce
<1> DEFINE places == UNION {{<<n, j>> : j \in DOMAIN nds[n].children} : n \in S}
           children == UNION {Range(nds[n].children) : n \in S}
           f == [p \in places |-> nds[p[1]].children[p[2]]]
<1>1. ASSUME NEW p \in places
      PROVE  \E n \in S : \E j \in DOMAIN nds[n].children :
                /\ p = <<n, j>> /\ p[1] = n /\ p[2] = j
                /\ nds[n].children[j] \in children /\ f[p] = nds[n].children[j]
  <2>1. PICK n \in S : p \in {<<n, j>> : j \in DOMAIN nds[n].children}
    BY <1>1
  <2>2. PICK j \in DOMAIN nds[n].children : p = <<n, j>>
    BY <2>1
  <2>3. p[1] = n /\ p[2] = j
    BY <2>2
  <2>4. nds[n].children[j] \in Range(nds[n].children)
    BY DEF Range
  <2>5. nds[n].children[j] \in children
    BY <2>4
  <2>6. f[p] = nds[n].children[j]
    BY <1>1, <2>3
  <2>7. QED
    BY <2>2, <2>3, <2>5, <2>6
<1>2. ASSUME NEW c \in children PROVE \E p \in places : f[p] = c
  <2>1. PICK n \in S : c \in Range(nds[n].children)
    BY <1>2
  <2>2. PICK j \in DOMAIN nds[n].children : nds[n].children[j] = c
    BY <2>1 DEF Range
  <2>3. <<n, j>> \in {<<n, k>> : k \in DOMAIN nds[n].children}
    OBVIOUS
  <2>4. <<n, j>> \in places
    BY <2>3
  <2>5. f[<<n, j>>] = nds[<<n, j>>[1]].children[<<n, j>>[2]]
    BY <2>4
  <2>6. QED
    BY <2>2, <2>4, <2>5
<1>3. IsFiniteSet(children)
  <2>1. children \in SUBSET (1..N)
    OBVIOUS
  <2>2. IsFiniteSet(1..N)
    BY FS_Interval
  <2>3. QED
    BY <2>1, <2>2, FS_Subset
<1>4. f \in [places -> children]
  <2>1. \A p \in places : f[p] \in children
    BY <1>1
  <2>2. f = [p \in places |-> f[p]]
    OBVIOUS
  <2> HIDE DEF f, places, children
  <2>3. QED
    BY <2>1, <2>2
<1>5. \A p, q \in places : f[p] = f[q] => p = q
  <2> SUFFICES ASSUME NEW p \in places, NEW q \in places, f[p] = f[q] PROVE p = q
    OBVIOUS
  <2>1. PICK m \in S : \E i \in DOMAIN nds[m].children : p = <<m, i>> /\ f[p] = nds[m].children[i]
    BY <1>1
  <2>2. PICK n \in S : \E j \in DOMAIN nds[n].children : q = <<n, j>> /\ f[q] = nds[n].children[j]
    BY <1>1
  <2> HIDE DEF f, places, children
  <2>3. QED
    BY <2>1, <2>2
<1> HIDE DEF f, places, children
<1>6. DOMAIN f = places
  BY <1>4
<1>7. f \in Injection(places, children) /\ f \in Surjection(places, children)
  BY <1>2, <1>4, <1>5, <1>6 DEF Injection, IsInjective, Surjection
<1>8. Cardinality(places) = Cardinality(children)
  BY <1>3, <1>7, FS_Injection
<1>9. QED
  BY <1>8 DEF places, children, PlacesIn, ChildrenIn

\* Whatever the files hold, an allocated node is a child of at most one
\* allocated node, once, and of none while the parser or the driver has it in
\* hand: deleteSyntaxTreeNode frees each node it reaches once, and nothing
\* that is freed is used again (SyntaxTree.c:45-55, syntax_analyzer.y:593-624).
THEOREM SingleOwnership == Spec => []OneOwner
<1>1. MemoryInv => OneOwner
  <2> SUFFICES ASSUME MemoryInv PROVE OneOwner
    OBVIOUS
  <2> DEFINE children == UNION {Children(n) : n \in live}
  <2>1. /\ IsSeq(nodes) /\ live \subseteq DOMAIN nodes
        /\ \A n \in DOMAIN nodes : IsSeq(nodes[n].children) /\ Children(n) \subseteq 1..n - 1
        /\ \A n \in live : Children(n) \subseteq live
        /\ InHand \subseteq live /\ \A n \in InHand : Parents(n) = {}
    BY DEF MemoryInv, Forest
  <2>2. DOMAIN nodes = 1..Len(nodes) /\ Len(nodes) \in Nat
    BY <2>1, SeqFacts
  <2>3. \A n \in live : Range(nodes[n].children) \subseteq 1..Len(nodes)
    BY <2>1, <2>2 DEF Children
  <2>4. ASSUME NEW m \in live, NEW n \in live,
               NEW i \in DOMAIN nodes[m].children, NEW j \in DOMAIN nodes[n].children,
               nodes[m].children[i] = nodes[n].children[j]
        PROVE  m = n /\ i = j
    <3>1. nodes[m].children[i] \in Children(m) /\ nodes[m].children[i] \in Children(n)
      BY <2>4 DEF Children, Range
    <3>2. m = n
      BY <3>1 DEF MemoryInv, Forest
    <3>3. \A k, l \in DOMAIN nodes[m].children :
             nodes[m].children[k] = nodes[m].children[l] => k = l
      BY DEF MemoryInv, Forest
    <3>4. QED
      BY <3>2, <3>3, <2>4
  <2>5. Cardinality(PlacesIn(nodes, live)) = Cardinality(ChildrenIn(nodes, live))
    <3>1. PlacedOnce(nodes, live)
      BY <2>4 DEF PlacedOnce
    <3>2. QED
      BY <2>2, <2>3, <3>1, OncePlaced
  <2>6. children = ChildrenIn(nodes, live)
    BY DEF Children, ChildrenIn
  <2>7. children \cup InHand \subseteq live
    BY <2>1
  <2>8. InHand \cap children = {}
    BY <2>1 DEF Parents
  <2>9. \A j, k \in DOMAIN stack : stack[j].node = stack[k].node => stack[j].node = 0 \/ j = k
    BY DEF MemoryInv, Forest
  <2>10. QED
    BY <2>5, <2>6, <2>7, <2>8, <2>9, Zenon DEF OneOwner, PlacesIn
<1>2. QED
  BY <1>1, MemoryInvariance, PTL
-----------------------------------------------------------------------------
(* Nothing is left allocated.                                              *)

AllAccepted ==
    pc # "exit" /\ \A f \in 1..file : verdicts[f] = "accepted" \/ (f = file /\ pc = "parse")
InUse ==
    /\ live = UNION {Below(n) : n \in InHand}
    /\ strings = CountNamed(stack)
    /\ trees = IF pc \in {"parse", "print"} THEN 1 ELSE 0

ReachOf(nds, S) == UNION {Reach(nds, n) : n \in S}

\* Every node below an allocated node is allocated.
LEMMA ReachClosed ==
    ASSUME NEW nds, NEW L \in SUBSET DOMAIN nds, Closed(nds, L), NEW S \in SUBSET L
    PROVE  ReachOf(nds, S) \subseteq L
  BY DEF ReachOf, Reach

\* What InUse says of the nodes, without recursion, before and after a step.
LEMMA InUseNow ==
    ASSUME MemoryInv
    PROVE  /\ Older(nodes) /\ live \in SUBSET DOMAIN nodes /\ Closed(nodes, live)
           /\ InHand \in SUBSET live
           /\ UNION {Below(n) : n \in InHand} = ReachOf(nodes, InHand)
<1>1. Forest /\ live \in SUBSET DOMAIN nodes /\ InHand \in SUBSET live /\ Closed(nodes, live)
  BY DEF MemoryInv, Forest, Closed, Children
<1>2. Older(nodes)
  BY DEF MemoryInv, Forest, Older, Children
<1>3. \A n \in InHand : Below(n) = Reach(nodes, n)
  BY <1>1, BelowFacts
<1>4. QED
  BY <1>1, <1>2, <1>3 DEF ReachOf

LEMMA InUseNext ==
    ASSUME MemoryInv'
    PROVE  /\ Older(nodes') /\ live' \in SUBSET DOMAIN nodes' /\ Closed(nodes', live')
           /\ InHand' \in SUBSET live'
           /\ (UNION {Below(n) : n \in InHand})' = ReachOf(nodes', InHand')
<1>1. Forest' /\ live' \in SUBSET DOMAIN nodes' /\ InHand' \in SUBSET live' /\ Closed(nodes', live')
  BY DEF MemoryInv, Forest, Closed, Children
<1>2. Older(nodes')
  BY DEF MemoryInv, Forest, Older, Children
<1>3. \A n : Below(n)' = BelowIn(nodes', n)
  BY DEF Below, BelowIn
<1>4. ASSUME NEW n \in InHand' PROVE Below(n)' = Reach(nodes', n)
  <2>1. n \in DOMAIN nodes'
    BY <1>1
  <2>2. BelowIn(nodes', n) = Reach(nodes', n)
    BY <1>2, <2>1, BelowIsReach
  <2>3. QED
    BY <1>3, <2>2
<1>5. QED
  BY <1>1, <1>2, <1>4 DEF ReachOf

LEMMA InitInUse == Init => NothingLeaks
<1> SUFFICES ASSUME Init PROVE NothingLeaks
  OBVIOUS
<1>1. pc = "next" /\ live = {} /\ stack = <<>> /\ strings = 0 /\ trees = 0
  BY DEF Init
<1>2. InHand = {}
  BY <1>1, Zenon DEF InHand
<1>3. QED
  BY <1>1, <1>2, CountNothing DEF NothingLeaks

\* Nothing is allocated when a file is begun, unless one has been rejected.
LEMMA OpenInUse == ASSUME MemoryInv, AllAccepted => InUse, Open, AllAccepted' PROVE InUse'
<1>1. /\ pc = "next" /\ file < Len(batch) /\ file' = file + 1 /\ trees' = trees + 1
      /\ UNCHANGED <<batch, stack, nodes, live, strings, verdicts>>
      /\ pc' \in {"exit", "next", "parse"}
  BY DEF Open
<1>2. /\ file \in Nat /\ file + 1 \in DOMAIN batch /\ file + 1 \in 1..file + 1
  <2>1. IsBatch(batch) /\ file \in 0..Len(batch)
    BY DEF MemoryInv, Files
  <2>2. Len(batch) \in Nat /\ DOMAIN batch = 1..Len(batch)
    BY <2>1, BatchFacts
  <2>3. QED
    BY <1>1, <2>1, <2>2
<1>3. verdicts[file + 1] = "unread"
  BY <1>2 DEF MemoryInv, Files
<1>4. pc' = "parse"
  BY <1>1, <1>2, <1>3 DEF AllAccepted
<1>5. AllAccepted
  <2>1. ASSUME NEW f \in 1..file PROVE verdicts[f] = "accepted"
    <3>1. f \in 1..file + 1 /\ f # file + 1
      BY <1>2
    <3>2. QED
      BY <3>1, <1>1 DEF AllAccepted
  <2>2. QED
    BY <2>1, <1>1 DEF AllAccepted
<1>6. InHand = {} /\ InHand' = {}
  <2>1. stack = <<>> /\ stack' = <<>>
    BY <1>1 DEF MemoryInv, ParserStack
  <2>2. Tops' = {}
    BY <2>1 DEF Tops
  <2>3. InHand = {}
    BY <1>1, Zenon DEF InHand
  <2>4. InHand' = Tops'
    BY <1>4 DEF InHand
  <2>5. QED
    BY <2>2, <2>3, <2>4
<1>7. live = {} /\ strings = CountNamed(stack) /\ trees = 0
  <2>1. live = UNION {Below(n) : n \in InHand} /\ strings = CountNamed(stack) /\ trees = 0
    BY <1>1, <1>5 DEF InUse
  <2>2. QED
    BY <1>6, <2>1
<1>8. live' = (UNION {Below(n) : n \in InHand})'
  BY <1>1, <1>6, <1>7
<1>9. strings' = CountNamed(stack)'
  BY <1>1, <1>7 DEF CountNamed
<1>10. trees' = 1
  BY <1>1, <1>7
<1>11. QED
  BY <1>4, <1>8, <1>9, <1>10 DEF InUse
LEMMA ShiftInUse == ASSUME MemoryInv, AllAccepted => InUse, Shift, AllAccepted' PROVE InUse'
<1> DEFINE token == Head(input)
           e == Entry(token.type, GoTo(State, token.type), 0,
                      IF token.type \in Named THEN token.text ELSE Lexeme[token.type])
<1>1. /\ pc = "parse" /\ pc' = pc /\ stack' = Append(stack, e)
      /\ strings' = strings + (IF token.type \in Named THEN 1 ELSE 0)
      /\ UNCHANGED <<file, nodes, live, trees, verdicts>>
  BY DEF Shift
<1>2. InUse
  BY <1>1 DEF AllAccepted
<1>3. IsSeq(stack) /\ DOMAIN stack = 1..Len(stack) /\ Len(stack) \in Nat
  BY StackFacts
<1>4. e.node = 0 /\ e.symbol = token.type
  BY DEF Entry
<1> HIDE DEF e, token
<1>5. CountNamed(stack') = CountNamed(stack) + (IF token.type \in Named THEN 1 ELSE 0)
  BY <1>1, <1>3, <1>4, CountPushed
<1>6. Tops' = Tops
  <2>1. /\ DOMAIN stack' = 1..Len(stack) + 1 /\ stack'[Len(stack) + 1] = e
        /\ \A j \in 1..Len(stack) : stack'[j] = stack[j]
    <3>1. /\ IsSeq(stack') /\ Len(stack') = Len(stack) + 1 /\ stack'[Len(stack) + 1] = e
          /\ \A j \in 1..Len(stack) : stack'[j] = stack[j]
      BY <1>1, <1>3, AppendFacts
    <3>2. QED
      BY <3>1, SeqFacts
  <2>2. 1..Len(stack) + 1 = 1..Len(stack) \cup {Len(stack) + 1}
    BY <1>3
  <2>3. QED
    BY <2>1, <2>2, <1>3, <1>4 DEF Tops
<1>7. InHand' = InHand
  BY <1>1, <1>6 DEF InHand
<1>8. (UNION {Below(n) : n \in InHand})' = UNION {Below(n) : n \in InHand}
  BY <1>1, <1>7 DEF Below
<1>9. CountNamed(stack)' = CountNamed(stack')
  BY DEF CountNamed
<1>10. QED
  BY <1>1, <1>2, <1>5, <1>8, <1>9 DEF InUse

\* The nodes that are popped are below the new one, and no text is kept.
LEMMA ReduceInUse == ASSUME MemoryInv, AllAccepted => InUse, Reduce, AllAccepted' PROVE InUse'
<1>1. /\ pc = "parse" /\ UNCHANGED <<batch, file, pc, input, trees, verdicts>>
      /\ strings' = strings - CountNamed(Handle)
  BY ReduceRest
<1>2. InUse
  BY <1>1 DEF AllAccepted
<1>3. strings' = CountNamed(stack)'
  <2>1. /\ CountNamed(Handle) \in Nat /\ CountNamed(stack') \in Nat
        /\ CountNamed(stack) = CountNamed(stack') + CountNamed(Handle)
    BY ReduceStack
  <2>2. strings = CountNamed(stack)
    BY <1>2 DEF InUse
  <2>3. strings' = CountNamed(stack')
    BY <1>1, <2>1, <2>2
  <2>4. QED
    BY <2>3 DEF CountNamed
<1>4. trees' = IF pc' \in {"parse", "print"} THEN 1 ELSE 0
  BY <1>1, <1>2 DEF InUse
<1>5. /\ Older(nodes) /\ Older(nodes') /\ InHand \in SUBSET live /\ live \in SUBSET DOMAIN nodes
      /\ live' \in SUBSET DOMAIN nodes' /\ Closed(nodes', live') /\ InHand' \in SUBSET live'
      /\ UNION {Below(n) : n \in InHand} = ReachOf(nodes, InHand)
      /\ (UNION {Below(n) : n \in InHand})' = ReachOf(nodes', InHand')
  <2>1. MemoryInv'
    BY ReduceMemory
  <2>2. QED
    BY <2>1, InUseNow, InUseNext
<1>6. \A n \in DOMAIN nodes : Reach(nodes', n) = Reach(nodes, n)
  <2>1. \A n \in DOMAIN nodes : nodes'[n].children = nodes[n].children
    BY ReduceNodes
  <2>2. DOMAIN nodes \subseteq DOMAIN nodes'
    BY ReduceNodes DEF NewNode
  <2>3. QED
    BY <2>1, <2>2, <1>5, ReachKept
<1>7. ReachOf(nodes', InHand') \subseteq live'
  BY <1>5, ReachClosed
<1>8. NewNode \in DOMAIN nodes' /\ NewNode \in InHand'
  BY ReduceForest, ReduceTops
<1>9. \A c \in Range(nodes'[NewNode].children) : Reach(nodes', c) \subseteq Reach(nodes', NewNode)
  BY <1>5, <1>8, ReachFacts
<1>10. \A n \in DOMAIN nodes' : n \in Reach(nodes', n)
  BY <1>5, ReachFacts
<1>11. ASSUME NEW x \in live' PROVE x \in ReachOf(nodes', InHand')
  <2>1. CASE x = NewNode
    BY <2>1, <1>8, <1>10 DEF ReachOf
  <2>2. CASE x \in NewLeaves
    <3>1. x \in Range(nodes'[NewNode].children) /\ x \in DOMAIN nodes'
      BY <2>2, ReduceNodes, ReduceForest
    <3>2. x \in Reach(nodes', NewNode)
      BY <3>1, <1>9, <1>10
    <3>3. QED
      BY <3>2, <1>8 DEF ReachOf
  <2>3. CASE x \in live
    <3>1. PICK t \in InHand : x \in Reach(nodes, t)
      BY <2>3, <1>2, <1>5 DEF InUse, ReachOf
    <3>2. x \in Reach(nodes', t)
      BY <3>1, <1>5, <1>6
    <3>3. PICK j \in DOMAIN stack : t = stack[j].node /\ t # 0
      BY <3>1, ReduceTops DEF Tops
    <3>4. Kept \in 0..Len(stack) /\ DOMAIN stack = 1..Len(stack) /\ Len(stack) \in Nat
      BY ReduceStack, StackFacts
    <3>5. CASE j \in 1..Kept
      <4>1. t \in InHand'
        BY <3>3, <3>5, ReduceTops
      <4>2. QED
        BY <4>1, <3>2 DEF ReachOf
    <3>6. CASE j \notin 1..Kept
      <4>1. j \in Kept + 1..Len(stack)
        BY <3>3, <3>4, <3>6
      <4>2. t \in Range(nodes'[NewNode].children)
        BY <3>3, <4>1, ReduceNodes
      <4>3. x \in Reach(nodes', NewNode)
        BY <4>2, <3>2, <1>9
      <4>4. QED
        BY <4>3, <1>8 DEF ReachOf
    <3>7. QED
      BY <3>5, <3>6
  <2>4. QED
    BY <1>11, <2>1, <2>2, <2>3, ReduceForest
<1>12. live' = (UNION {Below(n) : n \in InHand})'
  BY <1>5, <1>7, <1>11
<1>13. QED
  BY <1>3, <1>4, <1>12 DEF InUse

\* yyparse returns 0: the tree is what the root holds, and no text is left.
LEMMA AcceptInUse == ASSUME MemoryInv, AllAccepted => InUse, Accept, AllAccepted' PROVE InUse'
<1>1. /\ pc = "parse" /\ Shifts(State, "$end") /\ stack' = <<>> /\ pc' = "print"
      /\ verdicts' = [verdicts EXCEPT ![file] = "accepted"]
      /\ UNCHANGED <<batch, file, input, nodes, live, root, trees, strings>>
  BY DEF Accept, OnceParsed, Answered, heap
<1>2. root \in live
  BY AcceptMemory
<1>3. AllAccepted
  <2>1. \A f \in 1..file : verdicts'[f] = "accepted"
    BY <1>1 DEF AllAccepted
  <2>2. \A f \in 1..file : f # file => verdicts'[f] = verdicts[f]
    BY <1>1
  <2>3. \A f \in 1..file : verdicts[f] = "accepted" \/ (f = file /\ pc = "parse")
    BY <1>1, <2>1, <2>2
  <2>4. QED
    BY <2>3, <1>1 DEF AllAccepted
<1>4. InUse
  BY <1>3
<1>5. InHand = {root} /\ root \notin {Nullptr, Wild}
  BY <1>1, <1>2, RootAlone
<1>6. InHand' = {root}
  BY <1>1, <1>5 DEF InHand
<1>7. (UNION {Below(n) : n \in InHand})' = UNION {Below(n) : n \in InHand}
  BY <1>1, <1>5, <1>6 DEF Below
<1>8. strings = 0
  <2>1. Len(stack) = 1 /\ stack[1].symbol = "program"
    BY <1>1, <1>2 DEF MemoryInv, Roots
  <2>2. DOMAIN stack = 1..1 /\ 1..1 = {1}
    BY <2>1, StackFacts
  <2>3. {j \in DOMAIN stack : stack[j].symbol \in Named} = {}
    BY <2>1, <2>2 DEF Named
  <2>4. CountNamed(stack) = 0
    BY <2>3, FS_EmptySet DEF CountNamed
  <2>5. QED
    BY <2>4, <1>4 DEF InUse
<1>9. strings' = CountNamed(stack)'
  <2>1. CountNamed(stack') = 0
    BY <1>1, CountNothing
  <2>2. QED
    BY <2>1, <1>1, <1>8 DEF CountNamed
<1>10. QED
  BY <1>1, <1>4, <1>7, <1>9 DEF InUse

\* The file that has just been rejected is one the driver has begun.
LEMMA SyntaxErrorInUse == ASSUME MemoryInv, SyntaxError PROVE ~AllAccepted'
<1>1. /\ pc = "parse" /\ pc' = "print" /\ file' = file
      /\ verdicts' = [verdicts EXCEPT ![file] = "rejected"]
  BY DEF SyntaxError, OnceParsed, Answered
<1>2. file \in 1..file /\ file \in DOMAIN verdicts
  <2>1. /\ IsBatch(batch) /\ file \in 0..Len(batch) /\ file >= 1
        /\ DOMAIN verdicts = DOMAIN batch
    BY <1>1 DEF MemoryInv, Files
  <2>2. Len(batch) \in Nat /\ DOMAIN batch = 1..Len(batch)
    BY <2>1, BatchFacts
  <2>3. QED
    BY <2>1, <2>2
<1>3. verdicts'[file] = "rejected"
  BY <1>1, <1>2
<1>4. QED
  BY <1>1, <1>2, <1>3 DEF AllAccepted

\* The file that is being printed has been begun.
LEMMA PrintedFile == ASSUME MemoryInv, pc = "print" PROVE file \in 1..file
<1>1. IsBatch(batch) /\ file \in 0..Len(batch) /\ file >= 1
  BY DEF MemoryInv, Files
<1>2. Len(batch) \in Nat
  BY <1>1, BatchFacts
<1>3. QED
  BY <1>1, <1>2

\* deleteSyntaxTree frees all that is below the root, and the tree.
LEMMA PrintTreeInUse == ASSUME MemoryInv, AllAccepted => InUse, PrintTree, AllAccepted' PROVE InUse'
<1>1. /\ pc = "print" /\ trees' = trees - 1 /\ pc' = "next"
      /\ live' = (IF root = Nullptr THEN live ELSE live \ Below(root))
      /\ UNCHANGED <<batch, file, input, stack, nodes, strings, verdicts>>
  BY DEF PrintTree, Freed, parser
<1>2. AllAccepted /\ verdicts[file] = "accepted"
  BY <1>1, PrintedFile DEF AllAccepted
<1>3. InUse
  BY <1>2
<1>4. root \in live
  BY <1>1, <1>2 DEF MemoryInv, Roots
<1>5. InHand = {root} /\ root \notin {Nullptr, Wild}
  BY <1>1, <1>4, RootAlone
<1>6. live = Below(root)
  BY <1>3, <1>5 DEF InUse
<1>7. live' = {}
  BY <1>1, <1>5, <1>6
<1>8. InHand' = {}
  BY <1>1 DEF InHand
<1>9. trees' = 0
  BY <1>1, <1>3 DEF InUse
<1>10. strings' = CountNamed(stack)'
  BY <1>1, <1>3 DEF InUse, CountNamed
<1>11. QED
  BY <1>1, <1>7, <1>8, <1>9, <1>10 DEF InUse

LEMMA RestInUse ==
    ASSUME MemoryInv, AllAccepted => InUse,
           PrintWildTree \/ Return \/ Ended \/ UNCHANGED vars, AllAccepted'
    PROVE  InUse'
<1>1. CASE PrintWildTree
  <2>1. pc = "print" /\ root = Wild /\ pc' = "undefined" /\ UNCHANGED <<file, verdicts>>
    BY <1>1 DEF PrintWildTree
  <2>2. verdicts[file] = "accepted"
    BY <2>1, PrintedFile DEF AllAccepted
  <2>3. root \in live
    BY <2>1, <2>2 DEF MemoryInv, Roots
  <2>4. QED
    BY <2>1, <2>3, RootAlone
<1>2. CASE Return
  <2>1. pc = "next" /\ pc' = "done" /\ UNCHANGED <<file, verdicts, stack, nodes, live, root, trees, strings>>
    BY <1>2 DEF Return, parser, heap
  <2>2. AllAccepted
    BY <2>1 DEF AllAccepted
  <2>3. InUse
    BY <2>2
  <2>4. InHand = {} /\ InHand' = {}
    BY <2>1 DEF InHand
  <2>5. live' = (UNION {Below(n) : n \in InHand})'
    BY <2>1, <2>3, <2>4 DEF InUse
  <2>6. strings' = CountNamed(stack)'
    BY <2>1, <2>3 DEF InUse, CountNamed
  <2>7. QED
    BY <2>1, <2>3, <2>5, <2>6 DEF InUse
<1>3. CASE Ended \/ UNCHANGED vars
  <2>1. UNCHANGED <<batch, file, pc, input, stack, nodes, live, root, trees, strings, verdicts>>
    BY <1>3 DEF Ended, vars, parser, heap
  <2>2. AllAccepted
    BY <2>1 DEF AllAccepted
  <2>3. InUse
    BY <2>2
  <2>4. InHand' = InHand
    BY <2>1 DEF InHand, Tops
  <2>5. live' = (UNION {Below(n) : n \in InHand})'
    BY <2>1, <2>3, <2>4 DEF InUse, Below
  <2>6. strings' = CountNamed(stack)'
    BY <2>1, <2>3 DEF InUse, CountNamed
  <2>7. QED
    BY <2>1, <2>3, <2>5, <2>6 DEF InUse
<1>4. QED
  BY <1>1, <1>2, <1>3

\* As long as yyparse has accepted each file and none has been left unread,
\* each node that is allocated is below a node on the parser's stack or the
\* root of the tree, each text is on the stack, and there is one tree while a
\* file is being worked on: between two files everything has been freed
\* (SyntaxTree.c:45-70, syntax_analyzer.y:593-624).
THEOREM EverythingFreed == Spec => []NothingLeaks
<1>1. Init => NothingLeaks
  BY InitInUse
<1>2. MemoryInv /\ NothingLeaks /\ [Next]_vars => NothingLeaks'
  <2> SUFFICES ASSUME MemoryInv, NothingLeaks, [Next]_vars PROVE NothingLeaks'
    OBVIOUS
  <2>1. NothingLeaks <=> (AllAccepted => InUse)
    BY DEF NothingLeaks, AllAccepted, InUse
  <2>2. NothingLeaks' <=> (AllAccepted' => InUse')
    BY DEF NothingLeaks, AllAccepted, InUse
  <2>3. SUFFICES ASSUME AllAccepted' PROVE InUse'
    BY <2>2
  <2>4. CASE Open
    BY <2>1, <2>3, <2>4, OpenInUse
  <2>5. CASE Shift
    BY <2>1, <2>3, <2>5, ShiftInUse
  <2>6. CASE Reduce
    BY <2>1, <2>3, <2>6, ReduceInUse
  <2>7. CASE Accept
    BY <2>1, <2>3, <2>7, AcceptInUse
  <2>8. CASE SyntaxError
    BY <2>3, <2>8, SyntaxErrorInUse
  <2>9. CASE PrintTree
    BY <2>1, <2>3, <2>9, PrintTreeInUse
  <2>10. CASE PrintWildTree \/ Return \/ Ended \/ UNCHANGED vars
    BY <2>1, <2>3, <2>10, RestInUse
  <2>11. QED
    BY <2>4, <2>5, <2>6, <2>7, <2>8, <2>9, <2>10 DEF Next, Parse
<1>3. QED
  BY <1>1, <1>2, MemoryInvariance, PTL DEF Spec
=============================================================================
