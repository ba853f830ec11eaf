-------------------------- MODULE CminusPrograms ---------------------------
(***************************************************************************)
(* Small C-minus programs as abstract syntax trees: what the model checker *)
(* runs the IR builder on.  The trees have the shape that                  *)
(* src/syntax_tree_cpp/syntax_tree.cpp gives to programs of the grammar.   *)
(***************************************************************************)
EXTENDS Integers, Sequences

Null == [node |-> "nullptr"]

\* Expressions, each wrapped in the chain of nodes the grammar puts it in.
Num(n) == [node |-> "num", value |-> n]
Id(x) == [node |-> "var", id |-> x, expression |-> Null]
At(x, index) == [node |-> "var", id |-> x, expression |-> index]
CallOf(f, args) == [node |-> "call", id |-> f, args |-> args]

Term(l, op, r) == [node |-> "term", term |-> l, op |-> op, factor |-> r]
Additive(l, op, r) ==
    [node |-> "additive_expression", additive_expression |-> l, op |-> op, term |-> r]
Simple(l, op, r) ==
    [node |-> "simple_expression", additive_expression_l |-> l, op |-> op,
     additive_expression_r |-> r]

Factor(f) == Term(Null, "none", f)
Sum1(f) == Additive(Null, "none", Factor(f))
E(f) == Simple(Sum1(f), "none", Null)
Compare(f, op, g) == Simple(Sum1(f), op, Sum1(g))
Sum(f, op, g) == Simple(Additive(Sum1(f), op, Factor(g)), "none", Null)
Product(f, op, g) ==
    Simple(Additive(Null, "none", Term(Factor(f), op, g)), "none", Null)
Assign(var, e) == [node |-> "assign_expression", var |-> var, expression |-> e]

\* Statements.
Do(e) == [node |-> "expresion_stmt", expression |-> e]
DoCall(f, args) == Do(E(CallOf(f, args)))
Empty == Do(Null)
Block(declarations, statements) ==
    [node |-> "compound_stmt", local_declarations |-> declarations,
     statement_list |-> statements]
IfElse(c, s, t) ==
    [node |-> "selection_stmt", expression |-> c, if_statement |-> s, else_statement |-> t]
If(c, s) == IfElse(c, s, Null)
While(c, s) == [node |-> "iteration_stmt", expression |-> c, statement |-> s]
ReturnOf(e) == [node |-> "return_stmt", expression |-> e]
ReturnVoid == ReturnOf(Null)

\* Declarations.
Scalar(x) == [node |-> "var_declaration", id |-> x, num |-> Null]
Array(x, n) == [node |-> "var_declaration", id |-> x, num |-> Num(n)]
ByValue(x) == [node |-> "param", id |-> x, isarray |-> FALSE]
ByReference(x) == [node |-> "param", id |-> x, isarray |-> TRUE]
Fun(type, f, params, body) ==
    [node |-> "fun_declaration", type |-> type, id |-> f, params |-> params,
     compound_stmt |-> body]
Program(declarations) == [node |-> "program", declarations |-> declarations]

-----------------------------------------------------------------------------
(* Control flow: every statement built from `leaves' with at most two      *)
(* levels of blocks of two, if, if-else and while on top of them.          *)

Compose(S, conditions) ==
    S \cup {Block(<<>>, <<s, t>>) : s \in S, t \in S}
      \cup {If(c, s) : c \in conditions, s \in S}
      \cup {IfElse(c, s, t) : c \in conditions, s \in S, t \in S}
      \cup {While(c, s) : c \in conditions, s \in S}

Nonzero == E(Id("x"))
Positive == Compare(Id("x"), "icmp_sgt", Num(0))

ControlPrograms ==
    LET leaves == {Do(Assign(Id("x"), E(Num(1)))), ReturnVoid, Empty}
        inner == Compose(leaves, {Positive})
        bodies == Compose(inner, {Nonzero})
    IN  {Program(<<Scalar("x"), Fun("void", "main", <<>>, Block(<<>>, <<s, Empty>>))>>) :
            s \in bodies}

\* Functions that return values, one of them on some paths only.
ReturningPrograms ==
    LET leaves == {ReturnOf(E(Num(1))), Do(Assign(Id("y"), E(Id("x")))),
                   ReturnOf(E(CallOf("f", <<E(Id("y"))>>)))}
        bodies == Compose(leaves, {Positive})
    IN  {Program(<<Fun("int", "f", <<ByValue("x")>>, Block(<<Scalar("y")>>, <<s>>)),
                   Fun("void", "main", <<>>,
                       Block(<<>>, <<DoCall("output", <<E(CallOf("f", <<E(Num(n))>>))>>)>>))>>) :
            s \in bodies, n \in {0, 1}}

-----------------------------------------------------------------------------
(* Expressions over a local, a parameter, a global and two arrays: one     *)
(* declared here, one received from the caller.                            *)

Simplest == {Id("x"), CallOf("g", <<E(Id("b")), E(Id("p"))>>), Num(2)}
Indices == {E(f) : f \in Simplest} \cup {Sum(Id("x"), "sub", Num(1)),
                                         Assign(Id("x"), E(At("a", E(Id("p")))))}
Elements == {At(x, i) : x \in {"a", "b", "v"}, i \in Indices}
Operand == Simplest \cup Elements
Values == {E(f) : f \in Operand}
          \cup {Sum(f, "add", g) : f \in Operand, g \in Simplest}
          \cup {Product(f, "mul", g) : f \in Simplest, g \in Operand}
          \cup {Assign(Id("x"), E(f)) : f \in Operand}
Uses == {Do(e) : e \in Values}
        \cup {Do(Assign(At("a", E(Id("x"))), e)) : e \in Values}
        \cup {If(Compare(f, "icmp_sle", g), Empty) : f \in Elements, g \in Simplest}
        \cup {While(e, Empty) : e \in {E(f) : f \in Elements}}
        \cup {DoCall("g", <<E(Id(x)), e>>) : x \in {"a", "b", "v"}, e \in Values}

ExpressionPrograms ==
    {Program(<<Scalar("x"), Array("a", 4), Scalar("p"),
               Fun("int", "g", <<ByReference("b"), ByValue("p")>>,
                   Block(<<Array("v", 2)>>, <<s, ReturnOf(E(Id("p")))>>)),
               Fun("void", "main", <<>>,
                   Block(<<>>, <<Do(Assign(Id("x"), E(CallOf("g", <<E(Id("a")), E(Id("p"))>>))))>>))>>) :
        s \in Uses}

\* The value of a comparison, used where C-minus allows a value.
Less == Compare(Id("x"), "icmp_slt", Num(1))
ComparisonPrograms ==
    {Program(<<Scalar("x"), Fun("int", "f", <<ByValue("p")>>, Block(<<>>, <<s, ReturnOf(E(Id("p")))>>)),
               Fun("void", "main", <<>>, Block(<<>>, <<DoCall("output", <<E(CallOf("f", <<E(Num(1))>>))>>)>>))>>) :
        s \in {If(Less, Empty), Do(Assign(Id("x"), Less)), DoCall("output", <<Less>>),
               Do(Sum(Less, "add", Num(1))), ReturnOf(Less)}}

-----------------------------------------------------------------------------
(* Scopes: declarations of one name at every level at which the grammar    *)
(* allows them, and uses between and after them.                           *)

Use(x) == Do(Assign(Id(x), Sum(Id(x), "add", Num(1))))
Locals == {<<>>, <<Scalar("x")>>, <<Scalar("f"), Scalar("x")>>, <<Scalar("y")>>}
Params == {<<>>, <<ByValue("x")>>, <<ByValue("y"), ByValue("x")>>}

\* The calls of f in main pass as many arguments as f has parameters.
Scoped(params, locals, body) ==
    Program(<<Scalar("x"), Fun("void", "f", params, Block(locals, <<body, Use("x")>>)),
              Scalar("y"),
              Fun("void", "main", <<>>,
                  Block(<<Scalar("z")>>,
                        <<DoCall("f", [p \in DOMAIN params |-> E(Id("y"))]), Use("x")>>))>>)

\* Declarations at the top of function bodies only, shadowing or not.
FlatPrograms ==
    {Scoped(params, locals, s) : params \in Params, locals \in Locals,
        s \in {Use("x"), Block(<<>>, <<Use("x"), Use("x")>>),
               While(Nonzero, Block(<<>>, <<Use("x")>>)), If(Nonzero, ReturnVoid)}}

\* Declarations in nested blocks as well.
NestedPrograms ==
    {Scoped(params, locals, s) : params \in Params, locals \in Locals,
        s \in UNION {{b, While(Nonzero, b), If(Positive, b), Block(<<>>, <<b, b>>)} :
                       b \in {Block(inner, <<Use("x")>>) : inner \in Locals}}}
=============================================================================
