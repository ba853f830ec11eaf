------------------------- MODULE MCSyntaxAnalyzer --------------------------
(* The parser and its driver on files of small programs, whole and broken. *)
EXTENDS SyntaxTrees, CminusPrograms

Numerals == "0" :> 0 @@ "1" :> 1 @@ "2" :> 2

\* One function around a statement, with what the statement may use.
Around(s) ==
    Program(<<Array("v", 2),
              Fun("int", "f", <<ByReference("a"), ByValue("x")>>, Block(<<Scalar("y")>>, <<s>>)),
              Fun("void", "g", <<>>, Block(<<Scalar("y"), Array("z", 1)>>, <<>>))>>)

Inner == {E(Id("x")), Sum(Id("x"), "sub", Num(1)), Assign(Id("x"), E(Num(2)))}
Factors == {Num(0), Id("x")} \cup {At("a", e) : e \in Inner} \cup Inner
           \cup {CallOf("f", args) : args \in {<<>>} \cup {<<e>> : e \in Inner}
                                              \cup {<<e, E(Num(0)), E(Id("a"))>> : e \in Inner}}

\* Two operators in a row, of equal and of different precedence.
Rows(f) == {
    Simple(Additive(Additive(Sum1(f), "sub", Factor(f)), "add", Factor(Num(1))), "none", Null),
    Simple(Additive(Sum1(f), "sub", Term(Factor(f), "sdiv", Num(1))), "none", Null),
    Simple(Additive(Additive(Null, "none", Term(Factor(f), "mul", f)), "add", Factor(Num(1))),
           "icmp_sge", Additive(Null, "none", Term(Term(Factor(f), "sdiv", f), "mul", Num(2)))),
    Assign(At("v", E(f)), Assign(Id("y"), Compare(f, "icmp_ne", f)))}

Conditionals == LET leaves == {Do(E(Id("x"))), ReturnVoid}
                    inner == leaves \cup {If(E(Id("y")), s) : s \in leaves}
                             \cup {While(E(Id("y")), If(E(Id("x")), Empty))}
                    outer == inner \cup {IfElse(E(Id("x")), s, t) : s \in inner, t \in inner}
                IN  outer \cup {If(E(Id("x")), s) : s \in outer}
                          \cup {Block(<<Scalar("x"), Array("a", 2)>>, <<s, t>>) :
                                  s \in inner, t \in leaves}
                          \cup {While(Compare(Id("x"), op, Num(0)), s) :
                                  s \in inner, op \in {"icmp_slt", "icmp_sle", "icmp_sgt", "icmp_eq"}}

Sources == {Around(Do(e)) : e \in UNION {Rows(f) : f \in Factors}}
           \cup {Around(ReturnOf(E(f))) : f \in Factors}
           \cup {Around(s) : s \in Conditionals}

\* One program with a token missing somewhere, cut off somewhere, or with
\* something behind it, and a file with a character no rule knows.
Small == Write(Program(<<Scalar("x"), Fun("void", "main", <<ByValue("a")>>,
                   Block(<<>>, <<If(E(Id("x")), ReturnOf(E(CallOf("f", <<E(Num(1))>>))))>>))>>))
Broken == {RemoveAt(Small, j) : j \in DOMAIN Small}
          \cup {SubSeq(Small, 1, j) : j \in 0..Len(Small)}
          \cup {Small \o <<Token("SEMICOLON")>>, Small \o <<Token("ERROR")>>}

Written == {Write(p) : p \in Sources} \cup {Small}
BrokenBatches == {<<b, Small>> : b \in Broken}
AllBatches == {<<text>> : text \in Written} \cup BrokenBatches

\* The parser rejects nothing that is a program of the language, with the
\* conditionals, lists and operators that conflict in the grammar, and
\* whether or not the file before it was rejected somewhere in its middle
\* (syntax_analyzer.y:595-608: a new tree, the counters and the scanner).
ProgramsAccepted ==
    \A f \in DOMAIN batch : verdicts[f] = "rejected" => batch[f] \notin Written

MCOpenings == {"opened", "no input", "no output"}
=============================================================================
