------------------------- MODULE MCCompiledPrograms -------------------------
(***************************************************************************)
(* Programs to compile and run: the values 8 bits have, and all ways the   *)
(* parts of a program act on each other while it runs.                     *)
(***************************************************************************)
EXTENDS CompiledPrograms, Generators

Void(f, params, locals, statements) == Fun("void", f, params, Block(locals, statements))
Output(f) == DoCall("output", <<E(f)>>)
Read == CallOf("input", <<>>)
Nested(e) == e   \* an expression in parentheses is a factor
Minus(n) == Nested(Sum(Num(0), "sub", Num(n)))

-----------------------------------------------------------------------------
(* x counts down from what is read; the body of the loop is any of the     *)
(* statements of two levels.                                               *)

Body ==
    LET leaves == {Output(Id("x")), Set("x", Sum(Id("x"), "sub", Num(1))), ReturnVoid}
        above == Compare(Id("x"), "icmp_sgt", Num(1))
        first == {If(above, s) : s \in leaves} \cup {IfElse(above, s, t) : s \in leaves, t \in leaves}
        second == {Block(<<>>, <<s, t>>) : s \in leaves, t \in leaves}
        third == {IfElse(E(Id("x")), b, t) : b \in second, t \in leaves}
        loops == {While(above, Block(<<>>, <<s, Set("x", Sum(Id("x"), "sub", Num(1)))>>)) :
                    s \in leaves \cup first}
    IN  first \cup second \cup third \cup loops

LoopPrograms ==
    {Program(<<Scalar("x"), Void("main", <<>>, <<>>,
        <<Set("x", E(Read)),
          While(Compare(Id("x"), "icmp_sgt", Num(0)),
                Block(<<>>, <<s, Set("x", Sum(Id("x"), "sub", Num(1))), Output(Id("x"))>>)),
          Output(Num(7))>>)>>) : s \in Body}

-----------------------------------------------------------------------------
(* f prints its argument and returns it, so that the lines show in which   *)
(* order the parts of an expression are evaluated; set changes the global  *)
(* x while they are.                                                       *)

F(e) == CallOf("f", <<e>>)
SetX == CallOf("set", <<>>)

Parts == {Id("x"), F(E(Num(2))), F(E(Id("x"))), SetX, At("a", E(F(E(Num(1))))),
          Assign(Id("x"), E(F(E(Num(3)))))}
Pairs == {Sum(l, "sub", r) : l \in Parts, r \in Parts}
         \cup {Product(l, "mul", Nested(Sum(l, "add", r))) : l \in {Id("x"), SetX}, r \in Parts}
Stores == {Assign(At("a", E(l)), E(r)) : l \in {Id("x"), F(E(Num(1))), Assign(Id("x"), E(Num(0)))},
                                         r \in Parts}
          \cup {Assign(Id("x"), Assign(At("a", E(Id("x"))), e)) : e \in Pairs}
Ordered ==
    {Output(e) : e \in Pairs} \cup {Do(e) : e \in Stores}
    \cup {DoCall("output", <<E(CallOf("g", <<E(l), E(r)>>))>>) : l \in Parts, r \in Parts}
    \cup {If(Compare(l, op, r), Output(Num(8))) : l \in {Id("x"), SetX}, r \in Parts,
            op \in {"icmp_slt", "icmp_sle", "icmp_sgt", "icmp_sge", "icmp_eq", "icmp_ne"}}

OrderPrograms ==
    {Program(<<Scalar("x"), Array("a", 4),
        Fun("int", "f", <<ByValue("n")>>, Block(<<>>, <<Output(Id("n")), ReturnOf(E(Id("n")))>>)),
        Fun("int", "set", <<>>, Block(<<>>, <<Set("x", Sum(Id("x"), "add", Num(1))), ReturnOf(E(Num(1)))>>)),
        Fun("int", "g", <<ByValue("m"), ByValue("n")>>,
            Block(<<>>, <<Output(Id("m")), ReturnOf(Sum(Id("m"), "sub", Id("n")))>>)),
        Void("main", <<>>, <<>>, <<s, Output(Id("x")), Output(At("a", E(Num(0)))), Output(At("a", E(Num(1))))>>)>>) :
        s \in Ordered}

-----------------------------------------------------------------------------
(* Arrays: a of the module, v of a function, b received, by all the ways   *)
(* an index that may be negative is used; i is what is read.               *)

ArrayUses(i) ==
    LET write(x) == Do(Assign(At(x, i), E(Num(5))))
    IN  UNION {{write(x), Output(At(x, i)), DoCall("add", <<E(Id(x)), i>>)} : x \in {"a", "b", "v"}}

ArrayPrograms ==
    {Program(<<Array("a", 3),
        Void("add", <<ByReference("c"), ByValue("n")>>, <<>>,
             <<Do(Assign(At("c", E(Id("n"))), Sum(At("c", E(Num(0))), "add", Id("n")))),
               If(Compare(Id("n"), "icmp_sgt", Num(0)),
                  DoCall("add", <<E(Id("c")), Sum(Id("n"), "sub", Num(1))>>))>>),
        Void("use", <<ByReference("b"), ByValue("i")>>, <<Array("v", 3)>>,
             <<Do(Assign(At("v", E(Num(0))), E(Num(3)))), Do(Assign(At("v", E(Num(2))), E(Num(4)))),
               s, t, Output(At("b", E(Num(0)))), Output(At("v", E(Num(0))))>>),
        Void("main", <<>>, <<>>,
             <<DoCall("use", <<E(Id("a")), Sum(Read, "sub", Num(1))>>), Output(At("a", E(Num(0))))>>)>>) :
        s \in ArrayUses(E(Id("i"))), t \in {Empty, Output(At("a", E(Minus(1)))), Do(E(At("b", E(Id("i")))))}}

-----------------------------------------------------------------------------
(* Numbers at the ends of the range, in sums, products and quotients.      *)

Bounds == {Num(127), Minus(127), Nested(Sum(Minus(127), "sub", Num(1))), Num(2), Minus(2), Minus(1)}
NumberPrograms ==
    {Program(<<Scalar("x"), Void("main", <<>>, <<>>,
        <<Do(Assign(Id("x"), E(l))), Output(e)>>)>>) :
        l \in Bounds,
        e \in {Sum(Id("x"), op, Num(1)) : op \in {"add", "sub"}}
              \cup {Product(Id("x"), op, r) : op \in {"mul", "sdiv"}, r \in Bounds}}

\* Local arrays and scalars declared where a loop passes many times, and
\* calls of a function inside itself.
OtherPrograms ==
    {Program(<<Void("main", <<>>, <<Scalar("i")>>,
        <<Set("i", E(Num(0))),
          While(Compare(Id("i"), "icmp_slt", Read),
                Block(<<Scalar("k"), Array("w", 2)>>,
                      <<Set("k", Sum(Id("i"), "add", Num(1))),
                        Do(Assign(At("w", E(Num(1))), E(Id("k")))),
                        Set("i", E(At("w", E(Num(1))))), Output(Id("k"))>>)),
          Output(Id("i"))>>)>>),
     Program(<<GcdFunction, Void("main", <<>>, <<>>,
        <<Output(CallOf("gcd", <<E(Num(21)), Sum(Read, "add", Num(12))>>))>>)>>)}

MCPrograms == LoopPrograms \cup OrderPrograms \cup ArrayPrograms \cup NumberPrograms \cup OtherPrograms
MCInputs == {<<0, 0, 0>>, <<2, 1, 0>>, <<3, 3, 0>>}
MCHandWritten == {pair[1] : pair \in HandTranslations}
=============================================================================
