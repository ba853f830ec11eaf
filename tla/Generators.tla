----------------------------- MODULE Generators -----------------------------
(***************************************************************************)
(* The modules that the five programs of lab3-0 build by hand, one call of *)
(* the IRBuilder after the other, and the C programs they are to           *)
(* translate (lab3-0/README.md:111-127,149-185).                           *)
(***************************************************************************)
EXTENDS LLVM, CminusPrograms

\* The value of instruction j of block b.
Slot(b, j) == Value("inst", <<b, j>>, "i32*")
Result(b, j) == Value("inst", <<b, j>>, "i32")
Bit(b, j) == Value("inst", <<b, j>>, "i1")
Argument(f, p) == Value("arg", <<f, p>>, "i32")
NewSlot == Alloca("i32*")
Calculate(op, l, r) == Instr(op, <<l, r>>, "i32")
CallTo(f, args) == Instr("call", <<Value("fun", <<f>>, "fun*")>> \o args, "i32")

IntFunction(id, n) == Function(id, "i32", [p \in 1..n |-> "i32"])
Generated(fs, lay, bs) == [functions |-> fs, layout |-> lay, blocks |-> bs]

AssignGenerator ==
    Generated(<<IntFunction("main", 0)>>, <<<<1>>>>,
        << <<NewSlot, Store(Const(1), Slot(1, 1)), Load(Slot(1, 1)), Ret(Result(1, 3))>> >>)

IfGenerator ==
    Generated(<<IntFunction("main", 0)>>, <<<<1, 2, 3>>>>,
        << <<ICmp("icmp_sgt", Const(2), Const(1)), CondBr(Bit(1, 1), 2, 3)>>,
           <<Ret(Const(1))>>,
           <<Ret(Const(0))>> >>)

CallGenerator ==
    Generated(<<IntFunction("callee", 1), IntFunction("main", 0)>>, <<<<1>>, <<2>>>>,
        << <<Calculate("mul", Const(2), Argument(1, 1)), Ret(Result(1, 1))>>,
           <<CallTo(1, <<Const(10)>>), Ret(Result(2, 1))>> >>)

\* The loop reads a and i at its head; a is increased by the new i.
WhileGenerator ==
    Generated(<<IntFunction("main", 0)>>, <<<<1, 2, 3, 4>>>>,
        << <<NewSlot, NewSlot, Store(Const(10), Slot(1, 1)), Store(Const(0), Slot(1, 2)), Br(2)>>,
           <<Load(Slot(1, 2)), Load(Slot(1, 1)), ICmp("icmp_slt", Result(2, 1), Const(10)),
             CondBr(Bit(2, 3), 3, 4)>>,
           <<Calculate("add", Result(2, 1), Const(1)), Calculate("add", Result(3, 1), Result(2, 2)),
             Store(Result(3, 1), Slot(1, 2)), Store(Result(3, 2), Slot(1, 1)), Br(2)>>,
           <<Load(Slot(1, 1)), Ret(Result(4, 1))>> >>)

\* The slots of gcd are its result, u and v; those of main x, y and temp.
\* The product and the difference are nsw there (gcd_generator.cpp:70-71): with
\* the numbers of this program neither overflows, so they are plain ones here.
GcdGenerator ==
    Generated(<<IntFunction("gcd", 2), IntFunction("main", 0)>>, <<<<1, 2, 3, 4>>, <<5, 6, 7>>>>,
        << <<NewSlot, NewSlot, NewSlot, Store(Argument(1, 1), Slot(1, 2)),
             Store(Argument(1, 2), Slot(1, 3)), Load(Slot(1, 3)),
             ICmp("icmp_eq", Result(1, 6), Const(0)), CondBr(Bit(1, 7), 2, 3)>>,
           <<Load(Slot(1, 2)), Store(Result(2, 1), Slot(1, 1)), Br(4)>>,
           <<Load(Slot(1, 2)), Load(Slot(1, 3)), Calculate("sdiv", Result(3, 1), Result(3, 2)),
             Calculate("mul", Result(3, 3), Result(3, 2)), Calculate("sub", Result(3, 1), Result(3, 4)),
             CallTo(1, <<Result(3, 2), Result(3, 5)>>), Store(Result(3, 6), Slot(1, 1)), Br(4)>>,
           <<Load(Slot(1, 1)), Ret(Result(4, 1))>>,
           <<NewSlot, NewSlot, NewSlot, Store(Const(0), Slot(5, 3)), Store(Const(72), Slot(5, 1)),
             Store(Const(18), Slot(5, 2)), Load(Slot(5, 1)), Load(Slot(5, 2)),
             ICmp("icmp_slt", Result(5, 7), Result(5, 8)), CondBr(Bit(5, 9), 6, 7)>>,
           <<Store(Result(5, 7), Slot(5, 3)), Store(Result(5, 8), Slot(5, 1)), Load(Slot(5, 3)),
             Store(Result(6, 3), Slot(5, 2)), Br(7)>>,
           <<Load(Slot(5, 1)), Load(Slot(5, 2)), CallTo(1, <<Result(7, 1), Result(7, 2)>>), Ret(Result(7, 3))>> >>)

-----------------------------------------------------------------------------
(* The C programs.                                                         *)

IntMain(locals, statements) == Fun("int", "main", <<>>, Block(locals, statements))
Set(x, e) == Do(Assign(Id(x), e))

AssignC == Program(<<IntMain(<<Scalar("a")>>, <<Set("a", E(Num(1))), ReturnOf(E(Id("a")))>>)>>)

IfC == Program(<<IntMain(<<>>, <<If(Compare(Num(2), "icmp_sgt", Num(1)), ReturnOf(E(Num(1)))),
                               ReturnOf(E(Num(0)))>>)>>)

CallC == Program(<<Fun("int", "callee", <<ByValue("a")>>,
                       Block(<<>>, <<ReturnOf(Product(Num(2), "mul", Id("a")))>>)),
                   IntMain(<<>>, <<ReturnOf(E(CallOf("callee", <<E(Num(10))>>)))>>)>>)

WhileC ==
    Program(<<IntMain(<<Scalar("a"), Scalar("i")>>,
        <<Set("a", E(Num(10))), Set("i", E(Num(0))),
          While(Compare(Id("i"), "icmp_slt", Num(10)),
                Block(<<>>, <<Set("i", Sum(Id("i"), "add", Num(1))),
                              Set("a", Sum(Id("a"), "add", Id("i")))>>)),
          ReturnOf(E(Id("a")))>>)>>)

Remainder(u, v) ==
    Simple(Additive(Sum1(u), "sub", Term(Term(Factor(u), "sdiv", v), "mul", v)), "none", Null)

GcdFunction ==
    Fun("int", "gcd", <<ByValue("u"), ByValue("v")>>,
        Block(<<>>, <<IfElse(Compare(Id("v"), "icmp_eq", Num(0)), ReturnOf(E(Id("u"))),
                             ReturnOf(E(CallOf("gcd", <<E(Id("v")), Remainder(Id("u"), Id("v"))>>))))>>))

GcdC == Program(<<GcdFunction, IntMain(<<Scalar("x"), Scalar("y"), Scalar("temp")>>,
        <<Set("x", E(Num(72))), Set("y", E(Num(18))),
          If(Compare(Id("x"), "icmp_slt", Id("y")),
             Block(<<>>, <<Set("temp", E(Id("x"))), Set("x", E(Id("y"))), Set("y", E(Id("temp")))>>)),
          ReturnOf(E(CallOf("gcd", <<E(Id("x")), E(Id("y"))>>)))>>)>>)

HandTranslations == {<<AssignGenerator, AssignC>>, <<IfGenerator, IfC>>, <<CallGenerator, CallC>>,
                <<WhileGenerator, WhileC>>, <<GcdGenerator, GcdC>>}
=============================================================================
