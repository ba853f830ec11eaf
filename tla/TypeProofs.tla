----------------------------- MODULE TypeProofs -----------------------------
(***************************************************************************)
(* Proof that every operand of the code CminusBuilder writes has the type  *)
(* its instruction asks for, for every set of programs that keep TypeRules *)
(* and whose names are letters: TypesInv is inductive together with        *)
(* BuilderInv, PlacementInv, NamesInv and ElementInv.                      *)
(***************************************************************************)
EXTENDS DominanceProofs, TypedCode

-----------------------------------------------------------------------------
(* Instructions that have the operands they ask for.                       *)

TypesOf(list) == [j \in DOMAIN list |-> list[j].ty]

LEMMA ShortTypes ==
    /\ TypesOf(<<>>) = <<>>
    /\ \A x : TypesOf(<<x>>) = <<x.ty>>
    /\ \A x, y : TypesOf(<<x, y>>) = <<x.ty, y.ty>>
    /\ \A x, y, z : TypesOf(<<x, y, z>>) = <<x.ty, y.ty, z.ty>>
  BY DEF TypesOf

\* The operations that the rules tell apart.
LEMMA OperationsApart ==
    /\ "alloca" \notin Operands32 /\ "load" \notin Operands32 /\ "store" \notin Operands32
    /\ "gep" \notin Operands32 /\ "call" \notin Operands32 /\ "br" \notin Operands32
    /\ "ret" \notin Operands32
    /\ Operands32 \subseteq Opcodes
    /\ {"alloca", "load", "store", "gep", "call", "br", "ret"} \subseteq Opcodes
  BY DEF Operands32, Opcodes

\* The rules, one by one.
LEMMA TypedBy ==
    ASSUME NEW ins, NEW f, NEW types, types = TypesOf(ins.args)
    PROVE  /\ ins.op \in Operands32 /\ types = <<"i32", "i32">> => WellTyped(ins, f)
           /\ ins.op = "alloca" /\ Range(types) \subseteq {"i32"} => WellTyped(ins, f)
           /\ ins.op = "load" /\ types \in {<<"i32*">>, <<"i32**">>} => WellTyped(ins, f)
           /\ ins.op = "store" /\ types \in {<<"i32", "i32*">>, <<"i32*", "i32**">>} =>
                 WellTyped(ins, f)
           /\ ins.op = "gep" /\ types \in {<<"arr*", "i32", "i32">>, <<"i32*", "i32">>} =>
                 WellTyped(ins, f)
           /\ ins.op = "call" /\ ins.args[1].k = "fun"
                 /\ Tail(types) = functions[ins.args[1].ref[1]].params => WellTyped(ins, f)
           /\ ins.op = "br" /\ types \in {<<>>, <<"i1">>} /\ Len(ins.to) = Len(types) + 1 =>
                 WellTyped(ins, f)
           /\ ins.op = "ret" /\ types = (IF functions[f].ty = "void" THEN <<>>
                                         ELSE <<functions[f].ty>>) => WellTyped(ins, f)
<1>1. /\ "alloca" \notin Operands32 /\ "load" \notin Operands32 /\ "store" \notin Operands32
      /\ "gep" \notin Operands32 /\ "call" \notin Operands32 /\ "br" \notin Operands32
      /\ "ret" \notin Operands32
  BY OperationsApart
<1>2. CASE ins.op \in Operands32
  BY <1>1, <1>2 DEF WellTyped, TypesOf
<1>3. CASE ins.op = "alloca"
  BY <1>1, <1>3 DEF WellTyped, TypesOf
<1>4. CASE ins.op = "load"
  BY <1>1, <1>4 DEF WellTyped, TypesOf
<1>5. CASE ins.op = "store"
  BY <1>1, <1>5 DEF WellTyped, TypesOf
<1>6. CASE ins.op = "gep"
  BY <1>1, <1>6 DEF WellTyped, TypesOf
<1>7. CASE ins.op = "call"
  BY <1>1, <1>7 DEF WellTyped, TypesOf
<1>8. CASE ins.op = "br"
  BY <1>1, <1>8 DEF WellTyped, TypesOf
<1>9. CASE ins.op = "ret"
  BY <1>1, <1>9 DEF WellTyped, TypesOf
<1>10. QED
  BY <1>2, <1>3, <1>4, <1>5, <1>6, <1>7, <1>8, <1>9

\* What the IRBuilder is asked for fits, if the values it is given do.
LEMMA ComputedFits ==
    ASSUME NEW f
    PROVE  /\ \A op \in Operands32 : \A l, r :
                 l.ty = "i32" /\ r.ty = "i32" =>
                    /\ Fitting(ICmp(op, l, r), f)
                    /\ \A ty : Fitting(Instr(op, <<l, r>>, ty), f)
           /\ \A p : p.ty \in {"i32*", "i32**"} => Fitting(Load(p), f)
           /\ \A p, i : p.ty \in {"arr*", "i32*"} /\ i.ty = "i32" =>
                 Fitting(Element(p, i), f)
<1>1. /\ "load" \notin Operands32 /\ "gep" \notin Operands32 /\ "call" \notin Operands32
  BY OperationsApart
<1>2. ASSUME NEW op \in Operands32, NEW l, NEW r, l.ty = "i32", r.ty = "i32", NEW ty
      PROVE  Fitting(Instr(op, <<l, r>>, ty), f)
  <2>1. PICK x : x = Instr(op, <<l, r>>, ty)
    OBVIOUS
  <2>2. x.op = op /\ x.args = <<l, r>>
    BY <2>1 DEF Instr
  <2>3. TypesOf(x.args) = <<"i32", "i32">>
    BY <2>2, <1>2, ShortTypes
  <2>4. QED
    BY <2>1, <2>2, <2>3, <1>1, TypedBy, OperationsApart DEF Fitting
<1>3. ASSUME NEW p, p.ty \in {"i32*", "i32**"} PROVE Fitting(Load(p), f)
  <2>1. PICK x : x = Load(p)
    OBVIOUS
  <2>2. x.op = "load" /\ x.args = <<p>>
    BY <2>1 DEF Load, Instr
  <2>3. TypesOf(x.args) \in {<<"i32*">>, <<"i32**">>}
    BY <2>2, <1>3, ShortTypes
  <2>4. QED
    BY <2>1, <2>2, <2>3, TypedBy, OperationsApart DEF Fitting
<1>4. ASSUME NEW p, NEW i, p.ty \in {"arr*", "i32*"}, i.ty = "i32" PROVE Fitting(Element(p, i), f)
  <2>1. PICK x : x = Element(p, i)
    OBVIOUS
  <2>2. x.op = "gep" /\ x.args = IF p.ty = "arr*" THEN <<p, Const(0), i>> ELSE <<p, i>>
    BY <2>1 DEF Element, Instr
  <2>3. Const(0).ty = "i32"
    BY DEF Const, Value
  <2>4. TypesOf(x.args) \in {<<"arr*", "i32", "i32">>, <<"i32*", "i32">>}
    BY <2>2, <2>3, <1>4, ShortTypes
  <2>5. QED
    BY <2>1, <2>2, <2>4, TypedBy, OperationsApart DEF Fitting
<1>5. \A op, l, r : ICmp(op, l, r) = Instr(op, <<l, r>>, "i1")
  BY DEF ICmp
<1>6. QED
  BY <1>2, <1>3, <1>4, <1>5

LEMMA PlacedFits ==
    ASSUME NEW f
    PROVE  /\ \A b : Fitting(Br(b), f)
           /\ \A c, t, e : c.ty = "i1" => Fitting(CondBr(c, t, e), f)
           /\ \A v : functions[f].ty # "void" /\ v.ty = functions[f].ty => Fitting(Ret(v), f)
           /\ functions[f].ty = "void" => Fitting(RetVoid, f)
           /\ \A ty : Fitting(Alloca(ty), f)
           /\ \A n : Fitting(AllocaArray(n), f)
           /\ \A v, p : (v.ty = "i32" /\ p.ty = "i32*") \/ (v.ty = "i32*" /\ p.ty = "i32**") =>
                 Fitting(Store(v, p), f)
<1>1. ASSUME NEW b PROVE Fitting(Br(b), f)
  <2>1. PICK x : x = Br(b)
    OBVIOUS
  <2>2. x.op = "br" /\ x.args = <<>> /\ x.to = <<b>>
    BY <2>1 DEF Br, Branching
  <2>3. TypesOf(x.args) = <<>> /\ Len(x.to) = Len(<<>>) + 1
    BY <2>2, ShortTypes
  <2>4. QED
    BY <2>1, <2>2, <2>3, TypedBy, OperationsApart DEF Fitting
<1>2. ASSUME NEW c, NEW t, NEW e, c.ty = "i1" PROVE Fitting(CondBr(c, t, e), f)
  <2>1. PICK x : x = CondBr(c, t, e)
    OBVIOUS
  <2>2. x.op = "br" /\ x.args = <<c>> /\ x.to = <<t, e>>
    BY <2>1 DEF CondBr, Branching
  <2>3. TypesOf(x.args) = <<"i1">> /\ Len(x.to) = Len(<<"i1">>) + 1
    BY <2>2, <1>2, ShortTypes
  <2>4. QED
    BY <2>1, <2>2, <2>3, TypedBy, OperationsApart DEF Fitting
<1>3. ASSUME NEW v, functions[f].ty # "void", v.ty = functions[f].ty PROVE Fitting(Ret(v), f)
  <2>1. PICK x : x = Ret(v)
    OBVIOUS
  <2>2. x.op = "ret" /\ x.args = <<v>>
    BY <2>1 DEF Ret, Branching
  <2>3. TypesOf(x.args) = <<functions[f].ty>>
    BY <2>2, <1>3, ShortTypes
  <2>4. QED
    BY <2>1, <2>2, <2>3, <1>3, TypedBy, OperationsApart DEF Fitting
<1>4. ASSUME functions[f].ty = "void" PROVE Fitting(RetVoid, f)
  <2>1. PICK x : x = RetVoid
    OBVIOUS
  <2>2. x.op = "ret" /\ x.args = <<>>
    BY <2>1 DEF RetVoid, Branching
  <2>3. TypesOf(x.args) = <<>>
    BY <2>2, ShortTypes
  <2>4. QED
    BY <2>1, <2>2, <2>3, <1>4, TypedBy, OperationsApart DEF Fitting
<1>5. ASSUME NEW ty PROVE Fitting(Alloca(ty), f)
  <2>1. PICK x : x = Alloca(ty)
    OBVIOUS
  <2>2. x.op = "alloca" /\ x.args = <<>>
    BY <2>1 DEF Alloca, Instr
  <2>3. Range(TypesOf(x.args)) \subseteq {"i32"}
    BY <2>2, ShortTypes, ShortSeqs
  <2>4. QED
    BY <2>1, <2>2, <2>3, TypedBy, OperationsApart DEF Fitting
<1>6. ASSUME NEW n PROVE Fitting(AllocaArray(n), f)
  <2>1. PICK x : x = AllocaArray(n)
    OBVIOUS
  <2>2. x.op = "alloca" /\ x.args = <<Const(n)>> /\ Const(n).ty = "i32"
    BY <2>1 DEF AllocaArray, Instr, Const, Value
  <2>3. Range(TypesOf(x.args)) \subseteq {"i32"}
    BY <2>2, ShortTypes, ShortSeqs
  <2>4. QED
    BY <2>1, <2>2, <2>3, TypedBy, OperationsApart DEF Fitting
<1>7. ASSUME NEW v, NEW p, (v.ty = "i32" /\ p.ty = "i32*") \/ (v.ty = "i32*" /\ p.ty = "i32**")
      PROVE  Fitting(Store(v, p), f)
  <2>1. PICK x : x = Store(v, p)
    OBVIOUS
  <2>2. x.op = "store" /\ x.args = <<v, p>>
    BY <2>1 DEF Store, Instr
  <2>3. TypesOf(x.args) \in {<<"i32", "i32*">>, <<"i32*", "i32**">>}
    BY <2>2, <1>7, ShortTypes
  <2>4. QED
    BY <2>1, <2>2, <2>3, TypedBy, OperationsApart DEF Fitting
<1>8. QED
  BY <1>1, <1>2, <1>3, <1>4, <1>5, <1>6, <1>7

\* A call of a function with values of its parameters' types.
LEMMA CallFits ==
    ASSUME NEW f, NEW c, c.k = "fun", c.ref[1] \in DOMAIN functions,
           NEW args, IsSeq(args), IsSeq(functions[c.ref[1]].params),
           Len(args) = Len(functions[c.ref[1]].params),
           \A j \in 1..Len(args) : args[j].ty = functions[c.ref[1]].params[j]
    PROVE  Fitting(Call(c, args), f)
<1>1. PICK x, params, list : /\ x = Call(c, args) /\ params = functions[c.ref[1]].params
                             /\ list = <<c>> \o args
  OBVIOUS
<1>2. x.op = "call" /\ x.args = list
  BY <1>1 DEF Call, Instr
<1>3. /\ IsSeq(list) /\ Len(list) = 1 + Len(args) /\ Len(args) \in Nat
      /\ list[1] = c /\ \A j \in 1..Len(args) : list[1 + j] = args[j]
  <2>1. IsSeq(<<c>>) /\ Len(<<c>>) = 1 /\ <<c>>[1] = c
    BY ShortSeqs
  <2>2. QED
    BY <2>1, <1>1, ConcatFacts, SeqFacts
<1>4. PICK types : types = TypesOf(list)
  OBVIOUS
<1>5. types \in Seq(Range(types)) /\ Len(types) = 1 + Len(args)
      /\ \A j \in 1..Len(args) : types[1 + j] = params[j]
  <2>1. DOMAIN list = 1..1 + Len(args)
    BY <1>3, SeqFacts
  <2>2. types = [j \in 1..1 + Len(args) |-> list[j].ty]
    BY <1>4, <2>1 DEF TypesOf
  <2>3. PICK n \in Nat : n = Len(args)
    BY <1>3
  <2>4. 1 + n \in Nat /\ types = [j \in 1..1 + n |-> types[j]] /\ DOMAIN types = 1..1 + n
    BY <2>2, <2>3
  <2>5. IsSeq(types) /\ Len(types) = 1 + n
    BY <2>4, FunctionIsSeq
  <2>6. ASSUME NEW j \in 1..n PROVE types[1 + j] = params[j]
    <3>1. 1 + j \in 1..1 + n
      BY <2>3
    <3>2. types[1 + j] = list[1 + j].ty /\ list[1 + j] = args[j] /\ j \in 1..Len(args)
      BY <3>1, <2>2, <2>3, <1>3
    <3>3. QED
      BY <3>2, <1>1
  <2>7. QED
    BY <2>3, <2>5, <2>6 DEF IsSeq
<1>6. Tail(types) = params
  <2>1. IsSeq(types) /\ types # <<>>
    BY <1>3, <1>5 DEF IsSeq
  <2>2. PICK rest : rest = Tail(types)
    OBVIOUS
  <2>3. /\ IsSeq(rest) /\ Len(rest) = Len(args)
        /\ \A j \in 1..Len(args) : rest[j] = types[j + 1]
    BY <2>1, <2>2, <1>3, <1>5, TailFacts
  <2>4. IsSeq(params) /\ Len(params) = Len(args)
    BY <1>1
  <2>5. \A j \in 1..Len(args) : rest[j] = params[j]
    BY <2>3, <1>3, <1>5
  <2>6. PICK S : S = Range(rest) \cup Range(params)
    OBVIOUS
  <2>7. rest \in Seq(S) /\ params \in Seq(S)
    BY <2>3, <2>4, <2>6 DEF IsSeq
  <2>8. QED
    BY <2>2, <2>3, <2>4, <2>5, <2>7, <1>3
<1>7. QED
  BY <1>1, <1>2, <1>3, <1>4, <1>6, TypedBy, OperationsApart DEF Fitting

-----------------------------------------------------------------------------
(* What fits keeps fitting.                                                *)

AllFit(ins, f) == \A j \in DOMAIN ins : Fitting(ins[j], f)

\* Functions are added, and keep their types.
LEMMA FittingKept ==
    ASSUME NEW ins, NEW f \in DOMAIN functions, Fitting(ins, f),
           \A g \in DOMAIN functions : g \in DOMAIN functions' /\ functions'[g] = functions[g]
    PROVE  Fitting(ins, f)'
<1>1. functions'[f] = functions[f]
  OBVIOUS
<1>2. CASE ins.op = "call"
  <2>1. ins.op \notin Operands32
    BY <1>2 DEF Operands32
  <2>2. /\ ins.args[1].ref[1] \in DOMAIN functions'
        /\ functions'[ins.args[1].ref[1]] = functions[ins.args[1].ref[1]]
    BY <1>2 DEF Fitting
  <2>3. WellTyped(ins, f)
    BY DEF Fitting
  <2>4. WellTyped(ins, f)'
    BY <1>2, <2>1, <2>2, <2>3 DEF WellTyped
  <2>5. QED
    BY <2>2, <2>4 DEF Fitting
<1>3. CASE ins.op # "call"
  <2>1. WellTyped(ins, f)
    BY DEF Fitting
  <2>2. WellTyped(ins, f)'
    <3>1. CASE ins.op \in Operands32
      BY <3>1, <2>1, OperationsApart DEF WellTyped
    <3>2. CASE ins.op = "ret"
      BY <3>2, <2>1, <1>1, OperationsApart DEF WellTyped
    <3>3. CASE ins.op = "alloca"
      BY <3>3, <2>1, OperationsApart DEF WellTyped
    <3>4. CASE ins.op = "load"
      BY <3>4, <2>1, OperationsApart DEF WellTyped
    <3>5. CASE ins.op = "store"
      BY <3>5, <2>1, OperationsApart DEF WellTyped
    <3>6. CASE ins.op = "gep"
      BY <3>6, <2>1, OperationsApart DEF WellTyped
    <3>7. CASE ins.op = "br"
      BY <3>7, <2>1, OperationsApart DEF WellTyped
    <3>8. ins.op \in Operands32 \cup {"ret", "alloca", "load", "store", "gep", "br"}
      BY <1>3 DEF Fitting, Opcodes
    <3>9. QED
      BY <3>1, <3>2, <3>3, <3>4, <3>5, <3>6, <3>7, <3>8
  <2>3. QED
    BY <2>2, <1>3 DEF Fitting
<1>4. QED
  BY <1>2, <1>3

LEMMA FitsOn == ASSUME UNCHANGED functions, NEW ins, NEW f, Fitting(ins, f) PROVE Fitting(ins, f)'
  BY DEF Fitting, WellTyped

\* The instructions a step appends, and those of the blocks it creates.
LEMMA WrittenFits ==
    ASSUME BuilderInv, BuilderInv', InFunction, WaitingEmpty, CodeFitting, UNCHANGED functions,
           currentFunction' \in {0, currentFunction}, NEW F, F = currentFunction,
           NEW k, NEW ins, NEW placed, Written(k, ins, placed),
           Range(placed) \subseteq Pending \cup Created, AllFit(ins, F),
           \A b \in Created : AllFit(blocks'[b], F)
    PROVE  CodeFitting'
<1>1. /\ DOMAIN layout' = DOMAIN layout
      /\ Pending \subseteq DOMAIN blocks
      /\ \A x \in DOMAIN blocks : blocks'[x] = blocks[x] \/ x = ip
      /\ \A f \in DOMAIN layout :
            /\ Inserted(f) \subseteq DOMAIN blocks
            /\ Inserted(f)' \subseteq Inserted(f) \cup Range(placed)
            /\ f # currentFunction => \A x \in Inserted(f) : blocks'[x] = blocks[x]
      /\ ip \notin Pending
  BY InsertedGrows
<1>2. /\ IsSeq(ins) /\ blocks'[ip] = blocks[ip] \o ins
      /\ \A f \in DOMAIN layout : f # Len(layout) => layout'[f] = layout[f]
  BY DEF Written, OnlyAtEnd
<1>3. IsSeq(blocks[ip]) /\ F = Len(layout)
  BY CodeFacts
<1>4. PICK q, n : q = ip /\ n = Len(blocks[ip])
  OBVIOUS
<1>5. /\ n \in Nat /\ Len(ins) \in Nat /\ DOMAIN ins = 1..Len(ins) /\ DOMAIN blocks[q] = 1..n
      /\ DOMAIN blocks'[q] = 1..n + Len(ins)
      /\ \A i \in 1..n : blocks'[q][i] = blocks[q][i]
      /\ \A i \in 1..Len(ins) : blocks'[q][n + i] = ins[i]
  <2>0. IsSeq(blocks[q]) /\ IsSeq(ins) /\ blocks'[q] = blocks[q] \o ins
    BY <1>2, <1>3, <1>4
  <2>1. /\ IsSeq(blocks'[q]) /\ Len(blocks'[q]) = n + Len(ins)
        /\ \A i \in 1..n : blocks'[q][i] = blocks[q][i]
        /\ \A i \in 1..Len(ins) : blocks'[q][n + i] = ins[i]
    BY <2>0, <1>4, ConcatFacts
  <2>2. QED
    BY <2>1, <1>2, <1>3, <1>4, SeqFacts
<1>6. ASSUME NEW f \in DOMAIN layout', NEW p \in InstructionsOf(f)' PROVE Fitting(InstrAt(p), f)'
  <2>1. PICK x : x = InstrAt(p)'
    OBVIOUS
  <2>2. /\ f \in DOMAIN layout /\ p[1] \in Inserted(f)' /\ p[2] \in DOMAIN blocks'[p[1]]
        /\ p = <<p[1], p[2]>> /\ x = blocks'[p[1]][p[2]]
    BY <1>1, <2>1, InstructionsThen DEF InstrAt
  <2>3. ASSUME p \in InstructionsOf(f), blocks[p[1]][p[2]] = x PROVE Fitting(x, f)
    BY <2>2, <2>3 DEF CodeFitting, InstrAt
  <2>4. Fitting(x, f)
    <3>1. CASE p[1] \in Inserted(f) /\ blocks'[p[1]] = blocks[p[1]]
      <4>1. p \in InstructionsOf(f)
        BY <2>2, <3>1, InstructionsFacts
      <4>2. QED
        BY <2>2, <2>3, <3>1, <4>1
    <3>2. CASE p[1] \in Inserted(f) /\ blocks'[p[1]] # blocks[p[1]]
      <4>1. p[1] = q /\ f = F
        BY <2>2, <3>2, <1>1, <1>4
      <4>2. CASE p[2] \in 1..n
        <5>1. p \in InstructionsOf(f)
          BY <2>2, <3>2, <4>1, <4>2, <1>5, InstructionsFacts
        <5>2. QED
          BY <2>2, <2>3, <4>1, <4>2, <5>1, <1>5
      <4>3. CASE p[2] \notin 1..n
        <5>1. PICK i : i = p[2] - n
          OBVIOUS
        <5>2. i \in 1..Len(ins) /\ p[2] = n + i
          BY <2>2, <4>1, <4>3, <5>1, <1>5
        <5>3. x = ins[i] /\ i \in DOMAIN ins
          BY <2>2, <4>1, <5>2, <1>5
        <5>4. QED
          BY <4>1, <5>3 DEF AllFit
      <4>4. QED
        BY <4>2, <4>3
    <3>3. CASE p[1] \notin Inserted(f)
      <4>1. p[1] \in Range(placed)
        BY <2>2, <3>3, <1>1
      <4>2. f = F
        BY <2>2, <3>3, <1>2, <1>3 DEF Inserted
      <4>3. blocks'[p[1]] # <<>>
        BY <2>2, ShortSeqs, SeqFacts
      <4>4. p[1] \notin Pending
        BY <4>3, <1>1 DEF WaitingEmpty
      <4>5. p[1] \in Created
        BY <4>1, <4>4
      <4>6. QED
        BY <4>2, <4>5, <2>2 DEF AllFit
    <3>4. QED
      BY <3>1, <3>2, <3>3
  <2>5. Fitting(x, f)'
    BY <2>4, FitsOn
  <2>6. QED
    BY <2>1, <2>5
<1>7. QED
  BY <1>6 DEF CodeFitting

\* A step that appends what fits, and fills no new block.
LEMMA ProceedsFits ==
    ASSUME BuilderInv, BuilderInv', Proceeds, WaitingEmpty, CodeFitting, UNCHANGED functions,
           currentFunction' \in {0, currentFunction},
           NEW ins, IsSeq(ins), blocks'[ip] = blocks[ip] \o ins, AllFit(ins, currentFunction)
    PROVE  CodeFitting'
<1>1. PICK rest, k, list, placed :
          /\ InFunction /\ work # <<>> /\ Written(k, list, placed)
          /\ Range(placed) \cup Range(rest.todo) = Range(Top.todo) \cup Created
          /\ \A b \in Created : blocks'[b] = <<>>
  BY DEF Proceeds
<1>2. Range(placed) \subseteq Pending \cup Created
  <2>1. Range(Top.todo) \subseteq Pending
    BY <1>1, TodoHeld
  <2>2. QED
    BY <2>1, <1>1
<1>3. list = ins
  <2>1. IsSeq(list) /\ blocks'[ip] = blocks[ip] \o list
    BY <1>1 DEF Written
  <2>2. IsSeq(blocks[ip])
    BY <1>1, CodeFacts
  <2>3. PICK s : s = blocks[ip]
    OBVIOUS
  <2>4. IsSeq(s) /\ s \o list = s \o ins
    BY <2>1, <2>2, <2>3
  <2>5. QED
    BY <2>1, <2>4, SameAppended
<1>4. PICK F : F = currentFunction
  OBVIOUS
<1>5. \A b \in Created : AllFit(blocks'[b], F)
  BY <1>1, ShortSeqs, SeqFacts DEF AllFit
<1>6. Written(k, ins, placed) /\ AllFit(ins, F)
  BY <1>1, <1>3, <1>4
<1>7. QED
  BY <1>1, <1>2, <1>4, <1>5, <1>6, WrittenFits

\* Lists of instructions.
LEMMA AllFitShort ==
    ASSUME NEW f
    PROVE  AllFit(<<>>, f) /\ \A x : Fitting(x, f) => AllFit(<<x>>, f)
<1>1. DOMAIN <<>> = {} /\ \A x : DOMAIN <<x>> = {1} /\ <<x>>[1] = x
  OBVIOUS
<1>2. QED
  BY <1>1 DEF AllFit

LEMMA AllFitAppend ==
    ASSUME NEW s, IsSeq(s), NEW f, AllFit(s, f), NEW x, Fitting(x, f)
    PROVE  AllFit(Append(s, x), f) /\ IsSeq(Append(s, x)) /\ Len(Append(s, x)) = Len(s) + 1
<1>1. PICK u, n : u = Append(s, x) /\ n = Len(s)
  OBVIOUS
<1>2. /\ IsSeq(u) /\ Len(u) = n + 1 /\ u[n + 1] = x /\ n \in Nat
      /\ \A i \in 1..n : u[i] = s[i]
  BY <1>1, AppendFacts, SeqFacts
<1>3. DOMAIN u = 1..n + 1 /\ DOMAIN s = 1..n
  BY <1>1, <1>2, SeqFacts
<1>4. ASSUME NEW j \in DOMAIN u PROVE Fitting(u[j], f)
  <2>1. CASE j \in 1..n
    BY <2>1, <1>2, <1>3 DEF AllFit
  <2>2. CASE j \notin 1..n
    <3>1. j = n + 1
      BY <2>2, <1>2, <1>3
    <3>2. QED
      BY <3>1, <1>2
  <2>3. QED
    BY <2>1, <2>2
<1>5. QED
  BY <1>1, <1>2, <1>4 DEF AllFit

\* What calling currentExpression() builds, and the type of what it answers.
LEMMA ForcedTyped ==
    ASSUME Answers(currentExpression), NEW f
    PROVE  /\ IsSeq(Forced.ins) /\ AllFit(Forced.ins, f)
           /\ Forced.val.ty = currentExpression.ty
<1>1. CASE currentExpression.op = "value"
  <2>1. Forced.ins = <<>> /\ Forced.val = currentExpression.args[1]
    BY <1>1 DEF Forced
  <2>2. QED
    BY <1>1, <2>1, AllFitShort, ShortSeqs DEF Answers
<1>2. CASE currentExpression.op # "value"
  <2> DEFINE s == <<currentExpression>>
  <2>1. Forced.ins = s /\ Forced.val = Here(s)
    BY <1>2 DEF Forced
  <2>2. /\ currentExpression.op \in {"load", "add", "sub", "mul", "sdiv"}
        /\ WellTyped(currentExpression, currentFunction)
    BY <1>2 DEF Answers
  <2>3. Fitting(currentExpression, f)
    <3>1. WellTyped(currentExpression, f)
      <4>1. CASE currentExpression.op = "load"
        <5>1. "load" \notin Operands32
          BY DEF Operands32
        <5>2. QED
          BY <5>1, <4>1, <2>2 DEF WellTyped
      <4>2. CASE currentExpression.op # "load"
        <5>1. currentExpression.op \in Operands32
          BY <2>2, <4>2 DEF Operands32
        <5>2. QED
          BY <5>1, <2>2, OperationsApart DEF WellTyped
      <4>3. QED
        BY <4>1, <4>2
    <3>2. QED
      BY <3>1, <2>2 DEF Fitting, Opcodes, Operands32
  <2>4. Last(s) = currentExpression /\ IsSeq(s)
    BY ShortSeqs DEF Last
  <2>5. AllFit(s, f)
    BY <2>3, AllFitShort
  <2> HIDE DEF s
  <2>6. Here(s).ty = currentExpression.ty
    BY <2>4 DEF Here, Value
  <2>7. QED
    BY <2>1, <2>4, <2>5, <2>6
<1>3. QED
  BY <1>1, <1>2

\* The value of what is appended last.
LEMMA HereTyped == ASSUME NEW s, IsSeq(s), NEW x PROVE Here(Append(s, x)).ty = x.ty
<1>1. Append(s, x) = s \o <<x>> /\ IsSeq(<<x>>) /\ <<x>> # <<>> /\ Last(<<x>>) = x
  BY AppendConcat, ShortSeqs DEF Last
<1>2. Last(Append(s, x)) = x
  BY <1>1, LastFacts
<1>3. QED
  BY <1>2 DEF Here, Value

\* The branches that statements end their blocks with.
LEMMA BranchesFit ==
    ASSUME NEW f
    PROVE  /\ \A b : IsSeq(JoinAt(b)) /\ AllFit(JoinAt(b), f)
           /\ \A b : IsSeq(<<Br(b)>>) /\ AllFit(<<Br(b)>>, f)
           /\ Answers(currentExpression) /\ currentExpression.ty \in {"i32", "i1"} =>
                 \A t, e : IsSeq(BranchOn(t, e)) /\ AllFit(BranchOn(t, e), f)
<1>1. \A b : IsSeq(<<Br(b)>>) /\ AllFit(<<Br(b)>>, f)
  BY PlacedFits, AllFitShort, ShortSeqs
<1>2. \A b : IsSeq(JoinAt(b)) /\ AllFit(JoinAt(b), f)
  BY <1>1, AllFitShort, ShortSeqs DEF JoinAt
<1>3. ASSUME Answers(currentExpression), currentExpression.ty \in {"i32", "i1"}, NEW t, NEW e
      PROVE  IsSeq(BranchOn(t, e)) /\ AllFit(BranchOn(t, e), f)
  <2>1. /\ IsSeq(Forced.ins) /\ AllFit(Forced.ins, f)
        /\ Forced.val.ty = currentExpression.ty
    BY <1>3, ForcedTyped
  <2>2. CASE Forced.val.ty = "i1"
    <3>1. BranchOn(t, e) = Append(Forced.ins, CondBr(Forced.val, t, e))
      BY <2>2 DEF BranchOn
    <3>2. Fitting(CondBr(Forced.val, t, e), f)
      BY <2>2, PlacedFits
    <3>3. QED
      BY <3>1, <3>2, <2>1, AllFitAppend
  <2>3. CASE Forced.val.ty # "i1"
    <3>1. BranchOn(t, e) = Append(Compared, CondBr(Here(Compared), t, e))
      BY <2>3 DEF BranchOn
    <3>2. "icmp_ne" \in Operands32 /\ Const(0).ty = "i32" /\ Forced.val.ty = "i32"
      BY <2>1, <2>3, <1>3 DEF Operands32, Const, Value
    <3>3. Fitting(ICmp("icmp_ne", Forced.val, Const(0)), f)
      BY <3>2, ComputedFits
    <3>4. IsSeq(Compared) /\ AllFit(Compared, f)
      BY <2>1, <3>3, AllFitAppend DEF Compared
    <3>5. Here(Compared).ty = "i1"
      BY <2>1, HereTyped DEF Compared, ICmp, Instr
    <3>6. Fitting(CondBr(Here(Compared), t, e), f)
      BY <3>5, PlacedFits
    <3>7. QED
      BY <3>1, <3>4, <3>6, AllFitAppend
  <2>4. QED
    BY <2>2, <2>3
<1>4. QED
  BY <1>1, <1>2, <1>3

-----------------------------------------------------------------------------
(* The types of the variables that names mean.                             *)

LEMMA PushTyped ==
    ASSUME NEW inner, IsSeq(inner), inner # <<>>, MapsTyped(inner), NEW name, NEW val, Typed(val)
    PROVE  MapsTyped(Push(inner, name, val)) /\ IsSeq(Push(inner, name, val))
<1> DEFINE m == Len(inner)
           map == InsertOnce(inner[m], name, val)
           new == Push(inner, name, val)
<1>1. m \in Nat /\ m >= 1 /\ DOMAIN inner = 1..m
  BY SeqFacts
<1>2. new = [inner EXCEPT ![m] = map]
  BY DEF Push
<1>3. /\ DOMAIN map = DOMAIN inner[m] \cup {name}
      /\ \A n \in DOMAIN inner[m] : map[n] = inner[m][n]
      /\ name \notin DOMAIN inner[m] => map[name] = val
  BY InsertFacts
<1> HIDE DEF map, new, m
<1>4. DOMAIN new = 1..m /\ new = [i \in 1..m |-> new[i]]
  BY <1>1, <1>2
<1>5. IsSeq(new)
  BY <1>1, <1>4, FunctionIsSeq
<1>6. ASSUME NEW l \in 1..m, NEW n \in DOMAIN new[l] PROVE Typed(new[l][n])
  <2>1. new[l] = IF l = m THEN map ELSE inner[l]
    BY <1>1, <1>2
  <2>2. ASSUME n \in DOMAIN inner[l] PROVE Typed(inner[l][n])
    BY <2>2, <1>1 DEF MapsTyped
  <2>3. CASE l # m
    BY <2>1, <2>2, <2>3, <1>6
  <2>4. CASE l = m /\ n \in DOMAIN inner[m]
    BY <2>1, <2>2, <2>4, <1>3
  <2>5. CASE l = m /\ n \notin DOMAIN inner[m]
    BY <2>1, <2>5, <1>3, <1>6
  <2>6. QED
    BY <2>3, <2>4, <2>5
<1>7. MapsTyped(new)
  BY <1>4, <1>6 DEF MapsTyped
<1>8. QED
  BY <1>5, <1>7 DEF new

LEMMA EnterTyped ==
    ASSUME NEW inner, IsSeq(inner), MapsTyped(inner)
    PROVE  MapsTyped(Enter(inner))
<1>1. PICK m, new : m = Len(inner) /\ new = Enter(inner)
  OBVIOUS
<1>2. /\ m \in Nat /\ DOMAIN inner = 1..m
      /\ IsSeq(new) /\ Len(new) = m + 1 /\ DOMAIN new[m + 1] = {}
      /\ \A l \in 1..m : new[l] = inner[l]
  BY <1>1, SeqFacts, EnterFacts
<1>3. DOMAIN new = 1..m + 1
  BY <1>2, SeqFacts
<1>4. ASSUME NEW l \in 1..m + 1, NEW n \in DOMAIN new[l] PROVE Typed(new[l][n])
  <2>1. l \in 1..m
    BY <1>2, <1>4
  <2>2. QED
    BY <2>1, <1>2, <1>4 DEF MapsTyped
<1>5. MapsTyped(new)
  BY <1>3, <1>4 DEF MapsTyped
<1>6. QED
  BY <1>1, <1>5

LEMMA ExitTyped ==
    ASSUME NEW inner, IsSeq(inner), inner # <<>>, MapsTyped(inner)
    PROVE  MapsTyped(Exit(inner))
<1>1. PICK m, new : m = Len(inner) /\ new = Exit(inner)
  OBVIOUS
<1>2. /\ m \in Nat /\ m >= 1 /\ DOMAIN inner = 1..m
      /\ IsSeq(new) /\ Len(new) = m - 1 /\ \A l \in 1..m - 1 : new[l] = inner[l]
  BY <1>1, SeqFacts, FrontFacts DEF Exit
<1>3. DOMAIN new = 1..m - 1 /\ \A l \in 1..m - 1 : l \in 1..m
  BY <1>2, SeqFacts
<1>4. MapsTyped(new)
  BY <1>2, <1>3 DEF MapsTyped
<1>5. QED
  BY <1>1, <1>4

\* What a name means, if it is not a function's.
LEMMA FoundTyped ==
    ASSUME BuilderInv, VariablesTyped, NEW name, Resolves(scope, name)
    PROVE  Typed(Find(scope, name))
<1>1. PICK l \in DOMAIN scope : name \in DOMAIN scope[l] /\ Find(scope, name) = scope[l][name]
  BY FoundIn
<1>2. QED
  BY <1>1 DEF VariablesTyped, MapsTyped

\* What is called is a function of the module.
LEMMA CalledExists ==
    ASSUME BuilderInv, NamesInv, NEW name, Resolves(scope, name), Find(scope, name).k = "fun"
    PROVE  Find(scope, name).ref[1] \in DOMAIN functions
<1>1. PICK l \in DOMAIN scope : name \in DOMAIN scope[l] /\ Find(scope, name) = scope[l][name]
  BY FoundIn
<1>2. l = 1 \/ l \in 2..Len(scope)
  <2>1. DOMAIN scope = 1..Len(scope) /\ Len(scope) \in Nat
    BY ScopeCount, SeqFacts
  <2>2. QED
    BY <2>1
<1>3. CASE l = 1
  <2>1. Named(scope[1][name], name, functions, globals)
    BY <1>1, <1>3 DEF NamesInv, OuterNames
  <2>2. QED
    BY <2>1, <1>1, <1>3 DEF Named
<1>4. CASE l \in 2..Len(scope)
  <2>1. Slot(scope[l][name], layout[currentFunction], blocks)
    BY <1>1, <1>4 DEF NamesInv, InnerNames
  <2>2. QED
    BY <2>1, <1>1 DEF Slot
<1>5. QED
  BY <1>2, <1>3, <1>4

-----------------------------------------------------------------------------
(* The frames.                                                             *)

\* Statements, declarations and methods that have just been entered hold
\* nothing.
LEMMA IdleFrames ==
    /\ \A frame, caller :
          frame.node.node \notin OperandKinds =>
              FrameFitting(frame, caller) /\ FrameFitting(frame, caller)'
    /\ \A child, caller : FrameFitting(Frame(child), caller) /\ FrameFitting(Frame(child), caller)'
<1>1. "var" \in OperandKinds /\ "assign_expression" \in OperandKinds /\ "call" \in OperandKinds
      /\ Operators \subseteq OperandKinds
  BY DEF OperandKinds, Factors, Expressions, Operators
<1>2. \A frame, caller :
         frame.node.node \notin OperandKinds =>
             FrameFitting(frame, caller) /\ FrameFitting(frame, caller)'
  BY <1>1 DEF FrameFitting
<1>3. ASSUME NEW child, NEW caller
      PROVE  FrameFitting(Frame(child), caller) /\ FrameFitting(Frame(child), caller)'
  <2>1. PICK frame : frame = Frame(child)
    OBVIOUS
  <2>2. frame.at = "visit" /\ frame.i = 0 /\ frame.vals = <<>>
    BY <2>1, EnteredFrame
  <2>3. FrameFitting(frame, caller) /\ FrameFitting(frame, caller)'
    BY <2>2 DEF FrameFitting
  <2>4. QED
    BY <2>1, <2>3
<1>4. QED
  BY <1>2, <1>3

LEMMA TakesOn ==
    ASSUME UNCHANGED <<scope, functions>>
    PROVE  /\ \A frame, ty : Takes(frame, ty)' = Takes(frame, ty)
           /\ \A frame : Callable(frame)' = Callable(frame) /\ Called(frame)' = Called(frame)
           /\ \A frame, caller : FrameFitting(frame, caller) => FrameFitting(frame, caller)'
<1>1. \A frame : Called(frame)' = Called(frame)
  BY DEF Called
<1>2. \A frame, ty : Takes(frame, ty)' = Takes(frame, ty)
  BY <1>1 DEF Takes
<1>3. \A frame : Callable(frame)' = Callable(frame)
  BY <1>1 DEF Callable
<1>4. \A frame, caller : FrameFitting(frame, caller) => FrameFitting(frame, caller)'
  BY <1>1, <1>2, <1>3 DEF FrameFitting
<1>5. QED
  BY <1>1, <1>2, <1>3, <1>4

\* A statement or a declaration has no value in hand, before and after.
LEMMA StatementFitting ==
    ASSUME BuilderInv, ValueFrames, NEW rest, NEW kinds, Moves(rest, kinds),
           Top.node.node \notin OperandKinds
    PROVE  FramesFitting' /\ HandFitting'
<1>0. PICK W, N, u : W = Len(work) /\ N = Len(work') /\ u = work'
  OBVIOUS
<1>a. W \in Nat /\ W >= 1 /\ N \in {W - 1, W, W + 1} /\ DOMAIN u = 1..N
  BY <1>0, MovingFrames
<1>1. /\ IsSeq(u) /\ Top = work[W] /\ DOMAIN work = 1..W
      /\ \A d \in 1..W - 1 : u[d] = work[d]
      /\ N = W =>
            \/ rest.at \in {"params", "items"} /\ u[W] = rest
            \/ \E child : Top.node.node # "var" /\ child.node \in kinds /\ u[W] = Frame(child)
      /\ N = W + 1 => /\ u[W] = rest
                      /\ \E child : child.node \in kinds /\ u[W + 1] = Frame(child)
  BY <1>0, MovingFrames
<1>2. work # <<>> /\ rest.node = Top.node
  BY DEF Moves
<1>3. /\ \A d \in 1..W : work[d].node.node \notin OperandKinds
      /\ W >= 2 => work[W - 1].at \notin ValuePlaces /\ work[W - 1].at # "var"
  <2>1. W >= 2 => work[W - 1].at \notin ValuePlaces /\ work[W - 1].at # "var"
    BY <1>0, <1>2, BelowStatements
  <2>2. ASSUME NEW d \in 1..W PROVE work[d].node.node \notin OperandKinds
    <3>1. d \in DOMAIN work /\ W \in DOMAIN work /\ d <= W
      BY <1>1, <1>a
    <3>2. QED
      BY <3>1, <1>1 DEF ValueFrames
  <2>3. QED
    BY <2>1, <2>2
<1>4. \A child : Frame(child).at = "visit"
  BY EnteredFrame
<1>5. /\ "visit" \notin ValuePlaces /\ "var" \notin ValuePlaces
      /\ "params" \notin ValuePlaces /\ "items" \notin ValuePlaces
  BY EnteredFrame
<1>6. ASSUME NEW d \in DOMAIN u
      PROVE  u[d].node.node \notin OperandKinds \/ \E child : u[d] = Frame(child)
  <2>1. \/ d \in 1..W - 1 /\ d \in 1..W
        \/ d = W /\ N \in {W, W + 1}
        \/ d = W + 1 /\ N = W + 1
    BY <1>a, Positions
  <2>2. CASE d \in 1..W - 1 /\ d \in 1..W
    <3>1. u[d] = work[d]
      BY <2>2, <1>1
    <3>2. QED
      BY <2>2, <3>1, <1>3
  <2>3. CASE d = W /\ N \in {W, W + 1}
    BY <2>3, <1>1, <1>2, <1>4
  <2>4. CASE d = W + 1 /\ N = W + 1
    BY <2>4, <1>1, <1>4
  <2>5. QED
    BY <2>1, <2>2, <2>3, <2>4
<1>7. ASSUME u # <<>> PROVE Last(u).at \notin ValuePlaces /\ Last(u).at # "var"
  <2>1. N >= 1 /\ Last(u) = u[N]
    BY <1>0, <1>1, <1>7, SeqFacts, LastInRange
  <2>2. CASE N = W - 1
    <3>0. W >= 2 /\ W - 1 \in 1..W - 1
      BY <2>1, <2>2, <1>a
    <3>1. u[W - 1] = work[W - 1]
      BY <3>0, <1>1
    <3>2. QED
      BY <3>0, <3>1, <2>1, <2>2, <1>3
  <2>3. CASE N = W
    BY <2>1, <2>3, <1>1, <1>4, <1>5
  <2>4. CASE N = W + 1
    BY <2>1, <2>4, <1>1, <1>4, <1>5
  <2>5. QED
    BY <2>2, <2>3, <2>4, <1>a
<1>8. HandFitting'
  <2>1. /\ work' # <<>> /\ Top'.at \in ValuePlaces => FALSE
        /\ Running("assign_expression", "var")' => FALSE
    BY <1>0, <1>7 DEF Top, Running
  <2>2. QED
    BY <2>1 DEF HandFitting
<1>9. FramesFitting'
  <2>1. ASSUME NEW d \in 2..N PROVE FrameFitting(u[d], u[d - 1])'
    <3>1. d \in DOMAIN u
      BY <2>1, <1>a
    <3>2. u[d].node.node \notin OperandKinds \/ \E child : u[d] = Frame(child)
      BY <3>1, <1>6
    <3>3. QED
      BY <3>2, IdleFrames
  <2>2. QED
    BY <2>1, <1>0 DEF FramesFitting
<1>10. QED
  BY <1>8, <1>9

\* An expression that goes on takes along what fits, or leaves a value that its
\* caller can go on with.
LEMMA ExpressionFitting ==
    ASSUME BuilderInv, ValueFrames, FramesFitting, NEW rest, NEW kinds, Moves(rest, kinds),
           Top.node.node \in OperandKinds, UNCHANGED <<scope, functions>>,
           NEW W, W = Len(work), FrameFitting(rest, work[W - 1]),
           Return => Answers(currentExpression)' /\ Takes(work[W - 1], currentExpression'.ty),
           Return /\ work[W - 1].at = "var" => currentPointer'.args[1].ty = "i32*"
    PROVE  FramesFitting' /\ HandFitting'
<1>0. PICK N, u, ty : N = Len(work') /\ u = work' /\ ty = currentExpression'.ty
  OBVIOUS
<1>a. W \in Nat /\ W >= 1 /\ N \in {W - 1, W, W + 1} /\ DOMAIN u = 1..N
  BY <1>0, MovingFrames
<1>b. /\ IsSeq(u) /\ Top = work[W] /\ DOMAIN work = 1..W
      /\ \A d \in 1..W - 1 : u[d] = work[d]
      /\ N = W - 1 => Return
  BY <1>0, MovingFrames
<1>1. /\ IsSeq(u) /\ Top = work[W] /\ DOMAIN work = 1..W
      /\ \A d \in 1..W - 1 : u[d] = work[d]
      /\ N = W - 1 => Return
      /\ N = W =>
            \/ rest.at \in {"params", "items"} /\ u[W] = rest
            \/ \E child : Top.node.node # "var" /\ child.node \in kinds /\ u[W] = Frame(child)
      /\ N = W + 1 => /\ u[W] = rest
                      /\ \E child : child.node \in kinds /\ u[W + 1] = Frame(child)
  BY <1>0, <1>b, MovingFrames
<1>2. \A child : Frame(child).at = "visit"
  BY EnteredFrame
<1>3. /\ "visit" \notin ValuePlaces /\ "var" \notin ValuePlaces
      /\ "params" \notin ValuePlaces /\ "items" \notin ValuePlaces
  BY EnteredFrame
<1>4. /\ \A frame, t : Takes(frame, t)' = Takes(frame, t)
      /\ \A frame, caller : FrameFitting(frame, caller) => FrameFitting(frame, caller)'
  BY TakesOn
<1>5. ASSUME NEW d \in 2..N PROVE FrameFitting(u[d], u[d - 1])'
  <2>1. \/ d \in 1..W - 1 /\ d - 1 \in 1..W - 1 /\ d \in 2..W
        \/ d = W /\ N \in {W, W + 1} /\ W - 1 \in 1..W - 1
        \/ d = W + 1 /\ N = W + 1
    BY <1>a
  <2>2. CASE d \in 1..W - 1 /\ d - 1 \in 1..W - 1 /\ d \in 2..W
    <3>1. u[d] = work[d] /\ u[d - 1] = work[d - 1]
      BY <2>2, <1>1
    <3>2. FrameFitting(work[d], work[d - 1])
      BY <2>2 DEF FramesFitting
    <3>3. FrameFitting(u[d], u[d - 1])
      BY <3>1, <3>2
    <3>4. QED
      BY <3>3, <1>4
  <2>3. CASE d = W /\ N \in {W, W + 1} /\ W - 1 \in 1..W - 1
    <3>1. u[d - 1] = work[W - 1]
      BY <2>3, <1>1
    <3>2. u[d] = rest \/ \E child : u[d] = Frame(child)
      BY <2>3, <1>1
    <3>3. FrameFitting(u[d], u[d - 1]) \/ \E child : u[d] = Frame(child)
      BY <3>1, <3>2
    <3>4. QED
      BY <3>3, <1>4, IdleFrames
  <2>4. CASE d = W + 1 /\ N = W + 1
    <3>1. \E child : u[d] = Frame(child)
      BY <2>4, <1>1
    <3>2. QED
      BY <3>1, IdleFrames
  <2>5. QED
    BY <2>1, <2>2, <2>3, <2>4
<1>6. FramesFitting'
  BY <1>0, <1>5 DEF FramesFitting
<1>7. ASSUME u # <<>>, Last(u).at \in ValuePlaces \cup {"var"}
      PROVE  Return /\ Last(u) = work[W - 1]
  <2>1. N >= 1 /\ Last(u) = u[N]
    BY <1>0, <1>1, <1>7, SeqFacts, LastInRange
  <2>2. CASE N = W - 1
    <3>1. W - 1 \in 1..W - 1
      BY <2>1, <2>2, <1>a
    <3>2. QED
      BY <3>1, <2>1, <2>2, <1>1
  <2>3. CASE N = W
    BY <2>1, <2>3, <1>1, <1>2, <1>3, <1>7
  <2>4. CASE N = W + 1
    BY <2>1, <2>4, <1>1, <1>2, <1>3, <1>7
  <2>5. QED
    BY <2>2, <2>3, <2>4, <1>a
<1>8. ASSUME work' # <<>>, Top'.at \in ValuePlaces
      PROVE  Answers(currentExpression)' /\ Takes(Top, currentExpression.ty)'
  <2>1. Return /\ Top' = work[W - 1]
    BY <1>0, <1>7, <1>8 DEF Top
  <2>2. PICK c : c = Top'
    OBVIOUS
  <2>3. Answers(currentExpression)' /\ Takes(c, ty)
    BY <2>1, <2>2, <1>0
  <2>4. Takes(c, ty)'
    BY <2>3, <1>4
  <2>5. QED
    BY <2>2, <2>3, <2>4, <1>0
<1>9. ASSUME Running("assign_expression", "var")' PROVE currentPointer'.args[1].ty = "i32*"
  <2>1. Return /\ work[W - 1].at = "var"
    BY <1>0, <1>7, <1>9 DEF Top, Running
  <2>2. QED
    BY <2>1
<1>10. QED
  BY <1>6, <1>8, <1>9 DEF HandFitting

-----------------------------------------------------------------------------
(* The function being built, and the parameter that comes next.            *)

\* What a step leaves of them.
LEMMA SignatureKept ==
    ASSUME BuilderInv, Signature, NEW rest, NEW kinds, Moves(rest, kinds), "param" \notin kinds,
           UNCHANGED functions, currentParameter' = currentParameter,
           InFunction' => InFunction /\ currentFunction' = currentFunction
    PROVE  Signature'
<1>0. PICK W, N, u, p, f : /\ W = Len(work) /\ N = Len(work') /\ u = work'
                           /\ p = currentParameter /\ f = currentFunction
  OBVIOUS
<1>a. W \in Nat /\ W >= 1 /\ N \in {W - 1, W, W + 1} /\ DOMAIN u = 1..N
  BY <1>0, MovingFrames
<1>1. /\ IsSeq(u) /\ Top = work[W] /\ DOMAIN work = 1..W
      /\ \A d \in 1..W - 1 : u[d] = work[d]
  BY <1>0, MovingFrames
<1>2. /\ N = W => u[W] = rest \/ \E child : child.node \in kinds /\ u[W] = Frame(child)
      /\ N = W + 1 => /\ u[W] = rest
                      /\ \E child : child.node \in kinds /\ u[W + 1] = Frame(child)
  BY <1>0, MovingFrames
<1>3. rest.node = Top.node /\ \A child : Frame(child).node = child /\ Frame(child).at = "visit"
  BY EnteredFrame DEF Moves
<1>4. ASSUME NEW d \in 1..N
      PROVE  \/ d \in 1..W /\ u[d].node = work[d].node
             \/ u[d].at = "visit" /\ u[d].node.node # "param"
  <2>1. \/ d \in 1..W - 1 /\ d \in 1..W
        \/ d = W /\ N \in {W, W + 1} /\ W \in 1..W
        \/ d = W + 1 /\ N = W + 1
    BY <1>a, Positions
  <2>2. CASE d \in 1..W - 1 /\ d \in 1..W
    BY <2>2, <1>1
  <2>3. CASE d = W /\ N \in {W, W + 1} /\ W \in 1..W
    BY <2>3, <1>1, <1>2, <1>3
  <2>4. CASE d = W + 1 /\ N = W + 1
    BY <2>4, <1>2, <1>3
  <2>5. QED
    BY <2>1, <2>2, <2>3, <2>4
<1>5. \A g \in DOMAIN functions' : IsSeq(functions'[g].params)
  BY DEF Signature
<1>6. ASSUME InFunction'
      PROVE  LET d == work'[2].node
             IN  /\ functions'[currentFunction'].ty = (IF d.type = "int" THEN "i32" ELSE "void")
                 /\ IsSeq(d.params)
                 /\ functions'[currentFunction'].params =
                       [j \in DOMAIN d.params |-> IF d.params[j].isarray THEN "i32*" ELSE "i32"]
  <2>1. 2 \in 1..N /\ u[2].at # "visit"
    BY <1>0, <1>a, <1>6 DEF InFunction
  <2>2. work'[2].node = work[2].node
    BY <1>0, <1>4, <2>1
  <2>3. InFunction /\ currentFunction' = currentFunction
    BY <1>6
  <2>4. QED
    BY <2>2, <2>3 DEF Signature
<1>7. ASSUME NEW d \in DOMAIN work', work'[d].node.node = "param"
      PROVE  currentParameter'.ty = IF work'[d].node.isarray THEN "i32*" ELSE "i32"
  <2>1. d \in 1..W /\ work'[d].node = work[d].node
    BY <1>0, <1>4, <1>a, <1>7
  <2>2. QED
    BY <2>1, <1>1, <1>7 DEF Signature
<1>8. QED
  BY <1>5, <1>6, <1>7 DEF Signature

-----------------------------------------------------------------------------
(* A step as a whole.                                                      *)

LEMMA MapsTypedOn == ASSUME NEW inner PROVE MapsTyped(inner)' = MapsTyped(inner)
  BY DEF MapsTyped, Typed

\* A statement or a declaration that appends what fits.
LEMMA StatementTyped ==
    ASSUME BuilderInv, BuilderInv', Proceeds, WaitingEmpty, TypesInv, UNCHANGED functions,
           \/ currentFunction' = currentFunction
           \/ currentFunction' = 0 /\ ~InFunction',
           NEW ins, IsSeq(ins), blocks'[ip] = blocks[ip] \o ins, AllFit(ins, currentFunction),
           NEW rest, NEW kinds, Moves(rest, kinds), "param" \notin kinds,
           currentParameter' = currentParameter, LastValues', VariablesTyped',
           Top.node.node \notin OperandKinds
    PROVE  TypesInv'
<1>1. /\ ValueFrames /\ Signature /\ CodeFitting
      /\ InFunction
  BY DEF TypesInv, Proceeds
<1>2. currentFunction' \in {0, currentFunction}
  OBVIOUS
<1>3. CodeFitting'
  BY <1>1, <1>2, ProceedsFits
<1>4. ValueFrames'
  BY <1>1, FramesValued
<1>5. FramesFitting' /\ HandFitting'
  BY <1>1, StatementFitting
<1>6. Signature'
  BY <1>1, SignatureKept
<1>7. QED
  BY <1>3, <1>4, <1>5, <1>6 DEF TypesInv

\* What a step leaves of an expression: the code it has appended, the values it
\* takes along or the one it returns.
Evaluated(rest, kinds, ins) ==
    /\ Moves(rest, kinds)
    /\ IsSeq(ins) /\ blocks'[ip] = blocks[ip] \o ins /\ AllFit(ins, currentFunction)
    /\ FrameFitting(rest, work[Len(work) - 1])
    /\ Return => /\ Answers(currentExpression)'
                 /\ Takes(work[Len(work) - 1], currentExpression'.ty)
                 /\ work[Len(work) - 1].at = "var" => currentPointer'.args[1].ty = "i32*"

LEMMA ExpressionTyped ==
    ASSUME BuilderInv, BuilderInv', Proceeds, WaitingEmpty, TypesInv,
           UNCHANGED <<scope, module, current>>,
           Top.node.node \in OperandKinds, LastValues',
           NEW rest, NEW kinds, NEW ins, Evaluated(rest, kinds, ins)
    PROVE  TypesInv'
<1>1. /\ ValueFrames /\ Signature /\ CodeFitting /\ FramesFitting /\ VariablesTyped
      /\ InFunction
  BY DEF TypesInv, Proceeds
<1>2. /\ UNCHANGED functions /\ UNCHANGED scope /\ globals' = globals
      /\ currentFunction' = currentFunction /\ currentParameter' = currentParameter
  BY DEF module, current
<1>3. /\ Moves(rest, kinds)
      /\ IsSeq(ins) /\ blocks'[ip] = blocks[ip] \o ins /\ AllFit(ins, currentFunction)
      /\ FrameFitting(rest, work[Len(work) - 1])
  BY DEF Evaluated
<1>4. "param" \notin kinds
  <2>1. kinds \subseteq OperandKinds
    BY <1>3 DEF Moves
  <2>2. QED
    BY <2>1, KindsApart
<1>5. CodeFitting'
  BY <1>1, <1>2, <1>3, ProceedsFits
<1>6. ValueFrames'
  BY <1>1, <1>3, FramesValued
<1>7. FramesFitting' /\ HandFitting'
  <2>1. PICK W : W = Len(work)
    OBVIOUS
  <2>2. /\ FrameFitting(rest, work[W - 1])
        /\ Return => Answers(currentExpression)' /\ Takes(work[W - 1], currentExpression'.ty)
        /\ Return /\ work[W - 1].at = "var" => currentPointer'.args[1].ty = "i32*"
    BY <2>1 DEF Evaluated
  <2>3. QED
    BY <1>1, <1>2, <1>3, <2>1, <2>2, ExpressionFitting
<1>8. Signature'
  BY <1>1, <1>2, <1>3, <1>4, SignatureKept
<1>9. VariablesTyped'
  BY <1>1, <1>2 DEF VariablesTyped, MapsTyped, Typed
<1>10. QED
  BY <1>5, <1>6, <1>7, <1>8, <1>9 DEF TypesInv

-----------------------------------------------------------------------------
(* The statements.                                                         *)

LEMMA VariablesOn ==
    ASSUME VariablesTyped, scope' = scope, globals' = globals PROVE VariablesTyped'
  BY DEF VariablesTyped, MapsTyped, Typed

\* What a statement appends, if it branches, fits.
LEMMA BranchCodeFits ==
    ASSUME HandFitting, work # <<>>, NEW f, NEW ins, BranchCode(ins)
    PROVE  AllFit(ins, f)
<1>1. CASE ins = <<>>
  BY <1>1, AllFitShort
<1>2. CASE \E b : ins = <<Br(b)>> \/ ins = JoinAt(b)
  BY <1>2, BranchesFit
<1>3. CASE Top.at = "condition" /\ \E t, e : ins = BranchOn(t, e)
  <2>1. "condition" \in ValuePlaces
    BY DEF ValuePlaces
  <2>2. Answers(currentExpression) /\ currentExpression.ty \in {"i32", "i1"}
    BY <1>3, <2>1 DEF HandFitting, Takes
  <2>3. QED
    BY <1>3, <2>2, BranchesFit
<1>4. QED
  BY <1>1, <1>2, <1>3 DEF BranchCode

LEMMA BranchingTyped ==
    ASSUME BuilderInv, BuilderInv', PlacementInv, WaitingEmpty, TypesInv,
           \/ VisitSelectionStmt \/ SelectionCondition \/ SelectionElse \/ SelectionEnd
           \/ VisitIterationStmt \/ IterationCondition \/ IterationEnd
    PROVE  TypesInv'
<1>1. Proceeds
  BY BranchingProceeds
<1>2. work # <<>> /\ Top.node.node \in Branchings /\ UNCHANGED lastExpression
  BY BranchingFacts
<1>3. Top.node.node \notin OperandKinds
  BY <1>2 DEF Branchings, OperandKinds, Factors, Expressions
<1>4. UNCHANGED <<scope, module, current>>
  BY DEF VisitSelectionStmt, SelectionCondition, SelectionElse, SelectionEnd,
         VisitIterationStmt, IterationCondition, IterationEnd
<1>5. /\ currentFunction' = currentFunction /\ currentParameter' = currentParameter
      /\ scope' = scope /\ globals' = globals /\ UNCHANGED functions
  BY <1>4 DEF current, module
<1>6. /\ ValueFrames /\ VariablesTyped /\ HandFitting
  BY DEF TypesInv
<1>7. PICK ins : IsSeq(ins) /\ blocks'[ip] = blocks[ip] \o ins /\ BranchCode(ins)
  BY BranchingMoves
<1>8. AllFit(ins, currentFunction)
  BY <1>2, <1>6, <1>7, BranchCodeFits
<1>9. PICK rest, kinds :
          /\ rest.node = Top.node /\ rest.vals = Top.vals
          /\ rest.at \notin {"index", "right", "var"}
          /\ rest.at \in ValuePlaces => kinds \subseteq OperandKinds
          /\ "param" \notin kinds
          /\ \/ Return
             \/ \E child : child.node \in kinds /\ work' = Callers \o <<rest, Frame(child)>>
  BY BranchingMoves
<1>10. Moves(rest, kinds)
  BY <1>2, <1>3, <1>6, <1>9, StatementMoves
<1>11. LastValues'
  BY <1>2, <1>5, <1>6, LastValuesKept
<1>12. VariablesTyped'
  BY <1>5, <1>6, VariablesOn
<1>13. QED
  BY <1>1, <1>3, <1>5, <1>7, <1>8, <1>9, <1>10, <1>11, <1>12, StatementTyped

\* The other statements, and what they append.
LEMMA PlainStatements ==
    ASSUME BuilderInv, PlacementInv, TypesInv, TypeRules,
           VisitExpresionStmt \/ VisitReturnStmt \/ ReturnValue
    PROVE  /\ \E rest, kinds : Moves(rest, kinds) /\ "param" \notin kinds
           /\ \E ins : /\ IsSeq(ins) /\ blocks'[ip] = blocks[ip] \o ins
                       /\ AllFit(ins, currentFunction)
<1>1. /\ InFunction /\ work # <<>>
      /\ DOMAIN Top = {"at", "node", "i", "vals", "todo", "bb_condition", "will_enter_scope"}
  <2>1. work # <<>>
    BY DEF VisitExpresionStmt, VisitReturnStmt, ReturnValue, Running
  <2>2. Top.node.node \notin {"program", "fun_declaration", "var_declaration"}
    BY DEF VisitExpresionStmt, VisitReturnStmt, ReturnValue, Running
  <2>3. InFunction
    BY <2>1, <2>2, InnerFacts, WorkFacts
  <2>4. QED
    BY <2>1, <2>3, OuterFacts
<1>2. ValueFrames /\ Signature /\ HandFitting
  BY DEF TypesInv
<1>3. Top.node.node \notin OperandKinds
  BY DEF VisitExpresionStmt, VisitReturnStmt, ReturnValue, Running, OperandKinds, Factors, Expressions
<1>4. "value" \in ValuePlaces /\ Expressions \subseteq OperandKinds /\ "param" \notin Expressions
      /\ "visit" \notin ValuePlaces
  BY KindsApart DEF Expressions
<1>5. ASSUME UNCHANGED code
      PROVE  \E ins : /\ IsSeq(ins) /\ blocks'[ip] = blocks[ip] \o ins
                      /\ AllFit(ins, currentFunction)
  BY <1>1, <1>5, NothingAppended, AllFitShort
<1>6. CASE VisitExpresionStmt
  <2>1. /\ Top.at = "visit" /\ UNCHANGED code
        /\ Return \/ TailVisit(Top.node.expression, Expressions)
    BY <1>6 DEF VisitExpresionStmt, Running
  <2>2. Return \/ \E child : child.node \in Expressions /\ work' = Append(Callers, Frame(child))
    BY <2>1, VisitsFollow
  <2>3. Top.at \notin {"index", "right", "var"} /\ Top.at \notin ValuePlaces
    BY <2>1, <1>4
  <2>4. Moves(Top, Expressions)
    BY <2>2, <2>3, <1>1, <1>2, <1>3, StatementMoves
  <2>5. QED
    BY <2>1, <2>4, <1>4, <1>5
<1>7. CASE VisitReturnStmt
  <2> DEFINE rest == [Top EXCEPT !.at = "value"]
  <2>1. /\ Running("return_stmt", "visit")
        /\ \/ Emit(<<RetVoid>>) /\ Return /\ Top.node.expression = Nullptr
           \/ UNCHANGED code /\ Visit(Top.node.expression, Expressions, rest)
    BY <1>7 DEF VisitReturnStmt
  <2>2. rest.node = Top.node /\ rest.vals = Top.vals /\ rest.at = "value"
    BY <1>1
  <2> HIDE DEF rest
  <2>3. CASE UNCHANGED code /\ Visit(Top.node.expression, Expressions, rest)
    <3>1. \E child : child.node \in Expressions /\ work' = Callers \o <<rest, Frame(child)>>
      BY <2>3, VisitsFollow
    <3>2. rest.at \notin {"index", "right", "var"}
      BY <2>2
    <3>3. Moves(rest, Expressions)
      BY <3>1, <3>2, <2>2, <1>1, <1>2, <1>3, <1>4, StatementMoves
    <3>4. QED
      BY <2>3, <3>3, <1>4, <1>5
  <2>4. CASE Emit(<<RetVoid>>) /\ Return /\ Top.node.expression = Nullptr
    <3>1. functions[currentFunction].ty = "void"
      BY <2>1, <2>4 DEF TypeRules
    <3>2. PICK ins : ins = <<RetVoid>>
      OBVIOUS
    <3>3. AllFit(ins, currentFunction) /\ IsSeq(ins)
      BY <3>1, <3>2, PlacedFits, AllFitShort, ShortSeqs
    <3>4. blocks'[ip] = blocks[ip] \o ins
      BY <2>4, <3>2, <3>3, <1>1, EmittedThere
    <3>5. Moves(Top, {}) /\ "param" \notin {}
      BY <2>4, <1>1, <1>2, ReturnMoves
    <3>6. QED
      BY <3>3, <3>4, <3>5
  <2>5. QED
    BY <2>1, <2>3, <2>4
<1>8. CASE ReturnValue
  <2>1. PICK ins : ins = Append(Forced.ins, Ret(Forced.val))
    OBVIOUS
  <2>2. Emit(ins) /\ Return /\ Running("return_stmt", "value") /\ Top.at = "value"
    BY <1>8, <2>1 DEF ReturnValue, Running
  <2>3. Answers(currentExpression) /\ currentExpression.ty = "i32"
    BY <2>2, <1>1, <1>2, <1>4 DEF HandFitting, Takes
  <2>4. functions[currentFunction].ty = "i32"
    <3>1. functions[currentFunction].ty # "void"
      BY <2>2 DEF TypeRules
    <3>2. functions[currentFunction].ty \in {"i32", "void"}
      BY <1>1, <1>2 DEF Signature
    <3>3. QED
      BY <3>1, <3>2
  <2>5. /\ IsSeq(Forced.ins) /\ AllFit(Forced.ins, currentFunction)
        /\ Forced.val.ty = "i32"
    BY <2>3, ForcedTyped
  <2>6. Fitting(Ret(Forced.val), currentFunction)
    BY <2>4, <2>5, PlacedFits
  <2>7. IsSeq(ins) /\ AllFit(ins, currentFunction)
    BY <2>1, <2>5, <2>6, AllFitAppend
  <2>8. blocks'[ip] = blocks[ip] \o ins
    BY <2>2, <2>7, <1>1, EmittedThere
  <2>9. Moves(Top, {}) /\ "param" \notin {}
    BY <2>2, <1>1, <1>2, ReturnMoves
  <2>10. QED
    BY <2>7, <2>8, <2>9
<1>9. QED
  BY <1>6, <1>7, <1>8

LEMMA PlainTyped ==
    ASSUME BuilderInv, BuilderInv', PlacementInv, WaitingEmpty, TypesInv, TypeRules,
           VisitExpresionStmt \/ VisitReturnStmt \/ ReturnValue
    PROVE  TypesInv'
<1>1. Proceeds
  BY WalkProceeds, EmitsProceeds
<1>2. UNCHANGED <<scope, module, lastExpression, current>>
  BY DEF VisitExpresionStmt, VisitReturnStmt, ReturnValue
<1>3. Top.node.node \notin OperandKinds
  BY DEF VisitExpresionStmt, VisitReturnStmt, ReturnValue, Running, OperandKinds, Factors, Expressions
<1>4. /\ currentFunction' = currentFunction /\ currentParameter' = currentParameter
      /\ scope' = scope /\ globals' = globals /\ UNCHANGED functions /\ UNCHANGED lastExpression
  BY <1>2 DEF current, module
<1>5. ValueFrames /\ VariablesTyped
  BY DEF TypesInv
<1>6. PICK ins : /\ IsSeq(ins) /\ blocks'[ip] = blocks[ip] \o ins
                 /\ AllFit(ins, currentFunction)
  BY PlainStatements
<1>7. PICK rest, kinds : Moves(rest, kinds) /\ "param" \notin kinds
  BY PlainStatements
<1>8. LastValues'
  BY <1>4, <1>5, LastValuesKept
<1>9. VariablesTyped'
  BY <1>4, <1>5, VariablesOn
<1>10. QED
  BY <1>1, <1>3, <1>4, <1>6, <1>7, <1>8, <1>9, StatementTyped

-----------------------------------------------------------------------------
(* Blocks, and what a function declares.                                   *)

LEMMA StepIntoScopes ==
    ASSUME BuilderInv, MapsTyped(scope), InFunction,
           \/ scope' = scope \/ scope' = Enter(scope) \/ scope' = Exit(scope)
           \/ \E name, val : Typed(val) /\ scope' = Push(scope, name, val)
    PROVE  MapsTyped(scope)'
<1>1. IsSeq(scope) /\ scope # <<>>
  BY ScopeCount
<1>2. PICK s : s = scope'
  OBVIOUS
<1>3. MapsTyped(s)
  BY <1>1, <1>2, EnterTyped, ExitTyped, PushTyped
<1>4. QED
  BY <1>2, <1>3 DEF MapsTyped, Typed

LEMMA CompoundTyped ==
    ASSUME BuilderInv, BuilderInv', PlacementInv, WaitingEmpty, TypesInv,
           VisitCompoundStmt \/ CompoundItem \/ CompoundEnd
    PROVE  TypesInv'
<1>1. Proceeds
  BY WalkProceeds
<1>2. /\ work # <<>> /\ Top.node.node = "compound_stmt"
      /\ UNCHANGED <<module, code, lastExpression>>
      /\ currentFunction' = currentFunction /\ currentParameter' = currentParameter
  BY DEF VisitCompoundStmt, CompoundItem, CompoundEnd, Running, current
<1>3. /\ InFunction
      /\ DOMAIN Top = {"at", "node", "i", "vals", "todo", "bb_condition", "will_enter_scope"}
  BY <1>2, InnerFacts, WorkFacts, OuterFacts
<1>4. Top.node.node \notin OperandKinds
  BY <1>2 DEF OperandKinds, Factors, Expressions
<1>5. /\ ValueFrames /\ VariablesTyped /\ MapsTyped(scope)
  BY DEF TypesInv, VariablesTyped
<1>6. /\ globals' = globals /\ UNCHANGED functions /\ UNCHANGED lastExpression /\ UNCHANGED code
  BY <1>2 DEF module
<1>7. PICK kinds : kinds = Statements \cup {"var_declaration"}
  OBVIOUS
<1>8. "items" \notin ValuePlaces /\ "param" \notin kinds
  BY <1>7, KindsApart DEF Statements
<1>9. \E rest : /\ rest.node = Top.node /\ rest.vals = Top.vals /\ rest.at = "items"
                /\ \/ Return
                   \/ work' = Append(Callers, rest)
                   \/ \E child : child.node \in kinds /\ work' = Callers \o <<rest, Frame(child)>>
  <2>1. CASE VisitCompoundStmt
    <3> DEFINE rest == [Top EXCEPT !.at = "items", !.will_enter_scope = isFunctionTopCompoundStatement]
    <3>1. work' = Append(Callers, rest)
      BY <2>1 DEF VisitCompoundStmt
    <3>2. rest.node = Top.node /\ rest.vals = Top.vals /\ rest.at = "items"
      BY <1>3
    <3> HIDE DEF rest
    <3>3. QED
      BY <3>1, <3>2
  <2>2. CASE CompoundItem
    <3> DEFINE rest == [Top EXCEPT !.i = @ + 1]
    <3>1. \E child : Visit(child, {"var_declaration"}, rest) \/ Visit(child, Statements, rest)
      BY <2>2 DEF CompoundItem
    <3>2. Top.at = "items"
      BY <2>2 DEF CompoundItem, Running
    <3>3. rest.node = Top.node /\ rest.vals = Top.vals /\ rest.at = "items"
      BY <1>3, <3>2
    <3> HIDE DEF rest
    <3>4. \E child : child.node \in kinds /\ work' = Callers \o <<rest, Frame(child)>>
      BY <3>1, <1>7 DEF Visit
    <3>5. QED
      BY <3>3, <3>4
  <2>3. CASE CompoundEnd
    BY <2>3 DEF CompoundEnd, Running
  <2>4. QED
    BY <2>1, <2>2, <2>3
<1>10. PICK rest : /\ rest.node = Top.node /\ rest.vals = Top.vals /\ rest.at = "items"
                   /\ \/ Return
                      \/ work' = Append(Callers, rest)
                      \/ \E child : child.node \in kinds /\ work' = Callers \o <<rest, Frame(child)>>
  BY <1>9
<1>11. Moves(rest, kinds)
  BY <1>2, <1>4, <1>5, <1>8, <1>10, StatementMoves
<1>12. PICK ins : IsSeq(ins) /\ blocks'[ip] = blocks[ip] \o ins /\ AllFit(ins, currentFunction)
  BY <1>3, <1>6, NothingAppended, AllFitShort
<1>13. LastValues'
  BY <1>2, <1>5, <1>6, LastValuesKept
<1>14. VariablesTyped'
  <2>1. scope' = scope \/ scope' = Enter(scope) \/ scope' = Exit(scope)
    BY DEF VisitCompoundStmt, CompoundItem, CompoundEnd
  <2>2. MapsTyped(scope)'
    BY <2>1, <1>3, <1>5, StepIntoScopes
  <2>3. QED
    BY <2>2, <1>5, <1>6 DEF VariablesTyped
<1>15. QED
  BY <1>1, <1>2, <1>4, <1>6, <1>8, <1>11, <1>12, <1>13, <1>14, StatementTyped

\* The slot of a variable or a parameter, and what is put into it.
LEMMA SlotFits ==
    ASSUME BuilderInv, Signature, InFunction, work # <<>>, NEW f,
           VisitLocalVarDeclaration \/ VisitParam
    PROVE  /\ \E ins : IsSeq(ins) /\ Emit(ins) /\ AllFit(ins, f)
           /\ \E name, val : Typed(val) /\ scope' = Push(scope, name, val)
<1>1. \A x : Here(<<x>>).ty = x.ty
  <2>1. \A x : Last(<<x>>) = x
    BY ShortSeqs DEF Last
  <2>2. QED
    BY <2>1 DEF Here, Value
<1>2. /\ \A ty : Alloca(ty).ty = ty
      /\ \A n : AllocaArray(n).ty = "arr*"
  BY DEF Alloca, AllocaArray, Instr
<1>3. CASE VisitLocalVarDeclaration
  <2>1. PICK x : x = IF Top.node.num = Nullptr THEN Alloca("i32*") ELSE AllocaArray(Top.node.num.value)
    OBVIOUS
  <2>2. Emit(<<x>>) /\ scope' = Push(scope, Top.node.id, Here(<<x>>))
    BY <1>3, <2>1 DEF VisitLocalVarDeclaration
  <2>3. AllFit(<<x>>, f) /\ IsSeq(<<x>>)
    BY <2>1, PlacedFits, AllFitShort, ShortSeqs
  <2>4. Typed(Here(<<x>>))
    BY <2>1, <1>1, <1>2 DEF Typed, VariableTypes
  <2>5. PICK ins : ins = <<x>>
    OBVIOUS
  <2>6. QED
    BY <2>2, <2>3, <2>4, <2>5
<1>4. CASE VisitParam
  <2>1. PICK ty, x : ty = (IF Top.node.isarray THEN "i32**" ELSE "i32*") /\ x = Alloca(ty)
    OBVIOUS
  <2>2. PICK ins : ins = Append(<<x>>, Store(currentParameter, Here(<<x>>)))
    OBVIOUS
  <2>3. Emit(ins) /\ scope' = Push(scope, Top.node.id, Here(<<x>>))
    BY <1>4, <2>1, <2>2 DEF VisitParam
  <2>4. currentParameter.ty = (IF Top.node.isarray THEN "i32*" ELSE "i32")
    <3>1. Top = work[Len(work)] /\ Len(work) \in DOMAIN work
      BY OuterFacts
    <3>2. Top.node.node = "param"
      BY <1>4 DEF VisitParam, Running
    <3>3. QED
      BY <3>1, <3>2 DEF Signature
  <2>5. Here(<<x>>).ty = ty
    BY <2>1, <1>1, <1>2
  <2>6. \/ currentParameter.ty = "i32" /\ Here(<<x>>).ty = "i32*"
        \/ currentParameter.ty = "i32*" /\ Here(<<x>>).ty = "i32**"
    BY <2>1, <2>4, <2>5
  <2>7. Fitting(Store(currentParameter, Here(<<x>>)), f)
    <3>1. PICK v, p : v = currentParameter /\ p = Here(<<x>>)
      OBVIOUS
    <3>2. (v.ty = "i32" /\ p.ty = "i32*") \/ (v.ty = "i32*" /\ p.ty = "i32**")
      BY <2>6, <3>1
    <3>3. Fitting(Store(v, p), f)
      BY <3>2, PlacedFits
    <3>4. QED
      BY <3>1, <3>3
  <2>8. AllFit(<<x>>, f) /\ IsSeq(<<x>>)
    BY <2>1, PlacedFits, AllFitShort, ShortSeqs
  <2>9. IsSeq(ins) /\ AllFit(ins, f)
    BY <2>2, <2>7, <2>8, AllFitAppend
  <2>10. Typed(Here(<<x>>))
    BY <2>1, <2>5 DEF Typed, VariableTypes
  <2>11. QED
    BY <2>3, <2>9, <2>10
<1>5. QED
  BY <1>3, <1>4

LEMMA SlotTyped ==
    ASSUME BuilderInv, BuilderInv', PlacementInv, WaitingEmpty, TypesInv,
           VisitLocalVarDeclaration \/ VisitParam
    PROVE  TypesInv'
<1>1. Proceeds
  BY EmitsProceeds
<1>2. InFunction /\ work # <<>>
  BY <1>1 DEF Proceeds
<1>3. Top.node.node \notin OperandKinds
  BY DEF VisitLocalVarDeclaration, VisitParam, Running, OperandKinds, Factors, Expressions
<1>4. /\ Return /\ currentFunction' = currentFunction /\ currentParameter' = currentParameter
      /\ currentPointer' = currentPointer /\ globals' = globals /\ UNCHANGED functions
  BY DEF VisitLocalVarDeclaration, VisitParam, current, lastExpression, module
<1>5. /\ ValueFrames /\ VariablesTyped /\ MapsTyped(scope) /\ Signature
  BY DEF TypesInv, VariablesTyped
<1>6. PICK ins : IsSeq(ins) /\ Emit(ins) /\ AllFit(ins, currentFunction)
  BY <1>2, <1>5, SlotFits
<1>7. blocks'[ip] = blocks[ip] \o ins
  BY <1>2, <1>6, EmittedThere
<1>8. LastValues'
  <2>1. currentExpression' = currentExpression \/ \E v : currentExpression' = Returning(v)
    BY DEF VisitLocalVarDeclaration, VisitParam, DeclareSize, lastExpression
  <2>2. IsSeq(currentExpression'.args) /\ currentExpression'.args # <<>>
    BY <1>5, <2>1, ValueArgs DEF ValueFrames
  <2>3. QED
    BY <1>4, <1>5, <2>2 DEF ValueFrames, LastValues
<1>9. Moves(Top, {}) /\ "param" \notin {}
  BY <1>2, <1>4, <1>5, ReturnMoves
<1>10. VariablesTyped'
  <2>1. \E name, val : Typed(val) /\ scope' = Push(scope, name, val)
    BY <1>2, <1>5, SlotFits
  <2>2. MapsTyped(scope)'
    BY <2>1, <1>2, <1>5, StepIntoScopes
  <2>3. QED
    BY <2>2, <1>4, <1>5 DEF VariablesTyped
<1>11. QED
  BY <1>1, <1>3, <1>4, <1>6, <1>7, <1>8, <1>9, <1>10, StatementTyped

-----------------------------------------------------------------------------
(* Functions.                                                              *)

\* A function visits its parameters.
LEMMA ParameterTyped ==
    ASSUME BuilderInv, BuilderInv', PlacementInv, WaitingEmpty, TypesInv, FunParam
    PROVE  TypesInv'
<1>1. Proceeds
  BY WalkProceeds
<1>2. Running("fun_declaration", "params") /\ "params" # "visit"
  BY DEF FunParam
<1>3. /\ InFunction /\ Len(work) = 2 /\ work # <<>> /\ Top.at = "params" /\ Top = work[2]
      /\ Top.node.node = "fun_declaration" /\ Top.i \in Nat
      /\ DOMAIN Top = {"at", "node", "i", "vals", "todo", "bb_condition", "will_enter_scope"}
  BY <1>2, FunctionFacts, OuterFacts DEF Running
<1>4. Top.node.node \notin OperandKinds
  BY <1>3 DEF OperandKinds, Factors, Expressions
<1>5. /\ ValueFrames /\ VariablesTyped /\ Signature /\ CodeFitting
  BY DEF TypesInv
<1>6. /\ UNCHANGED code /\ UNCHANGED lastExpression /\ scope' = scope /\ globals' = globals
      /\ UNCHANGED functions /\ currentFunction' = currentFunction
  BY DEF FunParam, module
<1>7. PICK j : j = Top.i + 1
  OBVIOUS
<1>8. PICK rest : rest = [Top EXCEPT !.i = @ + 1]
  OBVIOUS
<1>9. PICK child : child = Top.node.params[j]
  OBVIOUS
<1>10. /\ work' = Callers \o <<rest, Frame(child)>> /\ child.node = "param"
       /\ currentParameter' = Value("arg", <<currentFunction, j>>,
                                    functions[currentFunction].params[j])
       /\ Top.i < Len(Top.node.params)
  BY <1>7, <1>8, <1>9 DEF FunParam, Visit
<1>11. rest.node = Top.node /\ rest.vals = Top.vals /\ rest.at = "params"
  BY <1>3, <1>8
<1>12. PICK kinds : kinds = {"param"}
  OBVIOUS
<1>13. Moves(rest, kinds)
  <2>1. "params" \notin ValuePlaces
    BY KindsApart
  <2>2. \E c : c.node \in kinds /\ work' = Callers \o <<rest, Frame(c)>>
    BY <1>10, <1>12
  <2>3. QED
    BY <1>3, <1>4, <1>5, <1>11, <2>1, <2>2, StatementMoves
<1>14. LastValues'
  <2>1. currentParameter'.k = "arg"
    BY <1>10 DEF Value
  <2>2. QED
    BY <1>5, <1>6, <2>1 DEF ValueFrames, LastValues, lastExpression
<1>15. ValueFrames'
  BY <1>5, <1>13, <1>14, FramesValued
<1>16. FramesFitting' /\ HandFitting'
  BY <1>4, <1>5, <1>13, StatementFitting
<1>17. VariablesTyped'
  BY <1>5, <1>6, VariablesOn
<1>18. CodeFitting'
  <2>1. PICK ins : IsSeq(ins) /\ blocks'[ip] = blocks[ip] \o ins /\ AllFit(ins, currentFunction)
    BY <1>3, <1>6, NothingAppended, AllFitShort
  <2>2. currentFunction' \in {0, currentFunction}
    BY <1>6
  <2>3. QED
    BY <1>1, <1>5, <1>6, <2>1, <2>2, ProceedsFits
<1>19. /\ functions[currentFunction].ty = (IF Top.node.type = "int" THEN "i32" ELSE "void")
       /\ IsSeq(Top.node.params)
       /\ functions[currentFunction].params =
             [p \in DOMAIN Top.node.params |-> IF Top.node.params[p].isarray THEN "i32*" ELSE "i32"]
  BY <1>3, <1>5 DEF Signature
<1>20. currentParameter'.ty = (IF child.isarray THEN "i32*" ELSE "i32")
  <2>1. j \in DOMAIN Top.node.params
    <3>1. DOMAIN Top.node.params = 1..Len(Top.node.params) /\ Len(Top.node.params) \in Nat
      BY <1>19, SeqFacts
    <3>2. QED
      BY <1>3, <1>7, <1>10, <3>1
  <2>2. currentParameter'.ty = functions[currentFunction].params[j]
    BY <1>10 DEF Value
  <2>3. QED
    BY <1>9, <1>19, <2>1, <2>2
<1>21. Signature'
  <2>0. PICK u, N : u = work' /\ N = Len(work')
    OBVIOUS
  <2>1. /\ IsSeq(u) /\ N = 3 /\ u[1] = work[1] /\ u[2] = rest /\ u[3] = Frame(child)
    <3>1. /\ IsSeq(work') /\ Len(work') = 2 + 1 /\ work'[2] = rest /\ work'[2 + 1] = Frame(child)
          /\ \A d \in 1..2 - 1 : work'[d] = work[d]
      BY <1>3, <1>10, FollowingFrames
    <3>2. 1 \in 1..2 - 1
      OBVIOUS
    <3>3. QED
      BY <2>0, <3>1, <3>2
  <2>2. DOMAIN u = 1..3
    BY <2>0, <2>1, SeqFacts
  <2>3. Frame(child).node = child /\ work[1].node.node = "program"
    BY <1>3, EnteredFrame, OuterFacts
  <2>4. ASSUME NEW d \in DOMAIN u, u[d].node.node = "param"
        PROVE  currentParameter'.ty = IF u[d].node.isarray THEN "i32*" ELSE "i32"
    <3>1. d = 1 \/ d = 2 \/ d = 3
      BY <2>2, <2>4
    <3>2. d = 3
      BY <3>1, <2>1, <2>3, <2>4, <1>3, <1>11
    <3>3. QED
      BY <3>2, <2>1, <2>3, <1>20
  <2>5. u[2].node = Top.node
    BY <2>1, <1>11
  <2>6. /\ \A d \in DOMAIN work' :
              work'[d].node.node = "param" =>
                  currentParameter'.ty = (IF work'[d].node.isarray THEN "i32*" ELSE "i32")
        /\ work'[2].node = Top.node
    BY <2>0, <2>4, <2>5
  <2>7. \A g \in DOMAIN functions' : IsSeq(functions'[g].params)
    BY <1>5, <1>6 DEF Signature
  <2>8. /\ functions'[currentFunction'].ty = (IF Top.node.type = "int" THEN "i32" ELSE "void")
        /\ functions'[currentFunction'].params =
              [p \in DOMAIN Top.node.params |-> IF Top.node.params[p].isarray THEN "i32*" ELSE "i32"]
    BY <1>6, <1>19
  <2>9. QED
    BY <2>6, <2>7, <2>8, <1>19 DEF Signature
<1>22. QED
  BY <1>15, <1>16, <1>17, <1>18, <1>21 DEF TypesInv

\* It visits its body.
LEMMA FunBodyTyped ==
    ASSUME BuilderInv, BuilderInv', PlacementInv, WaitingEmpty, TypesInv, FunBody
    PROVE  TypesInv'
<1>1. Proceeds
  BY WalkProceeds
<1>2. Running("fun_declaration", "params") /\ "params" # "visit"
  BY DEF FunBody
<1>3. /\ InFunction /\ work # <<>> /\ Top.node.node = "fun_declaration"
      /\ DOMAIN Top = {"at", "node", "i", "vals", "todo", "bb_condition", "will_enter_scope"}
  BY <1>2, FunctionFacts, OuterFacts DEF Running
<1>4. Top.node.node \notin OperandKinds
  BY <1>3 DEF OperandKinds, Factors, Expressions
<1>5. /\ ValueFrames /\ VariablesTyped
  BY DEF TypesInv
<1>6. /\ UNCHANGED code /\ UNCHANGED lastExpression /\ scope' = scope /\ globals' = globals
      /\ UNCHANGED functions /\ currentFunction' = currentFunction
      /\ currentParameter' = currentParameter
  BY DEF FunBody, module
<1>7. PICK rest : rest = [Top EXCEPT !.at = "end"]
  OBVIOUS
<1>8. rest.node = Top.node /\ rest.vals = Top.vals /\ rest.at = "end"
  BY <1>3, <1>7
<1>9. PICK kinds : kinds = {"compound_stmt"}
  OBVIOUS
<1>10. \E c : c.node \in kinds /\ work' = Callers \o <<rest, Frame(c)>>
  BY <1>7, <1>9 DEF FunBody, Visit
<1>11. Moves(rest, kinds) /\ "param" \notin kinds
  <2>1. "end" \notin ValuePlaces
    BY KindsApart
  <2>2. Moves(rest, kinds)
    BY <1>3, <1>4, <1>5, <1>8, <1>10, <2>1, StatementMoves
  <2>3. QED
    BY <1>9, <2>2
<1>12. LastValues'
  BY <1>5, <1>6, LastValuesKept
<1>13. PICK ins : IsSeq(ins) /\ blocks'[ip] = blocks[ip] \o ins /\ AllFit(ins, currentFunction)
  BY <1>3, <1>6, NothingAppended, AllFitShort
<1>14. VariablesTyped'
  BY <1>5, <1>6, VariablesOn
<1>15. QED
  BY <1>1, <1>4, <1>6, <1>11, <1>12, <1>13, <1>14, StatementTyped

\* It ends, and returns what it has been declared with.
LEMMA FunEndTyped ==
    ASSUME BuilderInv, BuilderInv', PlacementInv, WaitingEmpty, TypesInv, FunEnd
    PROVE  TypesInv'
<1>1. Proceeds
  BY FunEndProceeds
<1>2. Running("fun_declaration", "end") /\ "end" # "visit"
  BY DEF FunEnd
<1>3. /\ InFunction /\ Len(work) = 2 /\ work # <<>> /\ Top.node.node = "fun_declaration"
      /\ Top = work[2]
  BY <1>2, FunctionFacts, OuterFacts DEF Running
<1>4. Top.node.node \notin OperandKinds
  BY <1>3 DEF OperandKinds, Factors, Expressions
<1>5. /\ ValueFrames /\ VariablesTyped /\ MapsTyped(scope) /\ Signature
  BY DEF TypesInv, VariablesTyped
<1>6. /\ Return /\ UNCHANGED lastExpression /\ currentParameter' = currentParameter
      /\ scope' = Exit(scope) /\ globals' = globals /\ UNCHANGED functions /\ currentFunction' = 0
  BY DEF FunEnd, module
<1>7. ~InFunction'
  <2>1. Len(work') = 2 - 1
    BY <1>3, <1>6, FollowingFrames
  <2>2. ~(Len(work') >= 2)
    BY <2>1
  <2>3. QED
    BY <2>2 DEF InFunction
<1>8. PICK ins : IsSeq(ins) /\ Emit(ins) /\ AllFit(ins, currentFunction)
  <2>1. functions[currentFunction].ty = (IF Top.node.type = "int" THEN "i32" ELSE "void")
    BY <1>3, <1>5 DEF Signature
  <2>2. PICK x, y : x = Ret(Const(0)) /\ y = RetVoid
    OBVIOUS
  <2>3. Top.node.type = "int" => Fitting(x, currentFunction)
    <3>1. Const(0).ty = "i32"
      BY DEF Const, Value
    <3>2. QED
      BY <2>1, <2>2, <3>1, PlacedFits
  <2>4. Top.node.type # "int" => Fitting(y, currentFunction)
    BY <2>1, <2>2, PlacedFits
  <2>5. \/ Emit(<<>>)
        \/ Top.node.type = "int" /\ Emit(<<x>>)
        \/ Top.node.type # "int" /\ Emit(<<y>>)
    BY <2>2 DEF FunEnd
  <2>6. IsSeq(<<>>) /\ IsSeq(<<x>>) /\ IsSeq(<<y>>)
    BY ShortSeqs
  <2>7. PICK a, b, c : a = <<>> /\ b = <<x>> /\ c = <<y>>
    OBVIOUS
  <2>8. /\ IsSeq(a) /\ IsSeq(b) /\ IsSeq(c) /\ AllFit(a, currentFunction)
        /\ Top.node.type = "int" => AllFit(b, currentFunction)
        /\ Top.node.type # "int" => AllFit(c, currentFunction)
    BY <2>3, <2>4, <2>6, <2>7, AllFitShort
  <2>9. QED
    BY <2>5, <2>7, <2>8
<1>9. blocks'[ip] = blocks[ip] \o ins
  BY <1>3, <1>8, EmittedThere
<1>10. LastValues'
  BY <1>5, <1>6, LastValuesKept
<1>11. Moves(Top, {}) /\ "param" \notin {}
  BY <1>3, <1>5, <1>6, ReturnMoves
<1>12. VariablesTyped'
  <2>1. MapsTyped(scope)'
    BY <1>3, <1>5, <1>6, StepIntoScopes
  <2>2. QED
    BY <2>1, <1>5, <1>6 DEF VariablesTyped
<1>13. QED
  BY <1>1, <1>4, <1>6, <1>7, <1>8, <1>9, <1>10, <1>11, <1>12, StatementTyped

-----------------------------------------------------------------------------
(* The expressions.                                                        *)

\* What currentExpression is left to answer has the type it says.
LEMMA AnswersFacts ==
    /\ \A v : Answers(Returning(v)) /\ Returning(v).ty = v.ty
    /\ \A p : /\ p.ty \in {"i32*", "i32**"} => Answers(Load(p))
              /\ Load(p).ty = PointeeOf[p.ty]
    /\ \A op \in {"add", "sub", "mul", "sdiv"} : \A l, r :
          l.ty = "i32" /\ r.ty = "i32" =>
              Answers(Instr(op, <<l, r>>, l.ty)) /\ Instr(op, <<l, r>>, l.ty).ty = "i32"
    /\ UNCHANGED functions /\ currentFunction' = currentFunction =>
          \A e : Answers(e) => Answers(e)'
<1>1. ASSUME NEW v PROVE Answers(Returning(v)) /\ Returning(v).ty = v.ty
  <2>1. PICK e : e = Returning(v)
    OBVIOUS
  <2>2. e.op = "value" /\ e.args = <<v>> /\ e.ty = v.ty
    BY <2>1 DEF Returning, Instr
  <2>3. QED
    BY <2>1, <2>2 DEF Answers
<1>2. ASSUME NEW p
      PROVE  /\ p.ty \in {"i32*", "i32**"} => Answers(Load(p))
             /\ Load(p).ty = PointeeOf[p.ty]
  <2>1. PICK e : e = Load(p)
    OBVIOUS
  <2>2. e.op = "load" /\ e.ty = PointeeOf[p.ty]
    BY <2>1 DEF Load, Instr
  <2>3. p.ty \in {"i32*", "i32**"} => Fitting(e, currentFunction)
    BY <2>1, ComputedFits
  <2>4. QED
    BY <2>1, <2>2, <2>3 DEF Answers, Fitting
<1>3. ASSUME NEW op \in {"add", "sub", "mul", "sdiv"}, NEW l, NEW r, l.ty = "i32", r.ty = "i32"
      PROVE  Answers(Instr(op, <<l, r>>, l.ty)) /\ Instr(op, <<l, r>>, l.ty).ty = "i32"
  <2>1. PICK e : e = Instr(op, <<l, r>>, l.ty)
    OBVIOUS
  <2>2. e.op = op /\ e.ty = "i32"
    BY <2>1, <1>3 DEF Instr
  <2>3. op \in Operands32
    BY DEF Operands32
  <2>4. Fitting(e, currentFunction)
    BY <2>1, <2>3, <1>3, ComputedFits
  <2>5. QED
    BY <2>1, <2>2, <2>4 DEF Answers, Fitting
<1>4. ASSUME UNCHANGED functions, currentFunction' = currentFunction, NEW e, Answers(e)
      PROVE  Answers(e)'
  BY <1>4 DEF Answers, WellTyped
<1>5. QED
  BY <1>1, <1>2, <1>3, <1>4

\* What the method of an expression can rely on.
LEMMA TypedHands ==
    ASSUME BuilderInv, TypesInv, work # <<>>, Top.node.node \in OperandKinds
    PROVE  /\ InFunction /\ ValueFrames /\ VariablesTyped /\ Signature
           /\ DOMAIN Top = {"at", "node", "i", "vals", "todo", "bb_condition", "will_enter_scope"}
           /\ FrameValues(Top) /\ FrameFitting(Top, work[Len(work) - 1])
           /\ Top.node.node # "var" => work[Len(work) - 1].at # "var"
           /\ Top.at \in ValuePlaces =>
                 /\ Answers(currentExpression) /\ Takes(Top, currentExpression.ty)
                 /\ IsSeq(Forced.ins) /\ AllFit(Forced.ins, currentFunction)
                 /\ Forced.val.ty = currentExpression.ty
<1>1. ValueFrames /\ VariablesTyped /\ Signature /\ FramesFitting /\ HandFitting
  BY DEF TypesInv
<1>2. /\ Top = work[Len(work)] /\ Len(work) \in DOMAIN work
      /\ DOMAIN Top = {"at", "node", "i", "vals", "todo", "bb_condition", "will_enter_scope"}
  BY OuterFacts
<1>3. InFunction
  <2>1. Top.node.node \notin {"program", "fun_declaration", "var_declaration"}
    BY DEF OperandKinds, Factors, Expressions
  <2>2. QED
    BY <2>1, InnerFacts, WorkFacts
<1>4. PICK W : W = Len(work)
  OBVIOUS
<1>5. W \in Nat /\ W >= 2
  <2>1. IsSeq(work)
    BY DEF BuilderInv, Walk
  <2>2. QED
    BY <2>1, <1>3, <1>4, SeqFacts DEF InFunction
<1>6. FrameValues(Top) /\ FrameFitting(work[W], work[W - 1])
  <2>1. W \in 2..Len(work)
    BY <1>4, <1>5
  <2>2. QED
    BY <2>1, <1>1, <1>2 DEF ValueFrames, FramesFitting
<1>7. work[W - 1].at = "var" => work[W].node.node = "var"
  <2>1. W - 1 \in 1..Len(work) - 1 /\ (W - 1) + 1 = W
    BY <1>4, <1>5
  <2>2. QED
    BY <2>1, <1>1 DEF ValueFrames
<1>8. ASSUME Top.at \in ValuePlaces
      PROVE  /\ Answers(currentExpression) /\ Takes(Top, currentExpression.ty)
             /\ IsSeq(Forced.ins) /\ AllFit(Forced.ins, currentFunction)
             /\ Forced.val.ty = currentExpression.ty
  <2>1. Answers(currentExpression) /\ Takes(Top, currentExpression.ty)
    BY <1>1, <1>8 DEF HandFitting
  <2>2. QED
    BY <2>1, ForcedTyped
<1>9. QED
  BY <1>1, <1>2, <1>3, <1>4, <1>6, <1>7, <1>8

\* What has been visited is evaluated first.
LEMMA VisitingTyped ==
    ASSUME BuilderInv, work # <<>>, Top.node.node \in OperandKinds,
           NEW rest, rest.node = Top.node, FrameValues(rest),
           FrameFitting(rest, work[Len(work) - 1]),
           NEW kinds, kinds \subseteq OperandKinds, rest.at = "var" => kinds \subseteq {"var"},
           NEW child, Visit(child, kinds, rest),
           NEW ins, IsSeq(ins), blocks'[ip] = blocks[ip] \o ins, AllFit(ins, currentFunction)
    PROVE  Evaluated(rest, kinds, ins)
<1>1. child.node \in kinds /\ work' = Callers \o <<rest, Frame(child)>>
  BY DEF Visit
<1>2. ~Return
  <2>1. PICK W, N : W = Len(work) /\ N = Len(work')
    OBVIOUS
  <2>2. W \in Nat /\ N = W + 1 /\ (Return => N = W - 1)
    BY <1>1, <2>1, FollowingFrames
  <2>3. W + 1 # W - 1
    BY <2>2
  <2>4. QED
    BY <2>2, <2>3
<1>3. Moves(rest, kinds)
  BY <1>1 DEF Moves
<1>4. QED
  BY <1>2, <1>3 DEF Evaluated

\* A value is returned.
LEMMA ReturningTyped ==
    ASSUME BuilderInv, TypesInv, work # <<>>, Top.node.node \in OperandKinds, Return,
           UNCHANGED functions, currentFunction' = currentFunction,
           NEW e, e = currentExpression', Answers(e), Takes(work[Len(work) - 1], e.ty),
           \/ Top.node.node # "var"
           \/ work[Len(work) - 1].at = "var" => currentPointer'.args[1].ty = "i32*",
           NEW ins, IsSeq(ins), blocks'[ip] = blocks[ip] \o ins, AllFit(ins, currentFunction)
    PROVE  Evaluated(Top, {}, ins)
<1>1. /\ ValueFrames /\ FrameFitting(Top, work[Len(work) - 1])
      /\ Top.node.node # "var" => work[Len(work) - 1].at # "var"
  BY TypedHands
<1>2. Moves(Top, {})
  BY <1>1, ReturnMoves
<1>3. Answers(currentExpression)'
  <2>1. Answers(e)'
    BY AnswersFacts
  <2>2. QED
    BY <2>1 DEF Answers
<1>4. QED
  BY <1>1, <1>2, <1>3 DEF Evaluated

\* A method that is not about a variable, an assignment, a call or an operator.
LEMMA VarFitting ==
    ASSUME NEW rest, rest.node.node = "var", NEW caller,
           rest.at = "index" => rest.vals[1].ty \in {"i32**", "arr*"} /\ Takes(caller, "i32")
    PROVE  FrameFitting(rest, caller)
  BY DEF FrameFitting, Operators

LEMMA AssignmentFitting ==
    ASSUME NEW rest, rest.node.node = "assign_expression", NEW caller,
           Takes(caller, "i32"), rest.at = "value" => rest.vals[1].ty = "i32*"
    PROVE  FrameFitting(rest, caller)
  BY DEF FrameFitting, Operators

LEMMA OperatorFitting ==
    ASSUME NEW rest, rest.node.node \in Operators, NEW caller,
           Takes(caller, OperationType(rest.node)), rest.at = "right" => rest.vals[1].ty = "i32"
    PROVE  FrameFitting(rest, caller)
  BY DEF FrameFitting, Operators

\* The steps that build nothing and return.
LEMMA AnswersTyped ==
    ASSUME BuilderInv, NamesInv, TypesInv, TypeRules, VisitNum \/ VisitVar
    PROVE  /\ work # <<>> /\ Top.node.node \in OperandKinds
           /\ UNCHANGED <<scope, module, current>>
           /\ LastValues' /\ \E rest, kinds, ins : Evaluated(rest, kinds, ins)
<1>1. /\ work # <<>> /\ Top.node.node \in OperandKinds /\ UNCHANGED <<scope, module, current>>
      /\ UNCHANGED code /\ Return
  BY DEF VisitNum, VisitVar, Running, OperandKinds, Factors, Expressions
<1>2. /\ InFunction /\ ValueFrames /\ VariablesTyped
  BY <1>1, TypedHands
<1>3. UNCHANGED functions /\ currentFunction' = currentFunction
      /\ currentParameter' = currentParameter
  BY <1>1 DEF module, current
<1>4. PICK ins : IsSeq(ins) /\ blocks'[ip] = blocks[ip] \o ins /\ AllFit(ins, currentFunction)
  BY <1>1, <1>2, NothingAppended, AllFitShort
<1>5. PICK e : e = currentExpression'
  OBVIOUS
<1>6. PICK caller : caller = work[Len(work) - 1]
  OBVIOUS
<1>7. CASE VisitNum
  <2>1. Running("num", "visit") /\ currentPointer' = currentPointer
    BY <1>7 DEF VisitNum
  <2>2. PICK v : v = Const(Top.node.value)
    OBVIOUS
  <2>3. e = Returning(v) /\ v.ty = "i32"
    BY <1>5, <1>7, <2>2 DEF VisitNum, Const, Value
  <2>4. Answers(e) /\ e.ty = "i32"
    BY <2>3, AnswersFacts
  <2>5. Takes(caller, e.ty)
    BY <2>1, <2>4, <1>6 DEF TypeRules
  <2>6. LastValues'
    BY <2>1, <2>3, <1>2, <1>3, <1>5, ValueArgs DEF LastValues, ValueFrames
  <2>7. Top.node.node # "var"
    BY <2>1 DEF Running
  <2>8. Evaluated(Top, {}, ins)
    BY <2>4, <2>5, <2>7, <1>1, <1>3, <1>4, <1>5, <1>6, ReturningTyped
  <2>9. QED
    BY <2>6, <2>8, <1>1
<1>8. CASE VisitVar
  <2>1. PICK p : p = Find(scope, Top.node.id)
    OBVIOUS
  <2>2. /\ Running("var", "visit") /\ Top.node.expression = Nullptr /\ Resolves(scope, Top.node.id)
        /\ e = (IF p.ty = "arr*" THEN Returning(p) ELSE Load(p))
        /\ currentPointer' = Returning(p)
    BY <1>5, <1>8, <2>1 DEF VisitVar
  <2>3. p.k # "fun" /\ Takes(caller, ValueType(p))
    BY <2>1, <2>2, <1>6 DEF TypeRules
  <2>4. p.ty \in {"i32*", "i32**", "arr*"}
    <3>1. Typed(p)
      BY <2>1, <2>2, <1>2, FoundTyped
    <3>2. QED
      BY <3>1, <2>3 DEF Typed, VariableTypes
  <2>5. Answers(e) /\ e.ty = ValueType(p)
    BY <2>2, <2>4, AnswersFacts DEF ValueType
  <2>6. currentPointer'.args[1] = p
    BY <2>2, ValueArgs, ShortSeqs
  <2>7. caller.at = "var" => currentPointer'.args[1].ty = "i32*"
    <3>1. ASSUME caller.at = "var" PROVE p.ty = "i32*"
      <4>1. ValueType(p) = "i32"
        BY <2>3, <3>1 DEF Takes
      <4>2. PointeeOf["i32**"] = "i32*"
        BY DEF PointeeOf
      <4>3. QED
        BY <4>1, <4>2, <2>4 DEF ValueType
    <3>2. QED
      BY <3>1, <2>6
  <2>8. LastValues'
    BY <2>2, <1>2, <1>3, <1>5, ValueArgs DEF LastValues, ValueFrames
  <2>9. Evaluated(Top, {}, ins)
    BY <2>3, <2>5, <2>7, <1>1, <1>3, <1>4, <1>5, <1>6, ReturningTyped
  <2>10. QED
    BY <2>8, <2>9, <1>1
<1>9. QED
  BY <1>7, <1>8

\* The steps that build nothing and go on with another visit.
LEMMA VisitsTyped ==
    ASSUME BuilderInv, NamesInv, TypesInv, TypeRules,
           VisitElement \/ VisitAssignExpression \/ AssignExpressionVar \/ VisitOperator
    PROVE  /\ work # <<>> /\ Top.node.node \in OperandKinds
           /\ UNCHANGED <<scope, module, current>>
           /\ LastValues' /\ \E rest, kinds, ins : Evaluated(rest, kinds, ins)
<1>1. /\ work # <<>> /\ Top.node.node \in OperandKinds /\ UNCHANGED <<scope, module, current>>
      /\ UNCHANGED code /\ UNCHANGED lastExpression
  BY DEF VisitElement, VisitAssignExpression, AssignExpressionVar, VisitOperator,
         Running, Operators, OperandKinds, Factors, Expressions
<1>2. /\ InFunction /\ ValueFrames /\ VariablesTyped /\ FrameValues(Top)
      /\ FrameFitting(Top, work[Len(work) - 1])
      /\ DOMAIN Top = {"at", "node", "i", "vals", "todo", "bb_condition", "will_enter_scope"}
  BY <1>1, TypedHands
<1>3. currentParameter' = currentParameter
  BY <1>1 DEF current
<1>4. PICK ins : IsSeq(ins) /\ blocks'[ip] = blocks[ip] \o ins /\ AllFit(ins, currentFunction)
  BY <1>1, <1>2, NothingAppended, AllFitShort
<1>5. LastValues'
  BY <1>1, <1>2, <1>3, LastValuesKept
<1>6. Expressions \subseteq OperandKinds /\ {"var"} \subseteq OperandKinds
  BY KindsApart
<1>7. PICK caller : caller = work[Len(work) - 1]
  OBVIOUS
<1>8. CASE VisitElement
  <2> DEFINE rest == [Top EXCEPT !.at = "index", !.vals = <<Find(scope, Top.node.id)>>]
  <2>1. /\ Resolves(scope, Top.node.id) /\ Visit(Top.node.expression, Expressions, rest)
        /\ Running("var", "visit") /\ Top.node.node = "var"
    BY <1>8 DEF VisitElement, Running
  <2>2. rest.node = Top.node /\ rest.at = "index" /\ rest.vals = <<Find(scope, Top.node.id)>>
    BY <1>2
  <2> HIDE DEF rest
  <2>3. PICK p : p = Find(scope, Top.node.id)
    OBVIOUS
  <2>4. Top.node.expression # Nullptr
    <3>1. Top.node.expression.node \in Expressions
      BY <2>1 DEF Visit
    <3>2. Nullptr.node \notin Expressions
      BY DEF Nullptr, Expressions
    <3>3. QED
      BY <3>1, <3>2
  <2>5. p.k # "fun" /\ p.ty # "i32*" /\ Takes(caller, "i32")
    BY <2>1, <2>3, <2>4, <1>7 DEF TypeRules
  <2>6. p.ty \in {"i32**", "arr*"}
    <3>1. Typed(p)
      BY <2>1, <2>3, <1>2, FoundTyped
    <3>2. QED
      BY <3>1, <2>5 DEF Typed, VariableTypes
  <2>7. rest.vals[1].ty \in {"i32**", "arr*"} /\ FrameValues(rest)
    BY <2>2, <2>3, <2>6, <1>1, ValueArgs DEF FrameValues
  <2>8. FrameFitting(rest, work[Len(work) - 1])
    BY <2>1, <2>2, <2>5, <2>7, <1>7, VarFitting
  <2>9. Evaluated(rest, Expressions, ins)
    BY <2>1, <2>2, <2>7, <2>8, <1>1, <1>4, <1>6, VisitingTyped
  <2>10. QED
    BY <2>9, <1>1, <1>5
<1>9. CASE VisitAssignExpression
  <2> DEFINE rest == [Top EXCEPT !.at = "var"]
  <2>1. Visit(Top.node.var, {"var"}, rest) /\ Running("assign_expression", "visit")
        /\ Top.node.node = "assign_expression"
    BY <1>9 DEF VisitAssignExpression, Running
  <2>2. rest.node = Top.node /\ rest.at = "var" /\ rest.vals = Top.vals
    BY <1>2
  <2> HIDE DEF rest
  <2>3. FrameValues(rest)
    BY <2>2, <1>1, <1>2 DEF FrameValues
  <2>4. Takes(caller, "i32")
    BY <2>1, <1>7 DEF TypeRules
  <2>5. FrameFitting(rest, work[Len(work) - 1])
    BY <2>1, <2>2, <2>4, <1>7, AssignmentFitting
  <2>6. Evaluated(rest, {"var"}, ins)
    BY <2>1, <2>2, <2>3, <2>5, <1>1, <1>4, <1>6, VisitingTyped
  <2>7. QED
    BY <2>6, <1>1, <1>5
<1>10. CASE AssignExpressionVar
  <2> DEFINE rest == [Top EXCEPT !.at = "value", !.vals = currentPointer.args]
  <2>1. /\ Visit(Top.node.expression, Expressions, rest) /\ Running("assign_expression", "var")
        /\ Top.node.node = "assign_expression" /\ Top.at = "var"
    BY <1>10 DEF AssignExpressionVar, Running
  <2>2. rest.node = Top.node /\ rest.at = "value" /\ rest.vals = currentPointer.args
    BY <1>2
  <2> HIDE DEF rest
  <2>3. FrameValues(rest)
    BY <2>2, <1>1, <1>2 DEF FrameValues, ValueFrames
  <2>4. currentPointer.args[1].ty = "i32*"
    BY <2>1 DEF TypesInv, HandFitting
  <2>5. Takes(caller, "i32")
    BY <2>1, <1>2, <1>7 DEF FrameFitting
  <2>6. FrameFitting(rest, work[Len(work) - 1])
    BY <2>1, <2>2, <2>4, <2>5, <1>7, AssignmentFitting
  <2>7. Evaluated(rest, Expressions, ins)
    BY <2>1, <2>2, <2>3, <2>6, <1>1, <1>4, <1>6, VisitingTyped
  <2>8. QED
    BY <2>7, <1>1, <1>5
<1>11. CASE VisitOperator
  <2> DEFINE rest == [Top EXCEPT !.at = "left"]
  <2>1. PICK kind \in Operators : Running(kind, "visit")
    BY <1>11 DEF VisitOperator
  <2>2. Top.node.node = kind /\ kind # "var"
    BY <2>1 DEF Running, Operators
  <2>3. rest.node = Top.node /\ rest.at = "left" /\ rest.vals = Top.vals
    BY <1>2
  <2> HIDE DEF rest
  <2>4. \/ \E child : TailVisit(child, OperandKinds)
        \/ Len(Operands(Top.node)) # 1 /\ \E child : Visit(child, OperandKinds, rest)
    BY <1>11 DEF VisitOperator, rest
  <2>5. CASE Len(Operands(Top.node)) # 1 /\ \E child : Visit(child, OperandKinds, rest)
    <3>1. PICK child : Visit(child, OperandKinds, rest)
      BY <2>5
    <3>2. FrameValues(rest)
      BY <2>3, <1>1, <1>2 DEF FrameValues
    <3>3. Takes(caller, OperationType(Top.node))
      BY <2>1, <2>5, <1>7 DEF TypeRules
    <3>4. FrameFitting(rest, work[Len(work) - 1])
      BY <2>1, <2>2, <2>3, <3>3, <1>7, OperatorFitting
    <3>5. Evaluated(rest, OperandKinds, ins)
      BY <3>1, <3>2, <3>4, <2>3, <1>1, <1>4, VisitingTyped
    <3>6. QED
      BY <3>5, <1>1, <1>5
  <2>6. CASE \E child : TailVisit(child, OperandKinds)
    <3>1. PICK child : child.node \in OperandKinds /\ work' = Append(Callers, Frame(child))
      BY <2>6, VisitsFollow
    <3>2. Moves(Top, OperandKinds)
      <4>1. Top.at # "var"
        BY <2>1 DEF Running
      <4>2. QED
        BY <3>1, <4>1, <2>2, <1>1, <1>2 DEF Moves
    <3>3. ~Return
      <4>1. PICK W, N : W = Len(work) /\ N = Len(work')
        OBVIOUS
      <4>2. W \in Nat /\ N = W /\ (Return => N = W - 1)
        BY <1>1, <3>1, <4>1, FollowingFrames
      <4>3. W # W - 1
        BY <4>2
      <4>4. QED
        BY <4>2, <4>3
    <3>4. Evaluated(Top, OperandKinds, ins)
      BY <3>2, <3>3, <1>2, <1>4 DEF Evaluated
    <3>5. QED
      BY <3>4, <1>1, <1>5
  <2>7. QED
    BY <2>4, <2>5, <2>6
<1>12. QED
  BY <1>8, <1>9, <1>10, <1>11

\* The steps that emit, of operators and assignments.
LEMMA OperatorsTyped ==
    ASSUME BuilderInv, TypesInv, AssignExpressionValue \/ OperatorLeft \/ OperatorRight
    PROVE  /\ work # <<>> /\ Top.node.node \in OperandKinds
           /\ UNCHANGED <<scope, module, current>>
           /\ LastValues' /\ \E rest, kinds, ins : Evaluated(rest, kinds, ins)
<1>1. /\ work # <<>> /\ Top.node.node \in OperandKinds /\ Top.node.node # "var"
      /\ UNCHANGED <<scope, module, current>> /\ currentPointer' = currentPointer
  BY DEF AssignExpressionValue, OperatorLeft, OperatorRight, Running, Operators, OperandKinds,
         Factors, Expressions, lastExpression
<1>2. Top.at \in ValuePlaces
  BY KindsApart DEF AssignExpressionValue, OperatorLeft, OperatorRight, Running
<1>3. /\ InFunction /\ ValueFrames /\ FrameValues(Top)
      /\ FrameFitting(Top, work[Len(work) - 1])
      /\ DOMAIN Top = {"at", "node", "i", "vals", "todo", "bb_condition", "will_enter_scope"}
      /\ Answers(currentExpression) /\ Takes(Top, currentExpression.ty)
      /\ IsSeq(Forced.ins) /\ AllFit(Forced.ins, currentFunction)
      /\ Forced.val.ty = currentExpression.ty
  BY <1>1, <1>2, TypedHands
<1>4. /\ currentParameter' = currentParameter /\ UNCHANGED functions
      /\ currentFunction' = currentFunction
  BY <1>1 DEF current, module
<1>5. LastValues' <=> IsSeq(currentExpression'.args) /\ currentExpression'.args # <<>>
  BY <1>1, <1>3, <1>4 DEF LastValues, ValueFrames
<1>6. PICK caller : caller = work[Len(work) - 1]
  OBVIOUS
<1>7. PICK r : r = Forced.val
  OBVIOUS
<1>8. Top.at \in {"left", "right", "value"} => r.ty = "i32"
  BY <1>3, <1>7 DEF Takes
<1>9. CASE AssignExpressionValue
  <2>1. PICK p, list : p = Top.vals[1] /\ list = Append(Forced.ins, Store(r, p))
    OBVIOUS
  <2>2. /\ Emit(list) /\ Return /\ currentExpression' = currentExpression
        /\ Top.node.node = "assign_expression" /\ Top.at = "value"
    BY <1>7, <1>9, <2>1 DEF AssignExpressionValue, Running, lastExpression
  <2>3. p.ty = "i32*" /\ Takes(caller, "i32")
    BY <1>3, <1>6, <2>1, <2>2 DEF FrameFitting
  <2>4. Fitting(Store(r, p), currentFunction)
    BY <1>8, <2>2, <2>3, PlacedFits
  <2>5. IsSeq(list) /\ AllFit(list, currentFunction)
    BY <1>3, <2>1, <2>4, AllFitAppend
  <2>6. blocks'[ip] = blocks[ip] \o list
    BY <1>3, <2>2, <2>5, EmittedThere
  <2>7. PICK e : e = currentExpression'
    OBVIOUS
  <2>8. Answers(e) /\ e.ty = "i32"
    BY <1>3, <1>7, <1>8, <2>2, <2>7
  <2>9. Evaluated(Top, {}, list)
    BY <1>1, <1>4, <1>6, <2>2, <2>3, <2>5, <2>6, <2>7, <2>8, ReturningTyped
  <2>10. LastValues'
    BY <2>2, <1>3, <1>5 DEF ValueFrames
  <2>11. QED
    BY <2>9, <2>10, <1>1
<1>10. CASE OperatorLeft
  <2> DEFINE rest == [Top EXCEPT !.at = "right", !.vals = <<Forced.val>>]
             child == Operands(Top.node)[2]
  <2>1. /\ Emit(Forced.ins) /\ Visit(child, OperandKinds, rest)
        /\ currentExpression' = currentExpression
        /\ Top.at = "left" /\ Top.node.node \in Operators
    BY <1>10 DEF OperatorLeft, lastExpression, Running
  <2>2. rest.node = Top.node /\ rest.at = "right" /\ rest.vals = <<r>>
    BY <1>3, <1>7
  <2> HIDE DEF rest, child
  <2>3. FrameValues(rest) /\ rest.vals[1] = r
    BY <2>2, <1>1, <1>3, ValueArgs DEF FrameValues
  <2>4. Takes(caller, OperationType(Top.node))
    <3>1. Top.at # "visit"
      BY <2>1
    <3>2. QED
      BY <1>3, <1>6, <2>1, <3>1 DEF FrameFitting
  <2>5. FrameFitting(rest, work[Len(work) - 1])
    BY <1>6, <1>8, <2>1, <2>2, <2>3, <2>4, OperatorFitting
  <2>6. blocks'[ip] = blocks[ip] \o Forced.ins
    BY <2>1, <1>3, EmittedThere
  <2>7. Evaluated(rest, OperandKinds, Forced.ins)
    BY <1>1, <1>3, <2>1, <2>2, <2>3, <2>5, <2>6, VisitingTyped
  <2>8. LastValues'
    BY <2>1, <1>3, <1>5 DEF ValueFrames
  <2>9. QED
    BY <2>7, <2>8, <1>1
<1>11. CASE OperatorRight
  <2>1. PICK l, n : l = Top.vals[1] /\ n = Top.node
    OBVIOUS
  <2>2. PICK compare : compare = Append(Forced.ins, ICmp(n.op, l, r))
    OBVIOUS
  <2>3. /\ Return /\ Top.at = "right" /\ n.node \in Operators /\ n.op \in OperationsOf[n.node]
        /\ \/ /\ n.node = "simple_expression" /\ Emit(compare)
              /\ currentExpression' = Returning(Here(compare))
           \/ /\ n.node # "simple_expression" /\ Emit(Forced.ins)
              /\ currentExpression' = Instr(n.op, <<l, r>>, l.ty)
    BY <1>7, <1>11, <2>1, <2>2 DEF OperatorRight, Running
  <2>4. l.ty = "i32" /\ r.ty = "i32" /\ Takes(caller, OperationType(n))
    <3>1. Top.at # "visit"
      BY <2>3
    <3>2. QED
      BY <1>3, <1>6, <1>8, <2>1, <2>3, <3>1 DEF FrameFitting
  <2>5. PICK e : e = currentExpression'
    OBVIOUS
  <2>6. CASE n.node = "simple_expression" /\ Emit(compare)
             /\ currentExpression' = Returning(Here(compare))
    <3>1. n.op \in Operands32
      BY <2>3, <2>6 DEF OperationsOf, Operands32
    <3>2. Fitting(ICmp(n.op, l, r), currentFunction)
      BY <2>4, <3>1, ComputedFits
    <3>3. IsSeq(compare) /\ AllFit(compare, currentFunction)
      BY <1>3, <2>2, <3>2, AllFitAppend
    <3>4. blocks'[ip] = blocks[ip] \o compare
      BY <1>3, <2>6, <3>3, EmittedThere
    <3>5. Here(compare).ty = "i1"
      <4>1. ICmp(n.op, l, r).ty = "i1"
        BY DEF ICmp, Instr
      <4>2. QED
        BY <4>1, <1>3, <2>2, HereTyped
    <3>6. Answers(e) /\ e.ty = OperationType(n)
      BY <2>5, <2>6, <3>5, AnswersFacts DEF OperationType
    <3>7. Evaluated(Top, {}, compare)
      BY <1>1, <1>4, <1>6, <2>3, <2>4, <2>5, <3>3, <3>4, <3>6, ReturningTyped
    <3>8. LastValues'
      BY <2>6, <1>5, ValueArgs
    <3>9. QED
      BY <3>7, <3>8, <1>1
  <2>7. CASE n.node # "simple_expression" /\ Emit(Forced.ins)
             /\ currentExpression' = Instr(n.op, <<l, r>>, l.ty)
    <3>1. n.op \in {"add", "sub", "mul", "sdiv"}
      BY <2>3, <2>7 DEF OperationsOf, Operators
    <3>2. Answers(e) /\ e.ty = OperationType(n)
      BY <2>4, <2>5, <2>7, <3>1, AnswersFacts DEF OperationType
    <3>3. blocks'[ip] = blocks[ip] \o Forced.ins
      BY <1>3, <2>7, EmittedThere
    <3>4. Evaluated(Top, {}, Forced.ins)
      BY <1>1, <1>3, <1>4, <1>6, <2>3, <2>4, <2>5, <3>2, <3>3, ReturningTyped
    <3>5. LastValues'
      <4>1. currentExpression'.args = <<l, r>>
        BY <2>7 DEF Instr
      <4>2. IsSeq(<<l, r>>) /\ <<l, r>> # <<>>
        BY ShortSeqs
      <4>3. QED
        BY <4>1, <4>2, <1>5
    <3>6. QED
      BY <3>4, <3>5, <1>1
  <2>8. QED
    BY <2>3, <2>6, <2>7
<1>12. QED
  BY <1>9, <1>10, <1>11

\* The values of the arguments so far.
ArgumentsFit(frame, list) ==
    \A j \in 1..Len(list) : list[j].ty = Called(frame).params[j]

\* The call itself.
LEMMA CallTyped ==
    ASSUME BuilderInv, NamesInv, TypesInv, work # <<>>, Top.node.node = "call",
           UNCHANGED <<scope, module, current>>, currentPointer' = currentPointer,
           Callable(Top), Takes(work[Len(work) - 1], Called(Top).ty),
           NEW ins, IsSeq(ins), AllFit(ins, currentFunction),
           NEW args, IsSeq(args), Len(args) = Len(Called(Top).params), ArgumentsFit(Top, args),
           EmitCall(ins, args)
    PROVE  LastValues' /\ \E rest, kinds, list : Evaluated(rest, kinds, list)
<1>1. Top.node.node \in OperandKinds /\ Top.node.node # "var"
  BY DEF OperandKinds, Factors, Expressions
<1>2. /\ InFunction /\ ValueFrames /\ Signature
  BY <1>1, TypedHands
<1>3. /\ currentParameter' = currentParameter /\ UNCHANGED functions
      /\ currentFunction' = currentFunction
  BY DEF current, module
<1>4. PICK c, g, caller : /\ c = Find(scope, Top.node.id) /\ g = Called(Top)
                          /\ caller = work[Len(work) - 1]
  OBVIOUS
<1>5. /\ c.k = "fun" /\ c.ref[1] \in DOMAIN functions /\ g = functions[c.ref[1]]
      /\ IsSeq(g.params) /\ Resolves(scope, Top.node.id)
  <2>1. c.k = "fun" /\ Resolves(scope, Top.node.id)
    BY <1>4 DEF Callable, EmitCall
  <2>2. c.ref[1] \in DOMAIN functions
    BY <1>4, <2>1, CalledExists
  <2>3. g = functions[c.ref[1]]
    BY <1>4 DEF Called
  <2>4. QED
    BY <2>1, <2>2, <2>3, <1>2 DEF Signature
<1>6. Fitting(Call(c, args), currentFunction)
  <2>1. /\ Len(args) = Len(functions[c.ref[1]].params)
        /\ \A j \in 1..Len(args) : args[j].ty = functions[c.ref[1]].params[j]
    BY <1>4, <1>5 DEF ArgumentsFit
  <2>2. IsSeq(functions[c.ref[1]].params)
    BY <1>5
  <2>3. QED
    BY <1>5, <2>1, <2>2, CallFits
<1>7. PICK list : list = Append(ins, Call(c, args))
  OBVIOUS
<1>8. IsSeq(list) /\ AllFit(list, currentFunction)
  BY <1>6, <1>7, AllFitAppend
<1>9. Emit(list) /\ Return /\ currentExpression' = Returning(Here(list))
  BY <1>4, <1>7 DEF EmitCall
<1>10. blocks'[ip] = blocks[ip] \o list
  BY <1>2, <1>8, <1>9, EmittedThere
<1>11. Here(list).ty = g.ty
  <2>1. Call(c, args).ty = g.ty
    BY <1>5 DEF Call, Instr
  <2>2. QED
    BY <2>1, <1>7, HereTyped
<1>12. PICK e : e = currentExpression'
  OBVIOUS
<1>13. Answers(e) /\ e.ty = g.ty
  BY <1>9, <1>11, <1>12, AnswersFacts
<1>14. Evaluated(Top, {}, list)
  BY <1>1, <1>3, <1>4, <1>8, <1>9, <1>10, <1>12, <1>13, ReturningTyped
<1>15. LastValues'
  BY <1>2, <1>3, <1>9, ValueArgs DEF LastValues, ValueFrames
<1>16. QED
  BY <1>14, <1>15

\* The next argument.
LEMMA ArgumentTyped ==
    ASSUME BuilderInv, TypesInv, work # <<>>, Top.node.node = "call",
           UNCHANGED <<scope, module, current>>, UNCHANGED lastExpression,
           Callable(Top), Takes(work[Len(work) - 1], Called(Top).ty),
           NEW ins, IsSeq(ins), AllFit(ins, currentFunction), blocks'[ip] = blocks[ip] \o ins,
           NEW frame, frame.node = Top.node, NextArgument(frame), IsSeq(frame.vals),
           frame.i \in Nat, frame.i < Len(Top.node.args), Len(frame.vals) = frame.i,
           ArgumentsFit(Top, frame.vals),
           DOMAIN frame = {"at", "node", "i", "vals", "todo", "bb_condition", "will_enter_scope"}
    PROVE  LastValues' /\ \E rest, kinds, list : Evaluated(rest, kinds, list)
<1>1. Top.node.node \in OperandKinds /\ Top.node.node # "var"
  BY DEF OperandKinds, Factors, Expressions
<1>2. InFunction /\ ValueFrames
  BY <1>1, TypedHands
<1>3. currentParameter' = currentParameter
  BY DEF current
<1> DEFINE rest == [frame EXCEPT !.i = @ + 1, !.at = "args"]
           child == frame.node.args[frame.i + 1]
<1>4. Visit(child, Expressions, rest)
  BY DEF NextArgument
<1>5. rest.node = Top.node /\ rest.at = "args" /\ rest.vals = frame.vals /\ rest.i = frame.i + 1
  OBVIOUS
<1> HIDE DEF rest, child
<1>6. FrameValues(rest)
  BY <1>1, <1>5 DEF FrameValues
<1>7. Callable(rest) /\ Called(rest) = Called(Top)
  BY <1>5 DEF Callable, Called
<1>8. rest.i \in 1..Len(rest.node.args) /\ Len(rest.vals) = rest.i - 1
  <2>1. Len(Top.node.args) \in Nat
    BY SeqFacts DEF Callable
  <2>2. QED
    BY <2>1, <1>5
<1>9. \A j \in 1..Len(rest.vals) : rest.vals[j].ty = Called(rest).params[j]
  BY <1>5, <1>7 DEF ArgumentsFit
<1>10. FrameFitting(rest, work[Len(work) - 1])
  <2>1. "call" \notin Operators
    BY DEF Operators
  <2>2. QED
    BY <2>1, <1>5, <1>7, <1>8, <1>9 DEF FrameFitting
<1>11. Expressions \subseteq OperandKinds
  BY KindsApart
<1>12. Evaluated(rest, Expressions, ins)
  BY <1>1, <1>4, <1>5, <1>6, <1>10, <1>11, VisitingTyped
<1>13. LastValues'
  BY <1>2, <1>3, LastValuesKept
<1>14. QED
  BY <1>12, <1>13

LEMMA CallsTyped ==
    ASSUME BuilderInv, NamesInv, TypesInv, TypeRules, VisitCall \/ CallArgument
    PROVE  /\ work # <<>> /\ Top.node.node \in OperandKinds
           /\ UNCHANGED <<scope, module, current>>
           /\ LastValues' /\ \E rest, kinds, ins : Evaluated(rest, kinds, ins)
<1>1. /\ work # <<>> /\ Top.node.node \in OperandKinds /\ Top.node.node = "call"
      /\ UNCHANGED <<scope, module, current>> /\ currentPointer' = currentPointer
  BY DEF VisitCall, CallArgument, Running, OperandKinds, Factors, Expressions
<1>2. /\ InFunction /\ ValueFrames /\ FrameValues(Top) /\ IsSeq(Top.vals)
      /\ FrameFitting(Top, work[Len(work) - 1])
      /\ DOMAIN Top = {"at", "node", "i", "vals", "todo", "bb_condition", "will_enter_scope"}
  BY <1>1, TypedHands DEF FrameValues
<1>3. CASE VisitCall
  <2>1. /\ Running("call", "visit") /\ Top.at = "visit"
        /\ \/ Top.node.args = <<>> /\ EmitCall(<<>>, <<>>)
           \/ /\ Top.node.args # <<>> /\ NextArgument(Top)
              /\ UNCHANGED <<code, currentExpression>>
    BY <1>3 DEF VisitCall, Running
  <2>2. Callable(Top) /\ Takes(work[Len(work) - 1], Called(Top).ty)
    BY <2>1 DEF TypeRules
  <2>3. PICK none : none = <<>>
    OBVIOUS
  <2>4. IsSeq(none) /\ AllFit(none, currentFunction) /\ Len(none) = 0 /\ ArgumentsFit(Top, none)
    BY <2>3, AllFitShort, ShortSeqs DEF ArgumentsFit
  <2>5. CASE Top.node.args = <<>> /\ EmitCall(<<>>, <<>>)
    <3>1. EmitCall(none, none) /\ Len(none) = Len(Called(Top).params)
      BY <2>2, <2>3, <2>4, <2>5 DEF Callable
    <3>2. QED
      BY <1>1, <2>2, <2>4, <3>1, CallTyped
  <2>6. CASE /\ Top.node.args # <<>> /\ NextArgument(Top)
             /\ UNCHANGED <<code, currentExpression>>
    <3>1. Top.i = 0 /\ Top.vals = none
      BY <1>1, <1>2, <2>1, <2>3 DEF FrameFitting
    <3>2. Top.i \in Nat /\ Top.i < Len(Top.node.args) /\ Len(Top.vals) = Top.i
      <4>1. IsSeq(Top.node.args)
        BY <2>2 DEF Callable
      <4>2. Len(Top.node.args) \in Nat /\ Len(Top.node.args) # 0
        BY <2>6, <4>1, SeqFacts
      <4>3. QED
        BY <2>4, <3>1, <4>2
    <3>3. ArgumentsFit(Top, Top.vals)
      BY <2>4, <3>1
    <3>4. UNCHANGED lastExpression /\ UNCHANGED code
      BY <1>1, <2>6 DEF lastExpression
    <3>5. PICK ins : IsSeq(ins) /\ blocks'[ip] = blocks[ip] \o ins /\ AllFit(ins, currentFunction)
      BY <1>2, <3>4, NothingAppended, AllFitShort
    <3>6. LastValues' /\ \E rest, kinds, list : Evaluated(rest, kinds, list)
      BY <1>1, <1>2, <2>2, <2>6, <3>2, <3>3, <3>4, <3>5, ArgumentTyped
    <3>7. QED
      BY <3>6, <1>1
  <2>7. QED
    BY <2>1, <2>5, <2>6
<1>4. CASE CallArgument
  <2>1. PICK v : v = Forced.val
    OBVIOUS
  <2>2. PICK decay : decay = Append(Forced.ins, Element(v, Const(0)))
    OBVIOUS
  <2>3. PICK ins, w : /\ ins = (IF v.ty = "arr*" THEN decay ELSE Forced.ins)
                      /\ w = (IF v.ty = "arr*" THEN Here(decay) ELSE v)
    OBVIOUS
  <2>4. PICK list : list = Append(Top.vals, w)
    OBVIOUS
  <2>5. /\ Top.at = "args"
        /\ \/ Top.i = Len(Top.node.args) /\ EmitCall(ins, list)
           \/ /\ Top.i # Len(Top.node.args) /\ NextArgument([Top EXCEPT !.vals = list])
              /\ Emit(ins) /\ currentExpression' = currentExpression
    BY <1>4, <2>1, <2>2, <2>3, <2>4 DEF CallArgument, Running
  <2>6. Top.at \in ValuePlaces
    BY <2>5, KindsApart
  <2>7. /\ Answers(currentExpression) /\ Takes(Top, currentExpression.ty)
        /\ IsSeq(Forced.ins) /\ AllFit(Forced.ins, currentFunction)
        /\ v.ty = currentExpression.ty
    BY <1>1, <2>1, <2>6, TypedHands
  <2>8. /\ Callable(Top) /\ Takes(work[Len(work) - 1], Called(Top).ty)
        /\ Top.i \in 1..Len(Top.node.args) /\ Len(Top.vals) = Top.i - 1
        /\ \A j \in 1..Len(Top.vals) : Top.vals[j].ty = Called(Top).params[j]
    <3>1. Top.at # "visit"
      BY <2>5
    <3>2. QED
      BY <1>1, <1>2, <3>1 DEF FrameFitting
  <2>9. \/ IsSeq(decay) /\ AllFit(decay, currentFunction) /\ Here(decay).ty = "i32*"
        \/ v.ty # "arr*"
    <3>1. CASE v.ty = "arr*"
      <4>1. PICK z, x : z = Const(0) /\ x = Element(v, z)
        OBVIOUS
      <4>2. z.ty = "i32" /\ x.ty = "i32*"
        BY <4>1 DEF Const, Value, Element, Instr
      <4>3. Fitting(x, currentFunction)
        BY <3>1, <4>1, <4>2, ComputedFits
      <4>4. decay = Append(Forced.ins, x)
        BY <2>2, <4>1
      <4>5. QED
        BY <2>7, <4>2, <4>3, <4>4, AllFitAppend, HereTyped
    <3>2. QED
      BY <3>1
  <2>10. IsSeq(ins) /\ AllFit(ins, currentFunction) /\ w.ty = Called(Top).params[Top.i]
    <3>1. Called(Top).params[Top.i] = IF v.ty = "arr*" THEN "i32*" ELSE v.ty
      BY <2>5, <2>7 DEF Takes
    <3>2. QED
      BY <2>3, <2>7, <2>9, <3>1
  <2>11. PICK n : n = Top.i
    OBVIOUS
  <2>12. /\ n \in Nat /\ n \in 1..Len(Top.node.args) /\ Len(Top.node.args) \in Nat
    <3>1. Len(Top.node.args) \in Nat
      BY <2>8, SeqFacts DEF Callable
    <3>2. QED
      BY <2>8, <2>11, <3>1
  <2>13. IsSeq(list) /\ Len(list) = n /\ ArgumentsFit(Top, list)
    <3>1. /\ IsSeq(list) /\ Len(list) = Len(Top.vals) + 1
          /\ \A j \in 1..Len(Top.vals) : list[j] = Top.vals[j]
          /\ list[Len(Top.vals) + 1] = w
      BY <1>2, <2>4, AppendFacts
    <3>2. Len(Top.vals) = n - 1 /\ (n - 1) + 1 = n
      BY <2>8, <2>11, <2>12
    <3>3. Len(list) = n /\ list[n] = w /\ \A j \in 1..n - 1 : list[j] = Top.vals[j]
      BY <3>1, <3>2
    <3>4. ASSUME NEW j \in 1..n PROVE list[j].ty = Called(Top).params[j]
      <4>1. CASE j = n
        BY <4>1, <3>3, <2>10, <2>11
      <4>2. CASE j # n
        <5>1. j \in 1..n - 1 /\ j \in 1..Len(Top.vals)
          BY <4>2, <3>2, <2>12
        <5>2. QED
          BY <5>1, <3>3, <2>8
      <4>3. QED
        BY <4>1, <4>2
    <3>5. QED
      BY <3>1, <3>3, <3>4 DEF ArgumentsFit
  <2>14. CASE Top.i = Len(Top.node.args) /\ EmitCall(ins, list)
    <3>1. Len(list) = Len(Called(Top).params)
      BY <2>8, <2>11, <2>13, <2>14 DEF Callable
    <3>2. LastValues' /\ \E rest, kinds, l : Evaluated(rest, kinds, l)
      BY <1>1, <2>8, <2>10, <2>13, <2>14, <3>1, CallTyped
    <3>3. QED
      BY <3>2, <1>1
  <2>15. CASE /\ Top.i # Len(Top.node.args) /\ NextArgument([Top EXCEPT !.vals = list])
              /\ Emit(ins) /\ currentExpression' = currentExpression
    <3>1. PICK frame : frame = [Top EXCEPT !.vals = list]
      OBVIOUS
    <3>2. /\ frame.node = Top.node /\ frame.vals = list /\ frame.i = n
          /\ DOMAIN frame = {"at", "node", "i", "vals", "todo", "bb_condition", "will_enter_scope"}
      BY <1>2, <2>11, <3>1
    <3>3. blocks'[ip] = blocks[ip] \o ins
      BY <1>2, <2>10, <2>15, EmittedThere
    <3>4. frame.i \in Nat /\ frame.i < Len(Top.node.args) /\ Len(frame.vals) = frame.i
      BY <2>11, <2>12, <2>13, <2>15, <3>2
    <3>5. ArgumentsFit(Top, frame.vals) /\ IsSeq(frame.vals)
      BY <2>13, <3>2
    <3>6. UNCHANGED lastExpression /\ NextArgument(frame)
      BY <1>1, <2>15, <3>1 DEF lastExpression
    <3>7. LastValues' /\ \E rest, kinds, l : Evaluated(rest, kinds, l)
      BY <1>1, <2>8, <2>10, <3>2, <3>3, <3>4, <3>5, <3>6, ArgumentTyped
    <3>8. QED
      BY <3>7, <1>1
  <2>16. QED
    BY <2>5, <2>14, <2>15
<1>5. QED
  BY <1>3, <1>4

LEMMA ExpressionStepTyped ==
    ASSUME BuilderInv, BuilderInv', PlacementInv, NamesInv, WaitingEmpty, TypesInv, TypeRules,
           \/ VisitNum \/ VisitVar \/ VisitElement
           \/ VisitAssignExpression \/ AssignExpressionVar \/ VisitOperator
           \/ AssignExpressionValue \/ OperatorLeft \/ OperatorRight
           \/ VisitCall \/ CallArgument
    PROVE  TypesInv'
<1>1. Proceeds
  BY WalkProceeds, EmitsProceeds
<1>2. /\ work # <<>> /\ Top.node.node \in OperandKinds /\ UNCHANGED <<scope, module, current>>
      /\ LastValues' /\ \E rest, kinds, ins : Evaluated(rest, kinds, ins)
  BY AnswersTyped, VisitsTyped, OperatorsTyped, CallsTyped
<1>3. PICK rest, kinds, ins : Evaluated(rest, kinds, ins)
  BY <1>2
<1>4. QED
  BY <1>1, <1>2, <1>3, ExpressionTyped

-----------------------------------------------------------------------------
(* An element.                                                             *)

LEMMA CheckFits ==
    ASSUME IsSeq(Forced.ins), NEW f, AllFit(Forced.ins, f), Forced.val.ty = "i32", NEW u, NEW b
    PROVE  IsSeq(CheckIndex(u, b)) /\ AllFit(CheckIndex(u, b), f)
<1>1. PICK test, compare :
          test = ICmp("icmp_slt", Forced.val, Const(0)) /\ compare = Append(Forced.ins, test)
  OBVIOUS
<1>2. "icmp_slt" \in Operands32 /\ Const(0).ty = "i32"
  BY DEF Operands32, Const, Value
<1>3. Fitting(test, f) /\ test.ty = "i1"
  <2>1. Fitting(ICmp("icmp_slt", Forced.val, Const(0)), f)
    BY <1>2, ComputedFits
  <2>2. test.ty = "i1"
    BY <1>1 DEF ICmp, Instr
  <2>3. QED
    BY <1>1, <2>1, <2>2
<1>4. IsSeq(compare) /\ AllFit(compare, f) /\ Here(compare).ty = "i1"
  BY <1>1, <1>3, AllFitAppend, HereTyped
<1>5. Fitting(CondBr(Here(compare), u, b), f)
  BY <1>4, PlacedFits
<1>6. CheckIndex(u, b) = Append(compare, CondBr(Here(compare), u, b))
  BY <1>1 DEF CheckIndex, IndexCompare
<1>7. QED
  BY <1>4, <1>5, <1>6, AllFitAppend

LEMMA PairFits ==
    ASSUME NEW f, NEW x, NEW y, Fitting(x, f), Fitting(y, f)
    PROVE  AllFit(<<x, y>>, f)
<1>1. PICK s : s = <<x, y>>
  OBVIOUS
<1>2. DOMAIN s = {1, 2} /\ s[1] = x /\ s[2] = y
  BY <1>1
<1>3. AllFit(s, f)
  BY <1>2 DEF AllFit
<1>4. QED
  BY <1>1, <1>3

\* The blocks the check leads to.
LEMMA ElementBlocksFit ==
    ASSUME BuilderInv, PlacementInv, NamesInv, LibraryNamed, ElementIndex,
           Forced.val.ty = "i32", Top.vals[1].ty \in {"i32**", "arr*"},
           NEW F, F = currentFunction, NEW b \in Created
    PROVE  AllFit(blocks'[b], F)
<1>1. PICK n : n = Len(blocks)
  OBVIOUS
<1>2. /\ n \in Nat /\ Created = {n + 1, n + 2}
      /\ blocks'[n + 1] = <<Call(Find(scope, "neg_idx_except"), <<>>), Br(n + 2)>>
  BY <1>1, ElementCode
<1>3. blocks'[n + 2] = Taken(Top.vals[1], n + 2)
  BY <1>1, AddressTaken
<1>4. CASE b = n + 1
  <2>1. PICK c, none : c = FunctionValue(3) /\ none = <<>>
    OBVIOUS
  <2>2. c.k = "fun" /\ c.ref[1] = 3
    BY <2>1 DEF FunctionValue, Value
  <2>3. 3 \in DOMAIN functions /\ functions[3] = Predefined[3]
    BY PredefinedNames DEF NamesInv, OuterNames
  <2>4. functions[3].params = <<>>
    BY <2>3 DEF Predefined, Function
  <2>5. /\ IsSeq(none) /\ Len(none) = 0 /\ IsSeq(functions[c.ref[1]].params)
        /\ Len(functions[c.ref[1]].params) = 0
    BY <2>1, <2>2, <2>4, ShortSeqs
  <2>6. Fitting(Call(c, none), F)
    <3>1. \A j \in 1..Len(none) : none[j].ty = functions[c.ref[1]].params[j]
      BY <2>5
    <3>2. QED
      BY <2>2, <2>3, <2>5, <3>1, CallFits
  <2>7. PICK x, y : x = Call(c, none) /\ y = Br(n + 2)
    OBVIOUS
  <2>8. Fitting(x, F) /\ Fitting(y, F)
    BY <2>6, <2>7, PlacedFits
  <2>9. blocks'[b] = <<x, y>>
    BY <1>2, <1>4, <2>1, <2>7, LibraryFound
  <2>10. QED
    BY <2>8, <2>9, PairFits
<1>5. CASE b = n + 2
  <2>1. PICK array, i : array = Top.vals[1] /\ i = Forced.val
    OBVIOUS
  <2>2. CASE array.ty = "arr*"
    <3>1. blocks'[b] = <<Element(array, i)>>
      BY <1>3, <1>5, <2>1, <2>2 DEF Taken
    <3>2. Fitting(Element(array, i), F)
      BY <2>1, <2>2, ComputedFits
    <3>3. QED
      BY <3>1, <3>2, AllFitShort
  <2>3. CASE array.ty = "i32**"
    <3>1. PICK base : base = Value("inst", <<n + 2, 1>>, PointeeOf[array.ty])
      OBVIOUS
    <3>2. PICK x, y : x = Load(array) /\ y = Element(base, i)
      OBVIOUS
    <3>3. blocks'[b] = <<x, y>>
      BY <1>3, <1>5, <2>1, <2>3, <3>1, <3>2 DEF Taken
    <3>4. base.ty = "i32*"
      BY <2>3, <3>1 DEF Value, PointeeOf
    <3>5. Fitting(x, F) /\ Fitting(y, F)
      BY <2>1, <2>3, <3>2, <3>4, ComputedFits
    <3>6. QED
      BY <3>3, <3>5, PairFits
  <2>4. QED
    BY <2>1, <2>2, <2>3
<1>6. QED
  BY <1>2, <1>4, <1>5

LEMMA ElementTyped ==
    ASSUME BuilderInv, BuilderInv', PlacementInv, NamesInv, WaitingEmpty, LibraryNamed, TypesInv,
           ElementIndex
    PROVE  TypesInv'
<1>1. PICK n, F : n = Len(blocks) /\ F = currentFunction
  OBVIOUS
<1>2. PICK ins, placed : ins = CheckIndex(n + 1, n + 2) /\ placed = <<n + 1, n + 2>>
  OBVIOUS
<1>3. /\ InFunction /\ currentFunction' = currentFunction /\ work # <<>>
      /\ n \in Nat /\ Created = {n + 1, n + 2} /\ Written(2, ins, placed)
  BY <1>1, <1>2, ElementCode
<1>4. Top.node.node = "var" /\ Top.at = "index" /\ Return /\ UNCHANGED <<scope, module, current>>
  BY <1>1, AddressTaken
<1>5. /\ UNCHANGED functions /\ UNCHANGED scope /\ globals' = globals /\ scope' = scope
      /\ currentParameter' = currentParameter
  BY <1>4 DEF module, current
<1>6. PICK ptr : /\ ptr = Value("inst", <<n + 2, Len(Taken(Top.vals[1], n + 2))>>, "i32*")
                 /\ currentExpression' = Load(ptr) /\ currentPointer' = Returning(ptr)
  BY <1>1, AddressTaken
<1>7. Top.node.node \in OperandKinds /\ Top.at \in ValuePlaces
  BY <1>4 DEF OperandKinds, Factors, ValuePlaces
<1>8. /\ ValueFrames /\ VariablesTyped /\ Signature /\ FramesFitting /\ CodeFitting
  BY DEF TypesInv
<1>9. /\ FrameFitting(Top, work[Len(work) - 1]) /\ Takes(Top, currentExpression.ty)
      /\ IsSeq(Forced.ins) /\ AllFit(Forced.ins, currentFunction)
      /\ Forced.val.ty = currentExpression.ty
  BY <1>3, <1>7, TypedHands
<1>10. Forced.val.ty = "i32"
  BY <1>4, <1>9 DEF Takes
<1>11. PICK W : W = Len(work)
  OBVIOUS
<1>12. Top.vals[1].ty \in {"i32**", "arr*"} /\ Takes(work[W - 1], "i32")
  BY <1>4, <1>9, <1>11 DEF FrameFitting
<1>13. CodeFitting'
  <2>1. AllFit(ins, F)
    BY <1>1, <1>2, <1>9, <1>10, CheckFits
  <2>2. \A b \in Created : AllFit(blocks'[b], F)
    BY <1>1, <1>10, <1>12, ElementBlocksFit
  <2>3. Range(placed) \subseteq Pending \cup Created
    BY <1>2, <1>3, ShortSeqs
  <2>4. currentFunction' \in {0, currentFunction}
    BY <1>3
  <2>5. QED
    BY <1>1, <1>3, <1>5, <1>8, <2>1, <2>2, <2>3, <2>4, WrittenFits
<1>14. Moves(Top, {}) /\ "param" \notin {}
  BY <1>3, <1>4, <1>8, ReturnMoves
<1>15. LastValues'
  BY <1>5, <1>6, <1>8, ValueArgs DEF LastValues, ValueFrames
<1>16. ValueFrames'
  BY <1>8, <1>14, <1>15, FramesValued
<1>17. FramesFitting' /\ HandFitting'
  <2>1. ptr.ty = "i32*" /\ PointeeOf["i32*"] = "i32"
    BY <1>6 DEF Value, PointeeOf
  <2>2. PICK e : e = currentExpression'
    OBVIOUS
  <2>3. Answers(e) /\ e.ty = "i32"
    BY <1>6, <2>1, <2>2, AnswersFacts
  <2>4. Answers(currentExpression)'
    <3>1. Answers(e)'
      BY <1>3, <1>5, <2>3, AnswersFacts
    <3>2. QED
      BY <2>2, <3>1 DEF Answers
  <2>5. Takes(work[W - 1], currentExpression'.ty)
    BY <1>12, <2>2, <2>3
  <2>6. currentPointer'.args[1].ty = "i32*"
    BY <1>6, <2>1, ValueArgs, ShortSeqs
  <2>7. FrameFitting(Top, work[W - 1])
    BY <1>9, <1>11
  <2>8. UNCHANGED <<scope, functions>>
    BY <1>5
  <2>9. QED
    BY <1>7, <1>8, <1>11, <1>14, <2>4, <2>5, <2>6, <2>7, <2>8, ExpressionFitting
<1>18. Signature'
  BY <1>3, <1>5, <1>8, <1>14, SignatureKept
<1>19. VariablesTyped'
  BY <1>5, <1>8, VariablesOn
<1>20. QED
  BY <1>13, <1>16, <1>17, <1>18, <1>19 DEF TypesInv

\* A function begins.
LEMMA FunctionTyped ==
    ASSUME BuilderInv, BuilderInv', PlacementInv, TypesInv, TypeRules, VisitFunDeclaration
    PROVE  TypesInv'
<1>1. /\ ValueFrames /\ VariablesTyped /\ MapsTyped(scope) /\ Signature /\ CodeFitting
  BY DEF TypesInv, VariablesTyped
<1>2. PICK F, n : F = Len(layout) /\ n = Len(blocks)
  OBVIOUS
<1>3. /\ F \in Nat /\ n \in Nat /\ DOMAIN layout = 1..F /\ currentFunction = 0
      /\ currentFunction' = F + 1 /\ DOMAIN layout' = 1..F + 1
      /\ layout'[F + 1] = <<n + 1>> /\ Range(layout'[F + 1]) = {n + 1}
      /\ blocks'[n + 1] = <<>> /\ \A b \in 1..n : blocks'[b] = blocks[b]
      /\ \A f \in 1..F : /\ layout'[f] = layout[f] /\ Inserted(f)' = Inserted(f)
                         /\ Inserted(f) \subseteq 1..n
      /\ work # <<>> /\ Top.node.node = "fun_declaration"
  BY <1>2, DeclarationFacts
<1>4. Top.node.node \notin OperandKinds
  BY <1>3 DEF OperandKinds, Factors, Expressions
<1>5. PICK rest : work' = Append(Callers, rest) /\ rest = [Top EXCEPT !.at = "params"]
  BY DEF VisitFunDeclaration
<1>6. rest.node = Top.node /\ rest.vals = Top.vals /\ rest.at = "params"
  BY <1>3, <1>5, OuterFacts
<1>7. PICK kinds : kinds = {}
  OBVIOUS
<1>8. Moves(rest, kinds)
  <2>1. "params" \notin ValuePlaces
    BY KindsApart
  <2>2. QED
    BY <1>1, <1>3, <1>4, <1>5, <1>6, <1>7, <2>1, StatementMoves
<1>9. LastValues'
  <2>1. UNCHANGED lastExpression /\ currentParameter' = currentParameter
    BY DEF VisitFunDeclaration
  <2>2. QED
    BY <1>1, <2>1, LastValuesKept
<1>10. ValueFrames'
  BY <1>1, <1>8, <1>9, FramesValued
<1>11. FramesFitting' /\ HandFitting'
  BY <1>1, <1>4, <1>8, StatementFitting
<1>a. PICK ty : ty = IF Top.node.type = "int" THEN "i32" ELSE "void"
  OBVIOUS
<1>b. PICK params : params = [p \in DOMAIN Top.node.params |->
                                IF Top.node.params[p].isarray THEN "i32*" ELSE "i32"]
  OBVIOUS
<1>c. PICK new : new = Function(Top.node.id, ty, params)
  OBVIOUS
<1>12. /\ new.ty = ty /\ new.params = params /\ functions' = Append(functions, new)
       /\ ty = (IF Top.node.type = "int" THEN "i32" ELSE "void")
       /\ params = [p \in DOMAIN Top.node.params |->
                       IF Top.node.params[p].isarray THEN "i32*" ELSE "i32"]
  <2>1. new.ty = ty /\ new.params = params
    BY <1>c DEF Function
  <2>2. functions' = Append(functions, new)
    <3>1. functions' = Append(functions, Function(Top.node.id,
                                IF Top.node.type = "int" THEN "i32" ELSE "void",
                                [p \in DOMAIN Top.node.params |->
                                    IF Top.node.params[p].isarray THEN "i32*" ELSE "i32"]))
      BY Zenon DEF VisitFunDeclaration
    <3>2. functions' = Append(functions, new)
      BY <3>1, <1>a, <1>b, <1>c, Zenon
    <3>3. QED
      BY <3>2
  <2>3. QED
    BY <1>a, <1>b, <2>1, <2>2
<1>13. /\ IsSeq(functions') /\ DOMAIN functions = 1..F /\ DOMAIN functions' = 1..F + 1
       /\ \A g \in 1..F : functions'[g] = functions[g]
       /\ functions'[F + 1] = new
  <2>1. IsSeq(functions) /\ Len(functions) = F
    BY <1>2 DEF BuilderInv, Shape
  <2>2. /\ IsSeq(functions') /\ Len(functions') = F + 1
        /\ \A g \in 1..F : functions'[g] = functions[g]
        /\ functions'[F + 1] = new
    BY <2>1, <1>12, AppendFacts
  <2>3. QED
    BY <2>1, <2>2, SeqFacts
<1>14. CodeFitting'
  <2>1. ASSUME NEW f \in 1..F + 1, NEW p \in InstructionsOf(f)'
        PROVE  Fitting(InstrAt(p), f)'
    <3>1. p[1] \in Inserted(f)' /\ p[2] \in DOMAIN blocks'[p[1]] /\ p = <<p[1], p[2]>>
      BY <2>1, InstructionsThen
    <3>2. CASE f \in 1..F
      <4>1. p[1] \in Inserted(f) /\ blocks'[p[1]] = blocks[p[1]]
        BY <3>1, <3>2, <1>3
      <4>2. p \in InstructionsOf(f)
        BY <3>1, <4>1, InstructionsFacts
      <4>3. PICK ins : ins = InstrAt(p)'
        OBVIOUS
      <4>4. ins = InstrAt(p)
        BY <4>1, <4>3 DEF InstrAt
      <4>5. Fitting(ins, f)
        BY <3>2, <4>2, <4>4, <1>1, <1>3 DEF CodeFitting
      <4>6. \A g \in DOMAIN functions : g \in DOMAIN functions' /\ functions'[g] = functions[g]
        BY <1>3, <1>13
      <4>7. Fitting(ins, f)'
        BY <3>2, <4>5, <4>6, <1>13, FittingKept
      <4>8. QED
        BY <4>3, <4>7
    <3>3. CASE f = F + 1
      <4>1. p[1] = n + 1
        BY <3>1, <3>3, <1>3 DEF Inserted
      <4>2. QED
        BY <3>1, <4>1, <1>3
    <3>4. QED
      BY <3>2, <3>3, <2>1, <1>3
  <2>2. QED
    BY <2>1, <1>3 DEF CodeFitting
<1>15. VariablesTyped'
  <2>1. PICK id, val : scope' = Enter(Push(scope, id, val)) /\ val.k = "fun" /\ globals' = globals
    BY DEF VisitFunDeclaration, FunctionValue, Value
  <2>2. PICK pushed : pushed = Push(scope, id, val)
    OBVIOUS
  <2>3. MapsTyped(pushed) /\ IsSeq(pushed)
    <3>1. Typed(val)
      BY <2>1 DEF Typed
    <3>2. IsSeq(scope) /\ scope # <<>>
      BY ScopeCount
    <3>3. QED
      BY <3>1, <3>2, <2>2, <1>1, PushTyped
  <2>4. PICK entered : entered = Enter(pushed)
    OBVIOUS
  <2>5. MapsTyped(entered)
    BY <2>3, <2>4, EnterTyped
  <2>6. scope' = entered
    BY <2>1, <2>2, <2>4
  <2>7. MapsTyped(entered)'
    BY <2>5, MapsTypedOn
  <2>8. MapsTyped(scope)'
    BY <2>6, <2>7
  <2>9. QED
    BY <2>1, <2>8, <1>1 DEF VariablesTyped
<1>16. Signature'
  <2>1. IsSeq(Top.node.params)
    <3>1. Running("fun_declaration", "visit")
      BY DEF VisitFunDeclaration
    <3>2. QED
      BY <3>1 DEF TypeRules
  <2>2. IsSeq(params)
    <3>1. DOMAIN params = 1..Len(Top.node.params) /\ Len(Top.node.params) \in Nat
      BY <2>1, <1>12, SeqFacts
    <3>2. params = [i \in 1..Len(Top.node.params) |-> params[i]]
      BY <3>1, <1>12
    <3>3. QED
      BY <3>1, <3>2, FunctionIsSeq
  <2>3. \A g \in DOMAIN functions' : IsSeq(functions'[g].params)
    <3>1. ASSUME NEW g \in 1..F + 1 PROVE IsSeq(functions'[g].params)
      <4>1. CASE g \in 1..F
        BY <4>1, <1>1, <1>13 DEF Signature
      <4>2. CASE g = F + 1
        BY <4>2, <2>2, <1>12, <1>13
      <4>3. QED
        BY <3>1, <4>1, <4>2, <1>3
    <3>2. QED
      BY <3>1, <1>13
  <2>4. PICK u : u = work'
    OBVIOUS
  <2>5. /\ DOMAIN u = 1..2 /\ u[1].node.node = "program" /\ u[2] = rest
    <3>1. Len(work) = 2 /\ work[1].node.node = "program"
      BY <1>3, OuterFacts
    <3>2. IsSeq(work') /\ Len(work') = 2 /\ work'[2] = rest /\ \A d \in 1..2 - 1 : work'[d] = work[d]
      BY <3>1, <1>3, <1>5, FollowingFrames
    <3>3. 1 \in 1..2 - 1
      OBVIOUS
    <3>4. work'[1] = work[1]
      BY <3>2, <3>3
    <3>5. QED
      BY <2>4, <3>1, <3>2, <3>4, SeqFacts
  <2>6. ASSUME NEW d \in DOMAIN u PROVE u[d].node.node # "param"
    <3>1. d = 1 \/ d = 2
      BY <2>5, <2>6
    <3>2. QED
      BY <3>1, <2>5, <1>3, <1>6
  <2>7. work'[2].node = Top.node /\ \A d \in DOMAIN work' : work'[d].node.node # "param"
    BY <2>4, <2>5, <2>6, <1>6
  <2>8. /\ functions'[currentFunction'].ty = (IF Top.node.type = "int" THEN "i32" ELSE "void")
        /\ functions'[currentFunction'].params =
              [p \in DOMAIN Top.node.params |-> IF Top.node.params[p].isarray THEN "i32*" ELSE "i32"]
    BY <1>3, <1>12, <1>13
  <2>9. QED
    BY <2>1, <2>3, <2>7, <2>8 DEF Signature
<1>17. QED
  BY <1>10, <1>11, <1>14, <1>15, <1>16 DEF TypesInv

-----------------------------------------------------------------------------
(* Outside functions, and all of it.                                       *)

\* The code of the module is as it was.
LEMMA SameCodeFits ==
    ASSUME CodeFitting, UNCHANGED <<layout, blocks>>, UNCHANGED functions
    PROVE  CodeFitting'
<1>1. \A f : InstructionsOf(f)' = InstructionsOf(f)
  BY DEF InstructionsOf, Inserted
<1>2. ASSUME NEW f \in DOMAIN layout', NEW p \in InstructionsOf(f)'
      PROVE  Fitting(InstrAt(p), f)'
  <2>1. PICK ins : ins = InstrAt(p)'
    OBVIOUS
  <2>2. ins = InstrAt(p)
    BY <2>1 DEF InstrAt
  <2>3. Fitting(ins, f)
    BY <1>1, <1>2, <2>2 DEF CodeFitting
  <2>4. Fitting(ins, f)'
    BY <2>3, FitsOn
  <2>5. QED
    BY <2>1, <2>4
<1>3. QED
  BY <1>2 DEF CodeFitting

\* A global variable has an address.
LEMMA GlobalTyped ==
    ASSUME BuilderInv, NamesInv, VariablesTyped, VisitGlobalVarDeclaration
    PROVE  VariablesTyped'
<1>a. PICK ty : ty = IF Top.node.num = Nullptr THEN "i32*" ELSE "arr*"
  OBVIOUS
<1>b. PICK id, num : id = Top.node.id /\ num = currentValue'
  OBVIOUS
<1>c. PICK g : g = IF NamedGlobal(Top.node.id) = {} THEN Len(globals) + 1
                   ELSE CHOOSE old \in NamedGlobal(Top.node.id) : TRUE
  OBVIOUS
<1>1. /\ ty \in {"i32*", "arr*"}
      /\ NamedGlobal(id) = {} => g = Len(globals) + 1
      /\ NamedGlobal(id) # {} => g \in NamedGlobal(id)
      /\ globals' = IF NamedGlobal(id) # {} THEN globals
                    ELSE Append(globals, [id |-> id, ty |-> ty, num |-> num])
      /\ scope' = Push(scope, id, Value("global", <<g>>, globals'[g].ty))
  <2>1. ty \in {"i32*", "arr*"}
    BY <1>a
  <2>2. globals' = IF NamedGlobal(Top.node.id) # {} THEN globals
                   ELSE Append(globals, [id |-> Top.node.id,
                                         ty |-> IF Top.node.num = Nullptr THEN "i32*" ELSE "arr*",
                                         num |-> currentValue'])
    BY Zenon DEF VisitGlobalVarDeclaration
  <2>3. globals' = IF NamedGlobal(id) # {} THEN globals
                   ELSE Append(globals, [id |-> id, ty |-> ty, num |-> num])
    BY <2>2, <1>a, <1>b, Zenon
  <2>4. scope' = Push(scope, Top.node.id,
                      Value("global",
                            <<IF NamedGlobal(Top.node.id) = {} THEN Len(globals) + 1
                              ELSE CHOOSE old \in NamedGlobal(Top.node.id) : TRUE>>,
                            globals'[IF NamedGlobal(Top.node.id) = {} THEN Len(globals) + 1
                                     ELSE CHOOSE old \in NamedGlobal(Top.node.id) : TRUE].ty))
    BY Zenon DEF VisitGlobalVarDeclaration
  <2>5. scope' = Push(scope, id, Value("global", <<g>>, globals'[g].ty))
    BY <2>4, <1>b, <1>c, Zenon
  <2>6. /\ NamedGlobal(id) = {} => g = Len(globals) + 1
        /\ NamedGlobal(id) # {} => g \in NamedGlobal(id)
    BY <1>b, <1>c
  <2>7. QED
    BY <2>1, <2>3, <2>5, <2>6
<1>2. IsSeq(globals) /\ \A old \in DOMAIN globals : globals[old].ty \in VariableTypes
  BY DEF NamesInv, VariablesTyped
<1>3. PICK G : G = Len(globals)
  OBVIOUS
<1>4. G \in Nat /\ DOMAIN globals = 1..G
  BY <1>2, <1>3, SeqFacts
<1>5. g \in DOMAIN globals' /\ \A h \in DOMAIN globals' : globals'[h].ty \in VariableTypes
  <2>1. CASE NamedGlobal(id) # {}
    <3>1. g \in NamedGlobal(id)
      BY <2>1, <1>1
    <3>2. g \in DOMAIN globals
      BY <3>1 DEF NamedGlobal
    <3>3. QED
      BY <3>2, <2>1, <1>1, <1>2
  <2>2. CASE NamedGlobal(id) = {}
    <3>1. PICK new : new = [id |-> id, ty |-> ty, num |-> num]
      OBVIOUS
    <3>2. globals' = Append(globals, new) /\ new.ty = ty /\ g = G + 1
      BY <2>2, <3>1, <1>1, <1>3
    <3>3. /\ IsSeq(globals') /\ Len(globals') = G + 1 /\ globals'[G + 1] = new
          /\ \A h \in 1..G : globals'[h] = globals[h]
      BY <3>2, <1>2, <1>3, AppendFacts
    <3>4. DOMAIN globals' = 1..G + 1
      BY <3>3, SeqFacts
    <3>5. ASSUME NEW h \in 1..G + 1 PROVE globals'[h].ty \in VariableTypes
      <4>1. CASE h \in 1..G
        BY <4>1, <3>3, <1>2, <1>4
      <4>2. CASE h = G + 1
        BY <4>2, <3>2, <3>3, <1>1 DEF VariableTypes
      <4>3. QED
        BY <4>1, <4>2, <3>5, <1>4
    <3>6. g \in 1..G + 1
      BY <3>2, <1>4
    <3>7. QED
      BY <3>4, <3>5, <3>6
  <2>3. QED
    BY <2>1, <2>2
<1>6. PICK val : val = Value("global", <<g>>, globals'[g].ty)
  OBVIOUS
<1>7. val.ty \in VariableTypes
  BY <1>5, <1>6 DEF Value
<1>8. Typed(val)
  BY <1>7 DEF Typed
<1>9. PICK pushed : pushed = Push(scope, id, val)
  OBVIOUS
<1>10. MapsTyped(pushed)
  <2>1. IsSeq(scope) /\ scope # <<>> /\ MapsTyped(scope)
    BY ScopeCount DEF VariablesTyped
  <2>2. QED
    BY <2>1, <1>8, <1>9, PushTyped
<1>11. MapsTyped(pushed)'
  BY <1>10, MapsTypedOn
<1>12. scope' = pushed
  BY <1>1, <1>6, <1>9
<1>13. MapsTyped(scope)'
  BY <1>11, <1>12
<1>14. QED
  BY <1>5, <1>13 DEF VariablesTyped

\* The declarations of the program, and its global variables.
LEMMA OuterTyped ==
    ASSUME BuilderInv, BuilderInv', PlacementInv, NamesInv, TypesInv,
           VisitProgram \/ VisitGlobalVarDeclaration
    PROVE  TypesInv'
<1>1. /\ ValueFrames /\ VariablesTyped /\ Signature /\ CodeFitting
  BY DEF TypesInv
<1>2. /\ work # <<>> /\ Top.node.node \in {"program", "var_declaration"}
      /\ UNCHANGED <<layout, blocks, ip>> /\ ~InFunction'
  BY OuterStepFacts
<1>3. UNCHANGED functions /\ currentParameter' = currentParameter
  BY DEF VisitProgram, VisitGlobalVarDeclaration, module, current
<1>4. CodeFitting'
  BY <1>1, <1>2, <1>3, SameCodeFits
<1>5. Top.node.node \notin OperandKinds
  BY <1>2 DEF OperandKinds, Factors, Expressions
<1>6. \E rest, kinds : Moves(rest, kinds) /\ "param" \notin kinds
  <2>1. CASE Return
    <3>1. PICK none : none = {}
      OBVIOUS
    <3>2. Moves(Top, {})
      BY <2>1, <1>1, <1>2, ReturnMoves
    <3>3. Moves(Top, none) /\ "param" \notin none
      BY <3>1, <3>2
    <3>4. QED
      BY <3>3
  <2>2. CASE ~Return
    <3>1. PICK rest : rest = [Top EXCEPT !.i = @ + 1]
      OBVIOUS
    <3>2. PICK child : child.node \in Declarations /\ work' = Callers \o <<rest, Frame(child)>>
      BY <2>2, <3>1 DEF VisitProgram, VisitGlobalVarDeclaration, Visit
    <3>3. Top.at = "visit"
      BY DEF VisitProgram, VisitGlobalVarDeclaration, Running
    <3>4. rest.node = Top.node /\ rest.vals = Top.vals /\ rest.at = "visit"
      BY <1>2, <3>1, <3>3, OuterFacts
    <3>5. "visit" \notin ValuePlaces
      BY KindsApart
    <3>6. Moves(rest, Declarations)
      BY <1>1, <1>2, <1>5, <3>2, <3>4, <3>5, StatementMoves
    <3>7. "param" \notin Declarations
      BY DEF Declarations
    <3>8. QED
      BY <3>6, <3>7
  <2>3. QED
    BY <2>1, <2>2
<1>7. PICK rest, kinds : Moves(rest, kinds) /\ "param" \notin kinds
  BY <1>6
<1>8. LastValues'
  <2>1. /\ currentExpression' = currentExpression \/ \E v : currentExpression' = Returning(v)
        /\ currentPointer' = currentPointer /\ currentParameter' = currentParameter
    BY DEF VisitProgram, VisitGlobalVarDeclaration, DeclareSize, lastExpression, current
  <2>2. IsSeq(currentExpression'.args) /\ currentExpression'.args # <<>>
    BY <1>1, <2>1, ValueArgs DEF ValueFrames
  <2>3. QED
    BY <1>1, <2>1, <2>2 DEF ValueFrames, LastValues
<1>9. ValueFrames'
  BY <1>1, <1>7, <1>8, FramesValued
<1>10. FramesFitting' /\ HandFitting'
  BY <1>1, <1>5, <1>7, StatementFitting
<1>11. Signature'
  BY <1>1, <1>2, <1>3, <1>7, SignatureKept
<1>12. VariablesTyped'
  <2>1. CASE VisitProgram
    <3>1. scope' = scope /\ globals' = globals
      BY <2>1 DEF VisitProgram, module
    <3>2. QED
      BY <3>1, <1>1, VariablesOn
  <2>2. CASE VisitGlobalVarDeclaration
    BY <2>2, <1>1, GlobalTyped
  <2>3. QED
    BY <2>1, <2>2
<1>13. QED
  BY <1>4, <1>9, <1>10, <1>11, <1>12 DEF TypesInv

LEMMA UnchangedTyped == ASSUME TypesInv, UNCHANGED vars PROVE TypesInv'
<1>1. /\ UNCHANGED <<work, scope, layout, blocks, ip, currentExpression, currentPointer,
                     currentFunction, currentParameter, globals>>
      /\ UNCHANGED functions
  BY DEF vars, code, lastExpression, current, module
<1>2. ValueFrames'
  BY <1>1 DEF TypesInv, ValueFrames, FrameValues
<1>3. VariablesTyped'
  BY <1>1, VariablesOn DEF TypesInv
<1>4. Signature'
  BY <1>1 DEF TypesInv, Signature, InFunction
<1>5. CodeFitting'
  BY <1>1, SameCodeFits DEF TypesInv
<1>6. UNCHANGED <<scope, functions>>
  BY <1>1
<1>7. FramesFitting'
  BY <1>1, <1>6, TakesOn DEF TypesInv, FramesFitting
<1>8. HandFitting'
  <2>1. \A e : Answers(e)' <=> Answers(e)
    BY <1>1 DEF Answers, WellTyped
  <2>2. Top' = Top
    BY <1>1 DEF Top
  <2>3. QED
    BY <1>1, <1>6, <2>1, <2>2, TakesOn DEF TypesInv, HandFitting, Running
<1>9. QED
  BY <1>2, <1>3, <1>4, <1>5, <1>7, <1>8 DEF TypesInv

LEMMA InitTyped == Init => TypesInv
<1> SUFFICES ASSUME Init PROVE TypesInv
  OBVIOUS
<1>1. PICK program \in Programs : work = <<Frame(program)>>
  BY DEF Init
<1>2. program.node = "program"
  BY ProgramsAssumption
<1>3. /\ Frame(program).node = program /\ Frame(program).at = "visit"
      /\ FrameValues(Frame(program)) /\ "visit" \notin ValuePlaces
  BY EnteredFrame
<1>4. /\ DOMAIN work = {1} /\ Len(work) = 1 /\ work[1] = Frame(program) /\ Top = Frame(program)
  <2>1. PICK x : x = Frame(program)
    OBVIOUS
  <2>2. work = <<x>> /\ IsSeq(<<x>>) /\ Len(<<x>>) = 1 /\ <<x>> # <<>>
    BY <1>1, <2>1, ShortSeqs
  <2>3. Last(work) = work[1]
    BY <2>2, LastInRange
  <2>4. QED
    BY <2>1, <2>2, <2>3 DEF Top
<1>5. ValueFrames
  <2>1. Returning(NoValue).args = <<NoValue>> /\ NoValue.k # "inst"
    BY ValueArgs DEF NoValue, Value
  <2>2. /\ IsSeq(currentExpression.args) /\ currentExpression.args # <<>>
        /\ IsSeq(currentPointer.args) /\ currentPointer.args # <<>>
        /\ currentParameter.k # "inst"
    BY <2>1, ValueArgs DEF Init
  <2>3. \A d \in 1..Len(work) - 1 : FALSE
    BY <1>4
  <2>4. QED
    BY <1>3, <1>4, <2>2, <2>3 DEF ValueFrames
<1>6. VariablesTyped
  <2>1. PICK ids : ids = {Predefined[f].id : f \in DOMAIN Predefined}
    OBVIOUS
  <2>2. PICK map : map = [n \in ids |-> FunctionValue(CHOOSE f \in DOMAIN Predefined :
                                                          Predefined[f].id = n)]
    OBVIOUS
  <2>3. \A n \in DOMAIN map : Typed(map[n])
    <3>1. \A g : FunctionValue(g).k = "fun"
      BY DEF FunctionValue, Value
    <3>2. \A n \in DOMAIN map : map[n].k = "fun"
      BY <2>2, <3>1
    <3>3. QED
      BY <3>2 DEF Typed
  <2>4. scope = <<map>>
    BY <2>1, <2>2 DEF Init
  <2>5. DOMAIN scope = 1..1 /\ scope[1] = map
    BY <2>4
  <2>6. DOMAIN scope = {1}
    BY <2>5
  <2>7. MapsTyped(scope)
    BY <2>3, <2>5, <2>6 DEF MapsTyped
  <2>8. DOMAIN globals = {}
    BY DEF Init
  <2>9. QED
    BY <2>7, <2>8 DEF VariablesTyped
<1>7. Signature
  <2>1. \A f \in DOMAIN functions : functions[f].params = <<>> \/ functions[f].params = <<"i32">>
    BY DEF Init, Predefined, Function
  <2>2. \A f \in DOMAIN functions : IsSeq(functions[f].params)
    BY <2>1, ShortSeqs
  <2>3. ~InFunction
    BY <1>4 DEF InFunction
  <2>4. \A d \in DOMAIN work : work[d].node.node # "param"
    BY <1>2, <1>3, <1>4
  <2>5. QED
    BY <2>2, <2>3, <2>4 DEF Signature
<1>8. CodeFitting
  <2>1. \A f \in DOMAIN layout : layout[f] = <<>>
    BY DEF Init
  <2>2. \A f \in DOMAIN layout : Inserted(f) = {}
    BY <2>1, ShortSeqs DEF Inserted
  <2>3. QED
    BY <2>2, InstructionsFacts DEF CodeFitting
<1>9. FramesFitting
  <2>1. \A d \in 2..Len(work) : FALSE
    BY <1>4
  <2>2. QED
    BY <2>1 DEF FramesFitting
<1>10. HandFitting
  BY <1>2, <1>3, <1>4 DEF HandFitting, Running
<1>11. QED
  BY <1>5, <1>6, <1>7, <1>8, <1>9, <1>10 DEF TypesInv

LEMMA TypesStep ==
    ASSUME BuilderInv, BuilderInv', PlacementInv, NamesInv, ElementInv, TypeRules, TypesInv,
           [Next]_vars
    PROVE  TypesInv'
<1>0. WaitingEmpty /\ LibraryNamed
  BY DEF ElementInv
<1>1. CASE VisitProgram \/ VisitGlobalVarDeclaration
  BY <1>1, OuterTyped
<1>2. CASE VisitLocalVarDeclaration \/ VisitParam
  BY <1>0, <1>2, SlotTyped
<1>3. CASE VisitFunDeclaration
  BY <1>3, FunctionTyped
<1>4. CASE FunParam \/ FunBody
  BY <1>0, <1>4, ParameterTyped, FunBodyTyped
<1>5. CASE FunEnd
  BY <1>0, <1>5, FunEndTyped
<1>6. CASE VisitCompoundStmt \/ CompoundItem \/ CompoundEnd
  BY <1>0, <1>6, CompoundTyped
<1>7. CASE VisitExpresionStmt \/ VisitReturnStmt \/ ReturnValue
  BY <1>0, <1>7, PlainTyped
<1>8. CASE \/ VisitSelectionStmt \/ SelectionCondition \/ SelectionElse \/ SelectionEnd
           \/ VisitIterationStmt \/ IterationCondition \/ IterationEnd
  BY <1>0, <1>8, BranchingTyped
<1>9. CASE \/ VisitNum \/ VisitVar \/ VisitElement
           \/ VisitAssignExpression \/ AssignExpressionVar \/ VisitOperator
           \/ AssignExpressionValue \/ OperatorLeft \/ OperatorRight
           \/ VisitCall \/ CallArgument
  BY <1>0, <1>9, ExpressionStepTyped
<1>10. CASE ElementIndex
  BY <1>0, <1>10, ElementTyped
<1>11. CASE Idle \/ UNCHANGED vars
  BY <1>11, UnchangedTyped DEF Idle
<1>12. QED
  BY <1>1, <1>2, <1>3, <1>4, <1>5, <1>6, <1>7, <1>8, <1>9, <1>10, <1>11 DEF Next

\* When a program keeps the rules of the language for types, every instruction
\* the visit methods emit has the operands it asks for, and the values they
\* hand to each other, the addresses that names mean and the signature of the
\* function being built have the types the next method relies on
\* (cminus_builder.cpp:53-381).
THEOREM TypesInvariance == Spec /\ []LetterNames /\ []TypeRules => []TypesInv
<1>1. Init => TypesInv
  BY InitTyped
<1>2. BuilderInv /\ BuilderInv' /\ PlacementInv /\ NamesInv /\ ElementInv /\ TypeRules
        /\ TypesInv /\ [Next]_vars => TypesInv'
  BY TypesStep
<1>3. QED
  BY <1>1, <1>2, BuilderInvariance, PlacementInvariance, NamesInvariance, ElementInvariance,
     PTL DEF Spec

\* In a finished module of such a program every operand has the type its
\* instruction asks for, as the verifier of LLVM wants it
\* (cminus_builder.cpp:53-381).
THEOREM OperandsFit == Spec /\ []LetterNames /\ []TypeRules => []OperandsWellTyped
<1>1. TypesInv => OperandsWellTyped
  BY DEF TypesInv, CodeFitting, Fitting, OperandsWellTyped
<1>2. QED
  BY <1>1, TypesInvariance, PTL
=============================================================================
