--------------------------- MODULE CminusMeaning ---------------------------
(***************************************************************************)
(* What a C-minus program means, as lab3-1/docs/cminus.md:60-160 says it,  *)
(* computed on the abstract syntax tree: the reference for the code that   *)
(* is compiled from it.                                                    *)
(*                                                                         *)
(* A state s has the objects that exist, the numbers that can still be     *)
(* read, the lines printed, and `halt': <<>>, or how the function or the   *)
(* process has come to its end.  An environment env maps the names of      *)
(* variables in scope (here), and those outside all functions (global), to *)
(* their objects, and the names of functions to their declarations.        *)
(***************************************************************************)
EXTENDS MachineIntegers, Sequences, SequencesExt

Missing == [node |-> "nullptr"]
IsMissing(tree) == tree.node = "nullptr"

Valued(v, s) == [v |-> v, s |-> s]
Halted(s, how) == Valued(Undef, [s EXCEPT !.halt = how])

\* Go on with the value and the state of r, unless the program has ended.
And(r, Rest(_, _)) == IF r.s.halt # <<>> THEN r ELSE Rest(r.v, r.s)

BinaryOperator(op, l, r) ==
    CASE op = "add"  -> Wrapped(l + r)
      [] op = "sub"  -> Wrapped(l - r)
      [] op = "mul"  -> Wrapped(l * r)
      [] op = "sdiv" -> Quotient(l, r)
      [] op = "icmp_slt" -> IF l < r THEN 1 ELSE 0
      [] op = "icmp_sle" -> IF l <= r THEN 1 ELSE 0
      [] op = "icmp_sgt" -> IF l > r THEN 1 ELSE 0
      [] op = "icmp_sge" -> IF l >= r THEN 1 ELSE 0
      [] op = "icmp_eq"  -> IF l = r THEN 1 ELSE 0
      [] op = "icmp_ne"  -> IF l # r THEN 1 ELSE 0

\* One new object for each declaration: the names, and the state after.
Declared(declarations, s, content) ==
    LET sizes == [d \in DOMAIN declarations |->
                    IF IsMissing(declarations[d].num) THEN 1 ELSE declarations[d].num.value]
        objects == [d \in DOMAIN declarations |-> [n \in 1..sizes[d] |-> content]]
        last(x) == CHOOSE d \in DOMAIN declarations :
                      declarations[d].id = x /\ \A e \in DOMAIN declarations :
                                                   declarations[e].id = x => e <= d
        names == {declarations[d].id : d \in DOMAIN declarations}
    IN  [here |-> [x \in names |-> [obj |-> Len(s.store) + last(x),
                                    array |-> ~IsMissing(declarations[last(x)].num)]],
         s |-> [s EXCEPT !.store = @ \o objects]]

RECURSIVE Eval(_, _, _), Exec(_, _, _), EvalAll(_, _, _), ExecAll(_, _, _)

\* The object and the place of a variable.
AddressOf(var, env, s) ==
    IF IsMissing(var.expression) THEN Valued(<<env.here[var.id].obj, 0>>, s)
    ELSE And(Eval(var.expression, env, s), LAMBDA index, t :
           IF index < 0 THEN Halted([t EXCEPT !.printed = Append(@, <<>>)], <<"exited">>)
           ELSE IF index >= Len(t.store[env.here[var.id].obj]) THEN Halted(t, <<"undefined">>)
           ELSE Valued(<<env.here[var.id].obj, index>>, t))

ValueAt(address, s) ==
    LET v == s.store[address[1]][address[2] + 1]
    IN  IF v = Undef THEN Halted(s, <<"undefined">>) ELSE Valued(v, s)

\* The two operands of an operator, from left to right, if there are two.
Sides(e) ==
    CASE e.node = "simple_expression" -> <<e.additive_expression_l, e.additive_expression_r>>
      [] e.node = "additive_expression" -> <<e.additive_expression, e.term>>
      [] e.node = "term" -> <<e.term, e.factor>>

EvalOperator(e, env, s) ==
    LET present == SelectSeq(Sides(e), LAMBDA side : ~IsMissing(side))
    IN  IF Len(present) = 1 THEN Eval(present[1], env, s)
        ELSE And(EvalAll(present, env, s), LAMBDA v, t :
               IF e.op = "sdiv" /\ ~HasQuotient(v[1], v[2]) THEN Halted(t, <<"undefined">>)
               ELSE Valued(BinaryOperator(e.op, v[1], v[2]), t))

\* Scalars are passed by value in an object of their own, arrays by reference.
Invoke(f, args, env, s) ==
    LET bound == [p \in DOMAIN f.params |->
                    IF f.params[p].isarray THEN [obj |-> args[p], array |-> TRUE]
                    ELSE [obj |-> Len(s.store) + p, array |-> FALSE]]
        place(x) == CHOOSE p \in DOMAIN f.params : f.params[p].id = x
        scope == [x \in {f.params[p].id : p \in DOMAIN f.params} |-> bound[place(x)]] @@ env.global
        after == Exec(f.compound_stmt, [env EXCEPT !.here = scope],
                      [s EXCEPT !.store = @ \o [p \in DOMAIN args |-> <<args[p]>>]])
    IN  CASE after.halt = <<>> /\ f.type = "int" -> Halted(after, <<"undefined">>)
          [] after.halt # <<>> /\ after.halt[1] = "returned" ->
                Valued(after.halt[2], [after EXCEPT !.halt = <<>>])
          [] OTHER -> Valued(Undef, after)

\* The functions see the global names only.
EvalCall(e, env, s) ==
    And(EvalAll(e.args, env, s), LAMBDA v, t :
        CASE e.id = "output" -> Valued(Undef, [t EXCEPT !.printed = Append(@, <<v[1]>>)])
          [] e.id = "input" -> IF t.in = <<>> THEN Halted(t, <<"undefined">>)
                               ELSE Valued(Head(t.in), [t EXCEPT !.in = Tail(@)])
          [] OTHER -> Invoke(env.functions[e.id], v, env, t))

Eval(e, env, s) ==
    CASE e.node = "num" -> Valued(Wrapped(e.value), s)
      [] e.node = "var" ->
           IF IsMissing(e.expression) /\ env.here[e.id].array THEN Valued(env.here[e.id].obj, s)
           ELSE And(AddressOf(e, env, s), LAMBDA address, t : ValueAt(address, t))
      [] e.node = "assign_expression" ->
           And(AddressOf(e.var, env, s), LAMBDA address, t :
             And(Eval(e.expression, env, t), LAMBDA v, u :
               Valued(v, [u EXCEPT !.store[address[1]][address[2] + 1] = v])))
      [] e.node = "call" -> EvalCall(e, env, s)
      [] OTHER -> EvalOperator(e, env, s)

EvalAll(list, env, s) ==
    IF list = <<>> THEN Valued(<<>>, s)
    ELSE And(Eval(Head(list), env, s), LAMBDA v, t :
           And(EvalAll(Tail(list), env, t), LAMBDA rest, u : Valued(<<v>> \o rest, u)))

Exec(stmt, env, s) ==
    CASE stmt.node = "compound_stmt" ->
           LET d == Declared(stmt.local_declarations, s, Undef)
           IN  ExecAll(stmt.statement_list, [env EXCEPT !.here = d.here @@ @], d.s)
      [] stmt.node = "expresion_stmt" ->
           IF IsMissing(stmt.expression) THEN s ELSE Eval(stmt.expression, env, s).s
      [] stmt.node = "selection_stmt" ->
           And(Eval(stmt.expression, env, s), LAMBDA v, t :
             Valued(v, IF v # 0 THEN Exec(stmt.if_statement, env, t)
                       ELSE IF IsMissing(stmt.else_statement) THEN t
                       ELSE Exec(stmt.else_statement, env, t))).s
      [] stmt.node = "iteration_stmt" ->
           And(Eval(stmt.expression, env, s), LAMBDA v, t :
             Valued(v, IF v = 0 THEN t ELSE ExecAll(<<stmt.statement, stmt>>, env, t))).s
      [] stmt.node = "return_stmt" ->
           IF IsMissing(stmt.expression) THEN [s EXCEPT !.halt = <<"returned", Undef>>]
           ELSE And(Eval(stmt.expression, env, s), LAMBDA v, t : Halted(t, <<"returned", v>>)).s

ExecAll(list, env, s) ==
    IF list = <<>> \/ s.halt # <<>> THEN s ELSE ExecAll(Tail(list), env, Exec(Head(list), env, s))

\* The lines a program prints for an input, and how it ends.
Meaning(program, in) ==
    LET variables == SelectSeq(program.declarations, LAMBDA d : d.node = "var_declaration")
        functions == SelectSeq(program.declarations, LAMBDA d : d.node = "fun_declaration")
        empty == [store |-> <<>>, in |-> in, printed |-> <<>>, halt |-> <<>>]
        start == Declared(variables, empty, 0)
        table == [x \in {functions[f].id : f \in DOMAIN functions} |->
                    functions[CHOOSE f \in DOMAIN functions : functions[f].id = x]]
        env == [here |-> start.here, global |-> start.here, functions |-> table]
        end == Invoke(table["main"], <<>>, env, start.s)
    IN  [printed |-> end.s.printed,
         outcome |-> IF end.s.halt = <<>> THEN <<"returned", end.v>> ELSE end.s.halt]
=============================================================================
