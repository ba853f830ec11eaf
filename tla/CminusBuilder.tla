--------------------------- MODULE CminusBuilder ---------------------------
(***************************************************************************)
(* The IR builder of lab3-1 (src/cminusc/cminus_builder.cpp): a visitor    *)
(* that walks the abstract syntax tree of a C-minus program and appends    *)
(* LLVM instructions to basic blocks through one IRBuilder.                *)
(*                                                                         *)
(* A state is the program between two visits.  The C++ call stack of visit *)
(* methods is `work': one frame per method that has been entered and has   *)
(* not returned, the running one last.  A frame holds the method's         *)
(* parameter `node', the place `at' where it goes on when the visit it     *)
(* started returns, and the locals that live across that visit.            *)
(***************************************************************************)
EXTENDS LLVM, Scope

CONSTANT Programs  \* the syntax trees the builder may be run on

\* syntax_tree::root is a syntax_program
ASSUME ProgramsAssumption == \A program \in Programs : program.node = "program"

VARIABLES
    work,              \* the visit methods that have not returned
    scope,             \* Scope::inner
    currentExpression, \* std::function that yields the last expression
    currentPointer,    \* std::function that yields the last variable's address
    currentFunction,   \* index in `functions', 0 for nullptr
    currentParameter,
    currentValue,
    isFunctionTopCompoundStatement

lastExpression == <<currentExpression, currentPointer>>
current == <<currentFunction, currentParameter, isFunctionTopCompoundStatement>>
vars == <<work, scope, module, code, lastExpression, current, currentValue>>

-----------------------------------------------------------------------------
(* The IRBuilder, as the visitor uses it.                                  *)

Back == Last(layout[currentFunction])   \* currentFunction->back()

\* Append instructions where the builder points; create blocks and insert
\* blocks into the current function.
Appending(ins) == [b \in {ip} |-> ins]
Emit(ins) == Build(currentFunction, 0, Appending(ins), <<>>)

\* Slip: the blocks are inserted, but the builder stays where it was.
InsertOnly(ins, placed) ==
    /\ blocks' = [blocks EXCEPT ![ip] = @ \o ins]
    /\ layout' = [layout EXCEPT ![currentFunction] = @ \o placed]
    /\ UNCHANGED ip
EmitAndInsert(ins, placed) == Build(currentFunction, 0, Appending(ins), placed)

\* currentExpression and currentPointer hold closures.  One that captured a
\* value returns it; one that captured operands builds a new instruction
\* every time it is called.
Returning(v) == Instr("value", <<v>>, v.ty)

\* Call currentExpression(): the instructions that builds, and its result.
Forced ==
    IF currentExpression.op = "value"
      THEN [ins |-> <<>>, val |-> currentExpression.args[1]]
      ELSE [ins |-> <<currentExpression>>, val |-> Here(<<currentExpression>>)]

\* Branch on the value of currentExpression: an i1 is used as it is, any
\* other value is compared with 0.
Compared == Append(Forced.ins, ICmp("icmp_ne", Forced.val, Const(0)))

\* Slip: a comparison's i1 is compared with 0 as well.
CompareAlways(t, f) == Append(Compared, CondBr(Here(Compared), t, f))
BranchOn(t, f) ==
    IF Forced.val.ty = "i1"
      THEN Append(Forced.ins, CondBr(Forced.val, t, f))
      ELSE Append(Compared, CondBr(Here(Compared), t, f))

\* The branch to b that ends an arm, unless the function's last block
\* already ends in a terminator.
\* Slip: the arm is left open.
NoJoin(b) == <<>>
JoinAt(b) == IF EndsInTerminator(blocks[Back]) THEN <<>> ELSE <<Br(b)>>

-----------------------------------------------------------------------------
(* The syntax tree and the call stack.  `node' names the class of a node,  *)
(* the other fields are the class's; Nullptr is an absent child.           *)

Nullptr == [node |-> "nullptr"]

Declarations == {"var_declaration", "fun_declaration"}
Statements == {"compound_stmt", "expresion_stmt", "selection_stmt",
               "iteration_stmt", "return_stmt"}
Expressions == {"assign_expression", "simple_expression"}
Factors == Expressions \cup {"var", "num", "call"}
Operators == {"simple_expression", "additive_expression", "term"}

\* What the methods have in common: the counter of a for loop, the values
\* and the blocks not yet inserted that its locals hold, and two locals of
\* the methods they are named after.
Frame(n) == [at |-> "visit", node |-> n, i |-> 0, vals |-> <<>>, todo |-> <<>>,
             bb_condition |-> 0, will_enter_scope |-> FALSE]

Top == Last(work)
Callers == Front(work)

\* The method for `kind' is running and has got to the place `at'.
Running(kind, at) == work # <<>> /\ Top.node.node = kind /\ Top.at = at

\* Visit a child whose static type has the classes `kinds', and go on from
\* the frame `rest' when that visit returns.
Visit(child, kinds, rest) ==
    /\ child.node \in kinds
    /\ work' = Callers \o <<rest, Frame(child)>>

\* A visit that is the last thing a method does.
TailVisit(child, kinds) ==
    /\ child.node \in kinds
    /\ work' = Append(Callers, Frame(child))

Return == work' = Callers

-----------------------------------------------------------------------------
(* The constructor, and the declarations.                                  *)

FunctionValue(f) == Value("fun", <<f>>, "fun*")

Predefined == << Function("input", "i32", <<>>),
                 Function("output", "void", <<"i32">>),
                 Function("neg_idx_except", "void", <<>>) >>

Init ==
    /\ work \in {<<Frame(program)>> : program \in Programs}
    /\ scope = <<[n \in {Predefined[f].id : f \in DOMAIN Predefined} |->
                    FunctionValue(CHOOSE f \in DOMAIN Predefined : Predefined[f].id = n)]>>
    /\ globals = <<>>
    /\ functions = Predefined
    /\ layout = [f \in DOMAIN Predefined |-> <<>>]
    /\ blocks = <<>>
    /\ ip = 0
    /\ currentExpression = Returning(NoValue)
    /\ currentPointer = Returning(NoValue)
    /\ currentFunction = 0
    /\ currentParameter = NoValue
    /\ currentValue = 0
    /\ isFunctionTopCompoundStatement = FALSE

VisitProgram ==
    /\ Running("program", "visit")
    /\ Top.node.declarations # <<>>
    /\ IF Top.i < Len(Top.node.declarations)
         THEN Visit(Top.node.declarations[Top.i + 1], Declarations, [Top EXCEPT !.i = @ + 1])
         ELSE Return
    /\ UNCHANGED <<scope, module, code, lastExpression, current, currentValue>>

\* The effect of visiting `num' in a declaration: an array has one.
DeclareSize(num) ==
    IF num = Nullptr
      THEN UNCHANGED <<currentExpression, currentValue>>
      ELSE /\ currentExpression' = Returning(Const(num.value))
           /\ currentValue' = num.value

\* getOrInsertGlobal: a global of that name that exists already is reused;
\* when a function holds the name there is no global to go on with (the code
\* calls methods of a null pointer).  One that is declared again with another
\* type, which no program of C-minus may do, keeps its first type here.
NamedGlobal(id) == {g \in DOMAIN globals : globals[g].id = id}

VisitGlobalVarDeclaration ==
    LET d == Top.node
        ty == IF d.num = Nullptr THEN "i32*" ELSE "arr*"
        g == IF NamedGlobal(d.id) = {} THEN Len(globals) + 1
             ELSE CHOOSE old \in NamedGlobal(d.id) : TRUE
    IN  /\ Running("var_declaration", "visit")
        /\ InGlobal(scope)
        /\ \A f \in DOMAIN functions : functions[f].id # d.id
        /\ DeclareSize(d.num)
        /\ globals' = IF NamedGlobal(d.id) # {} THEN globals
                      ELSE Append(globals, [id |-> d.id, ty |-> ty, num |-> currentValue'])
        /\ scope' = Push(scope, d.id, Value("global", <<g>>, globals'[g].ty))
        /\ Return
        /\ UNCHANGED <<functions, code, currentPointer, current>>

VisitLocalVarDeclaration ==
    LET d == Top.node
        alloca == <<IF d.num = Nullptr THEN Alloca("i32*") ELSE AllocaArray(d.num.value)>>
    IN  /\ Running("var_declaration", "visit")
        /\ ~InGlobal(scope)
        /\ DeclareSize(d.num)
        /\ Emit(alloca)
        /\ scope' = Push(scope, d.id, Here(alloca))
        /\ Return
        /\ UNCHANGED <<module, currentPointer, current>>

\* Create the function, bind its name outside its own scope, open the scope
\* of its parameters and its entry block.
VisitFunDeclaration ==
    LET d == Top.node
        f == Len(functions) + 1
        ret_type == IF d.type = "int" THEN "i32" ELSE "void"
        params_type == [p \in DOMAIN d.params |->
                          IF d.params[p].isarray THEN "i32*" ELSE "i32"]
        entry == Fresh(1)
    IN  /\ Running("fun_declaration", "visit")
        /\ functions' = Append(functions, Function(d.id, ret_type, params_type))
        /\ scope' = Enter(Push(scope, d.id, FunctionValue(f)))
        /\ currentFunction' = f
        /\ blocks' = Append(blocks, <<>>)
        /\ layout' = Append(layout, <<entry>>)
        /\ ip' = entry
        /\ work' = Append(Callers, [Top EXCEPT !.at = "params"])
        /\ UNCHANGED <<globals, lastExpression, currentParameter, currentValue,
                       isFunctionTopCompoundStatement>>

FunParam ==
    /\ Running("fun_declaration", "params")
    /\ Top.i < Len(Top.node.params)
    /\ currentParameter' = Value("arg", <<currentFunction, Top.i + 1>>,
                                 functions[currentFunction].params[Top.i + 1])
    /\ Visit(Top.node.params[Top.i + 1], {"param"}, [Top EXCEPT !.i = @ + 1])
    /\ UNCHANGED <<scope, module, code, lastExpression, currentFunction, currentValue,
                   isFunctionTopCompoundStatement>>

\* Slip: the loop over the parameters ends one too early.
FunBodyBeforeLast ==
    /\ Running("fun_declaration", "params")
    /\ Top.i >= Len(Top.node.params) - 1
    /\ isFunctionTopCompoundStatement' = TRUE
    /\ Visit(Top.node.compound_stmt, {"compound_stmt"}, [Top EXCEPT !.at = "end"])
    /\ UNCHANGED <<scope, module, code, lastExpression, currentFunction, currentParameter,
                   currentValue>>
FunBody ==
    /\ Running("fun_declaration", "params")
    /\ Top.i = Len(Top.node.params)
    /\ isFunctionTopCompoundStatement' = TRUE
    /\ Visit(Top.node.compound_stmt, {"compound_stmt"}, [Top EXCEPT !.at = "end"])
    /\ UNCHANGED <<scope, module, code, lastExpression, currentFunction, currentParameter,
                   currentValue>>

\* A function whose last block falls off its end returns 0, or nothing.
FunEnd ==
    /\ Running("fun_declaration", "end")
    /\ Emit(IF EndsInTerminator(blocks[Back]) THEN <<>>
            ELSE IF Top.node.type = "int" THEN <<Ret(Const(0))>>
            ELSE <<RetVoid>>)
    /\ scope' = Exit(scope)
    /\ currentFunction' = 0
    /\ isFunctionTopCompoundStatement' = FALSE
    /\ Return
    /\ UNCHANGED <<module, lastExpression, currentParameter, currentValue>>

\* A parameter lives in a slot of its own, initialised from the argument.
VisitParam ==
    LET slot == <<Alloca(IF Top.node.isarray THEN "i32**" ELSE "i32*")>>
    IN  /\ Running("param", "visit")
        /\ Emit(Append(slot, Store(currentParameter, Here(slot))))
        /\ scope' = Push(scope, Top.node.id, Here(slot))
        /\ Return
        /\ UNCHANGED <<module, lastExpression, current, currentValue>>

-----------------------------------------------------------------------------
(* The statements.                                                         *)

\* Only the body of a function opens a scope.
\* Slip: the flag that says so is not cleared.
VisitCompoundStmtKeepsFlag ==
    /\ Running("compound_stmt", "visit")
    /\ scope' = IF isFunctionTopCompoundStatement THEN Enter(scope) ELSE scope
    /\ work' = Append(Callers, [Top EXCEPT !.at = "items",
                                  !.will_enter_scope = isFunctionTopCompoundStatement])
    /\ UNCHANGED <<module, code, lastExpression, current, currentValue>>
VisitCompoundStmt ==
    /\ Running("compound_stmt", "visit")
    /\ isFunctionTopCompoundStatement' = FALSE
    /\ scope' = IF isFunctionTopCompoundStatement THEN Enter(scope) ELSE scope
    /\ work' = Append(Callers, [Top EXCEPT !.at = "items",
                                  !.will_enter_scope = isFunctionTopCompoundStatement])
    /\ UNCHANGED <<module, code, lastExpression, currentFunction, currentParameter,
                   currentValue>>

CompoundItem ==
    LET declarations == Top.node.local_declarations
        statements == Top.node.statement_list
        rest == [Top EXCEPT !.i = @ + 1]
    IN  /\ Running("compound_stmt", "items")
        /\ \/ /\ Top.i < Len(declarations)
              /\ Visit(declarations[Top.i + 1], {"var_declaration"}, rest)
           \/ /\ Top.i \in Len(declarations) .. Len(declarations) + Len(statements) - 1
              /\ Visit(statements[Top.i + 1 - Len(declarations)], Statements, rest)
        /\ UNCHANGED <<scope, module, code, lastExpression, current, currentValue>>

\* Slip: every compound statement leaves a scope, whether it entered one or not.
CompoundEndAlwaysExits ==
    /\ Running("compound_stmt", "items")
    /\ Top.i = Len(Top.node.local_declarations) + Len(Top.node.statement_list)
    /\ scope' = Exit(scope)
    /\ Return
    /\ UNCHANGED <<module, code, lastExpression, current, currentValue>>
CompoundEnd ==
    /\ Running("compound_stmt", "items")
    /\ Top.i = Len(Top.node.local_declarations) + Len(Top.node.statement_list)
    /\ scope' = IF Top.will_enter_scope THEN Exit(scope) ELSE scope
    /\ Return
    /\ UNCHANGED <<module, code, lastExpression, current, currentValue>>

VisitExpresionStmt ==
    /\ Running("expresion_stmt", "visit")
    /\ IF Top.node.expression = Nullptr THEN Return
       ELSE TailVisit(Top.node.expression, Expressions)
    /\ UNCHANGED <<scope, module, code, lastExpression, current, currentValue>>

\* bb_true, bb_false (with an else) and bb_end wait in `todo' for the moment
\* each is inserted into the function.
VisitSelectionStmt ==
    LET k == IF Top.node.else_statement = Nullptr THEN 2 ELSE 3
    IN  /\ Running("selection_stmt", "visit")
        /\ Build(currentFunction, k, <<>>, <<>>)
        /\ Visit(Top.node.expression, Expressions,
                 [Top EXCEPT !.at = "condition", !.todo = [j \in 1..k |-> Fresh(j)]])
        /\ UNCHANGED <<scope, module, lastExpression, current, currentValue>>

SelectionCondition ==
    LET bb == Top.todo
    IN  /\ Running("selection_stmt", "condition")
        /\ EmitAndInsert(BranchOn(bb[1], bb[2]), <<Head(bb)>>)
        /\ Visit(Top.node.if_statement, Statements, [Top EXCEPT !.at = "arm", !.todo = Tail(bb)])
        /\ UNCHANGED <<scope, module, lastExpression, current, currentValue>>

\* The first arm of an if-else is done: open the second.
SelectionElse ==
    LET bb == Top.todo
    IN  /\ Running("selection_stmt", "arm")
        /\ Len(bb) = 2
        /\ EmitAndInsert(JoinAt(bb[2]), <<Head(bb)>>)
        /\ Visit(Top.node.else_statement, Statements, [Top EXCEPT !.todo = Tail(bb)])
        /\ UNCHANGED <<scope, module, lastExpression, current, currentValue>>

\* The last arm is done: what follows goes to bb_end.
SelectionEnd ==
    LET bb == Top.todo
    IN  /\ Running("selection_stmt", "arm")
        /\ Len(bb) = 1
        /\ EmitAndInsert(JoinAt(bb[1]), bb)
        /\ Return
        /\ UNCHANGED <<scope, module, lastExpression, current, currentValue>>

VisitIterationStmt ==
    LET bb_condition == Fresh(1)
    IN  /\ Running("iteration_stmt", "visit")
        /\ Build(currentFunction, 3, Appending(<<Br(bb_condition)>>), <<bb_condition>>)
        /\ Visit(Top.node.expression, Expressions,
                 [Top EXCEPT !.at = "condition", !.bb_condition = bb_condition,
                             !.todo = <<Fresh(2), Fresh(3)>>])
        /\ UNCHANGED <<scope, module, lastExpression, current, currentValue>>

IterationCondition ==
    LET bb == Top.todo
    IN  /\ Running("iteration_stmt", "condition")
        /\ EmitAndInsert(BranchOn(bb[1], bb[2]), <<Head(bb)>>)
        /\ Visit(Top.node.statement, Statements, [Top EXCEPT !.at = "end", !.todo = Tail(bb)])
        /\ UNCHANGED <<scope, module, lastExpression, current, currentValue>>

\* Slip: bb_end is never inserted.
IterationEndLosesBlock ==
    /\ Running("iteration_stmt", "end")
    /\ Emit(JoinAt(Top.bb_condition))
    /\ Return
    /\ UNCHANGED <<scope, module, lastExpression, current, currentValue>>
IterationEnd ==
    /\ Running("iteration_stmt", "end")
    /\ EmitAndInsert(JoinAt(Top.bb_condition), Top.todo)
    /\ Return
    /\ UNCHANGED <<scope, module, lastExpression, current, currentValue>>

VisitReturnStmt ==
    /\ Running("return_stmt", "visit")
    /\ \/ /\ Top.node.expression = Nullptr
          /\ Emit(<<RetVoid>>)
          /\ Return
       \/ /\ Visit(Top.node.expression, Expressions, [Top EXCEPT !.at = "value"])
          /\ UNCHANGED code
    /\ UNCHANGED <<scope, module, lastExpression, current, currentValue>>

ReturnValue ==
    /\ Running("return_stmt", "value")
    /\ Emit(Append(Forced.ins, Ret(Forced.val)))
    /\ Return
    /\ UNCHANGED <<scope, module, lastExpression, current, currentValue>>

-----------------------------------------------------------------------------
(* The expressions.                                                        *)

VisitNum ==
    /\ Running("num", "visit")
    /\ currentExpression' = Returning(Const(Top.node.value))
    /\ currentValue' = Top.node.value
    /\ Return
    /\ UNCHANGED <<scope, module, code, currentPointer, current>>

\* A variable without an index: an array is its address, anything else is
\* loaded each time its value is asked for.
VisitVar ==
    LET pointer == Find(scope, Top.node.id)
    IN  /\ Running("var", "visit")
        /\ Resolves(scope, Top.node.id)
        /\ Top.node.expression = Nullptr
        /\ currentExpression' = IF pointer.ty = "arr*" THEN Returning(pointer) ELSE Load(pointer)
        /\ currentPointer' = Returning(pointer)
        /\ Return
        /\ UNCHANGED <<scope, module, code, current, currentValue>>

\* The name is looked up before the index is visited and followed after it
\* (cminus_builder.cpp:246,266); an unbound one ends the walk in between.
VisitElement ==
    /\ Running("var", "visit")
    /\ Resolves(scope, Top.node.id)
    /\ Visit(Top.node.expression, Expressions,
             [Top EXCEPT !.at = "index", !.vals = <<Find(scope, Top.node.id)>>])
    /\ UNCHANGED <<scope, module, code, lastExpression, current, currentValue>>

\* Compare the index with 0 and branch.
IndexCompare == Append(Forced.ins, ICmp("icmp_slt", Forced.val, Const(0)))

\* Slip: the branches are swapped.
CheckIndexSwapped(bb_underflow, bb_end) ==
    Append(IndexCompare, CondBr(Here(IndexCompare), bb_end, bb_underflow))
CheckIndex(bb_underflow, bb_end) ==
    Append(IndexCompare, CondBr(Here(IndexCompare), bb_underflow, bb_end))

\* Check the index, call neg_idx_except when it is negative, and take the
\* element's address in the block both ways lead to.
ElementIndex ==
    LET array == Top.vals[1]
        bb_underflow == Fresh(1)
        bb_end == Fresh(2)
        check == CheckIndex(bb_underflow, bb_end)
        underflow == <<Call(Find(scope, "neg_idx_except"), <<>>), Br(bb_end)>>
        base == Value("inst", <<bb_end, 1>>, PointeeOf[array.ty])
        element == IF array.ty = "arr*" THEN <<Element(array, Forced.val)>>
                   ELSE <<Load(array), Element(base, Forced.val)>>
        ptr == Value("inst", <<bb_end, Len(element)>>, "i32*")
    IN  /\ Running("var", "index")
        /\ Resolves(scope, "neg_idx_except")
        /\ Build(currentFunction, 2,
                 [b \in {ip, bb_underflow, bb_end} |->
                    IF b = ip THEN check ELSE IF b = bb_end THEN element ELSE underflow],
                 <<bb_underflow, bb_end>>)
        /\ currentExpression' = Load(ptr)
        /\ currentPointer' = Returning(ptr)
        /\ Return
        /\ UNCHANGED <<scope, module, current, currentValue>>

VisitAssignExpression ==
    /\ Running("assign_expression", "visit")
    /\ Visit(Top.node.var, {"var"}, [Top EXCEPT !.at = "var"])
    /\ UNCHANGED <<scope, module, code, lastExpression, current, currentValue>>

AssignExpressionVar ==
    /\ Running("assign_expression", "var")
    /\ Visit(Top.node.expression, Expressions,
             [Top EXCEPT !.at = "value", !.vals = currentPointer.args])
    /\ UNCHANGED <<scope, module, code, lastExpression, current, currentValue>>

AssignExpressionValue ==
    /\ Running("assign_expression", "value")
    /\ Emit(Append(Forced.ins, Store(Forced.val, Top.vals[1])))
    /\ Return
    /\ UNCHANGED <<scope, module, lastExpression, current, currentValue>>

\* simple_expression, additive_expression and term: one or two operands.
Operands(n) ==
    LET l == IF n.node = "simple_expression" THEN n.additive_expression_l
             ELSE IF n.node = "additive_expression" THEN n.additive_expression
             ELSE n.term
        r == IF n.node = "simple_expression" THEN n.additive_expression_r
             ELSE IF n.node = "additive_expression" THEN n.term
             ELSE n.factor
    IN  SelectSeq(<<l, r>>, LAMBDA child : child # Nullptr)

OperandKinds == {"additive_expression", "term"} \cup Factors

VisitOperator ==
    LET operands == Operands(Top.node)
    IN  /\ \E kind \in Operators : Running(kind, "visit")
        /\ IF Len(operands) = 1
             THEN TailVisit(operands[1], OperandKinds)
             ELSE Visit(operands[1], OperandKinds, [Top EXCEPT !.at = "left"])
        /\ UNCHANGED <<scope, module, code, lastExpression, current, currentValue>>

OperatorLeft ==
    /\ \E kind \in Operators : Running(kind, "left")
    /\ Emit(Forced.ins)
    /\ Visit(Operands(Top.node)[2], OperandKinds,
             [Top EXCEPT !.at = "right", !.vals = <<Forced.val>>])
    /\ UNCHANGED <<scope, module, lastExpression, current, currentValue>>

\* What the enumerators of relop, addop and mulop are compiled to.
OperationsOf == [simple_expression   |-> {"icmp_sle", "icmp_slt", "icmp_sgt",
                                          "icmp_sge", "icmp_eq", "icmp_ne"},
                 additive_expression |-> {"add", "sub"},
                 term                |-> {"mul", "sdiv"}]

\* A comparison is emitted at once; a sum or a product only when its value
\* is asked for.
OperatorRight ==
    LET l == Top.vals[1]
        r == Forced.val
        compare == Append(Forced.ins, ICmp(Top.node.op, l, r))
    IN  /\ \E kind \in Operators : Running(kind, "right")
        /\ Top.node.op \in OperationsOf[Top.node.node]
        /\ \/ /\ Top.node.node = "simple_expression"
              /\ Emit(compare)
              /\ currentExpression' = Returning(Here(compare))
           \/ /\ Top.node.node # "simple_expression"
              /\ Emit(Forced.ins)
              /\ currentExpression' = Instr(Top.node.op, <<l, r>>, l.ty)
        /\ Return
        /\ UNCHANGED <<scope, module, currentPointer, current, currentValue>>

\* arg->accept for the first argument that is left.
NextArgument(frame) ==
    Visit(frame.node.args[frame.i + 1], Expressions, [frame EXCEPT !.i = @ + 1, !.at = "args"])

EmitCall(ins, args) ==
    LET call == Append(ins, Call(Find(scope, Top.node.id), args))
    IN  /\ Resolves(scope, Top.node.id)
        /\ Emit(call)
        /\ currentExpression' = Returning(Here(call))
        /\ Return

VisitCall ==
    /\ Running("call", "visit")
    /\ IF Top.node.args = <<>>
         THEN EmitCall(<<>>, <<>>)
         ELSE NextArgument(Top) /\ UNCHANGED <<code, currentExpression>>
    /\ UNCHANGED <<scope, module, currentPointer, current, currentValue>>

\* An argument has been visited.  An array is passed as the address of its
\* first element.
CallArgument ==
    LET decay == Append(Forced.ins, Element(Forced.val, Const(0)))
        array == Forced.val.ty = "arr*"
        ins == IF array THEN decay ELSE Forced.ins
        arg_list == Append(Top.vals, IF array THEN Here(decay) ELSE Forced.val)
    IN  /\ Running("call", "args")
        /\ IF Top.i = Len(Top.node.args)
             THEN EmitCall(ins, arg_list)
             ELSE /\ NextArgument([Top EXCEPT !.vals = arg_list])
                  /\ Emit(ins)
                  /\ UNCHANGED currentExpression
        /\ UNCHANGED <<scope, module, currentPointer, current, currentValue>>

-----------------------------------------------------------------------------
\* build(): the module is finished and nothing changes it any more.
Finished == work = <<>>
Idle == Finished /\ UNCHANGED vars

Next ==
    \/ VisitProgram \/ VisitGlobalVarDeclaration \/ VisitLocalVarDeclaration
    \/ VisitFunDeclaration \/ FunParam \/ FunBody \/ FunEnd \/ VisitParam
    \/ VisitCompoundStmt \/ CompoundItem \/ CompoundEnd
    \/ VisitExpresionStmt
    \/ VisitSelectionStmt \/ SelectionCondition \/ SelectionElse \/ SelectionEnd
    \/ VisitIterationStmt \/ IterationCondition \/ IterationEnd
    \/ VisitReturnStmt \/ ReturnValue
    \/ VisitNum \/ VisitVar \/ VisitElement \/ ElementIndex
    \/ VisitAssignExpression \/ AssignExpressionVar \/ AssignExpressionValue
    \/ VisitOperator \/ OperatorLeft \/ OperatorRight
    \/ VisitCall \/ CallArgument
    \/ Idle

Spec == Init /\ [][Next]_vars
FairSpec == Spec /\ WF_vars(Next)
=============================================================================
