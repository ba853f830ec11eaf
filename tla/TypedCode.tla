----------------------------- MODULE TypedCode -----------------------------
(***************************************************************************)
(* Why the operands of emitted instructions have the types LLVM asks for:  *)
(* what a C-minus program owes to the types, and what the visit methods    *)
(* keep of it while they hand values to each other.                        *)
(***************************************************************************)
EXTENDS EmittedCode

\* The type of the value of a variable with that address.
ValueType(pointer) == IF pointer.ty = "arr*" THEN "arr*" ELSE PointeeOf[pointer.ty]

VariableTypes == {"i32*", "i32**", "arr*"}

\* What is called by a method that waits for an argument, or is to visit one.
Called(frame) == functions[Find(scope, frame.node.id).ref[1]]

\* A method that waits at that place can go on with a value of type ty.
Takes(frame, ty) ==
    /\ frame.at \in {"index", "left", "right", "value", "var"} => ty = "i32"
    /\ frame.at = "condition" => ty \in {"i32", "i1"}
    /\ frame.at = "args" =>
          Called(frame).params[frame.i] = IF ty = "arr*" THEN "i32*" ELSE ty

\* A name that is called is a function's, with as many parameters.
Callable(frame) ==
    /\ Find(scope, frame.node.id).k = "fun"
    /\ IsSeq(frame.node.args)
    /\ Len(frame.node.args) = Len(Called(frame).params)

OperationType(n) == IF n.node = "simple_expression" THEN "i1" ELSE "i32"

-----------------------------------------------------------------------------
\* What a program owes to the types (docs/cminus.md:79-128), at the place
\* where the walk is: variables, calls and operations have the type that the
\* expression or statement around them asks for, which for a comparison can
\* only be a condition; and a function returns what it has been declared with.
TypeRules ==
    LET caller == work[Len(work) - 1]
    IN  /\ Running("num", "visit") \/ Running("assign_expression", "visit") =>
              Takes(caller, "i32")
        /\ Running("var", "visit") =>
              LET pointer == Find(scope, Top.node.id)
              IN  /\ pointer.k # "fun"
                  /\ IF Top.node.expression = Nullptr THEN Takes(caller, ValueType(pointer))
                     ELSE pointer.ty # "i32*" /\ Takes(caller, "i32")
        /\ \A kind \in Operators :
              Running(kind, "visit") /\ Len(Operands(Top.node)) # 1 =>
                  Takes(caller, OperationType(Top.node))
        /\ Running("call", "visit") => Callable(Top) /\ Takes(caller, Called(Top).ty)
        /\ Running("return_stmt", "visit") /\ Top.node.expression = Nullptr =>
              functions[currentFunction].ty = "void"
        /\ Running("return_stmt", "value") => functions[currentFunction].ty # "void"
        /\ Running("fun_declaration", "visit") => IsSeq(Top.node.params)

\* All that the proofs ask of a program, at the place where the walk is: names
\* of letters, declarations before uses and outside nested blocks, and types
\* that match. In return the walk owes it the scopes in which that is so: all
\* parameters and then the body, each function's names gone when it ends
\* (cminus_builder.cpp:92-147).
LanguageRules == LetterNames /\ DeclaredBeforeUse /\ TypeRules

-----------------------------------------------------------------------------
\* Every instruction has the operands it asks for, and what it calls exists.
Opcodes == Operands32 \cup {"alloca", "load", "store", "gep", "call", "br", "ret"}

Fitting(ins, f) ==
    /\ ins.op \in Opcodes /\ WellTyped(ins, f)
    /\ ins.op = "call" => ins.args[1].ref[1] \in DOMAIN functions

CodeFitting == \A f \in DOMAIN layout : \A p \in InstructionsOf(f) : Fitting(InstrAt(p), f)

\* A name that is not a function's is a variable's, which has an address.
Typed(val) == val.k # "fun" => val.ty \in VariableTypes
MapsTyped(inner) == \A l \in DOMAIN inner : \A n \in DOMAIN inner[l] : Typed(inner[l][n])

VariablesTyped == MapsTyped(scope) /\ \A g \in DOMAIN globals : globals[g].ty \in VariableTypes

\* The function being built is what its declaration says, and so is the
\* parameter that comes next.
Signature ==
    /\ \A f \in DOMAIN functions : IsSeq(functions[f].params)
    /\ InFunction =>
          LET d == work[2].node
          IN  /\ functions[currentFunction].ty = (IF d.type = "int" THEN "i32" ELSE "void")
              /\ IsSeq(d.params)
              /\ functions[currentFunction].params =
                    [p \in DOMAIN d.params |-> IF d.params[p].isarray THEN "i32*" ELSE "i32"]
    /\ \A d \in DOMAIN work :
          work[d].node.node = "param" =>
              currentParameter.ty = (IF work[d].node.isarray THEN "i32*" ELSE "i32")

\* The values a method has taken along have the types it needs, and what it
\* will leave has the one its caller waits for.
FrameFitting(frame, caller) ==
    /\ frame.node.node = "var" /\ frame.at = "index" =>
          frame.vals[1].ty \in {"i32**", "arr*"} /\ Takes(caller, "i32")
    /\ frame.node.node = "assign_expression" /\ frame.at # "visit" =>
          Takes(caller, "i32") /\ (frame.at = "value" => frame.vals[1].ty = "i32*")
    /\ frame.node.node \in Operators /\ frame.at # "visit" =>
          /\ Takes(caller, OperationType(frame.node))
          /\ frame.at = "right" => frame.vals[1].ty = "i32"
    /\ frame.node.node = "call" /\ frame.at = "visit" => frame.i = 0 /\ frame.vals = <<>>
    /\ frame.node.node = "call" /\ frame.at # "visit" =>
          /\ Callable(frame) /\ Takes(caller, Called(frame).ty)
          /\ frame.i \in 1..Len(frame.node.args) /\ Len(frame.vals) = frame.i - 1
          /\ \A j \in 1..Len(frame.vals) : frame.vals[j].ty = Called(frame).params[j]

FramesFitting == \A d \in 2..Len(work) : FrameFitting(work[d], work[d - 1])

\* What currentExpression will answer has the type it says.
Answers(e) == IF e.op = "value" THEN e.args[1].ty = e.ty
              ELSE e.op \in {"load", "add", "sub", "mul", "sdiv"} /\ WellTyped(e, currentFunction)

HandFitting ==
    /\ work # <<>> /\ Top.at \in ValuePlaces =>
          Answers(currentExpression) /\ Takes(Top, currentExpression.ty)
    /\ Running("assign_expression", "var") => currentPointer.args[1].ty = "i32*"

\* What the visit methods keep for the operands of all instructions to have the
\* types these ask for (cminus_builder.cpp:53-381).
TypesInv ==
    ValueFrames /\ VariablesTyped /\ Signature /\ CodeFitting /\ FramesFitting /\ HandFitting
=============================================================================
