----------------------------- MODULE Execution -----------------------------
(***************************************************************************)
(* What a finished module does when it is linked with the runtime library  *)
(* (lab3-1/src/io/io.c) and run: LLVM's instructions on a memory of        *)
(* objects, one stack frame per call, and the library's three functions.   *)
(*                                                                         *)
(* The module is the one CminusBuilder builds, or one of the modules the   *)
(* programs of lab3-0 write by hand.                                       *)
(***************************************************************************)
EXTENDS CminusBuilder, MachineIntegers

CONSTANTS
    Inputs,       \* the sequences of numbers standard input may hold
    HandWritten   \* modules built by hand

VARIABLES
    memory,   \* the objects: the globals, then a new one for each alloca
    stack,    \* the calls that have not returned, the running one last
    stdin,    \* what has not been read yet
    printed,  \* the lines written to standard output
    outcome   \* <<>>, or how the process has ended

machine == <<memory, stack, stdin, printed, outcome>>
builder == <<work, scope, module, code, lastExpression, current, currentValue>>

\* A call: the place of its next instruction, what the instructions so far
\* have yielded, and the arguments.
Activation(f, args) == [b |-> layout[f][1], j |-> 1, regs |-> <<>>, args |-> args]

Active == Last(stack)
Instruction == blocks[Active.b][Active.j]
Executing(ops) == stack # <<>> /\ outcome = <<>> /\ Instruction.op \in ops

\* An address is an object and a place in it; a scalar has the place 0.
Contents(v) ==
    CASE v.k = "const"  -> v.ref[1]
      [] v.k = "inst"   -> Active.regs[v.ref]
      [] v.k = "arg"    -> Active.args[v.ref[2]]
      [] v.k = "global" -> <<v.ref[1], 0>>
Val(n) == Contents(Instruction.args[n])
Valid(address) == address[2] + 1 \in DOMAIN memory[address[1]]

Goto(b, j) == [Active EXCEPT !.b = b, !.j = j]
Yielding(frame, v) == [frame EXCEPT !.regs = (<<frame.b, frame.j>> :> v) @@ @, !.j = @ + 1]
Continue(frame) == stack' = Append(Front(stack), frame)
Yield(v) == Continue(Yielding(Active, v))
Proceed == Continue(Goto(Active.b, Active.j + 1))
End(how) == outcome' = how /\ UNCHANGED <<stack, memory>>

-----------------------------------------------------------------------------
Computed(op, l, r) ==
    CASE op = "add"  -> Wrapped(l + r)
      [] op = "sub"  -> Wrapped(l - r)
      [] op = "mul"  -> Wrapped(l * r)
      [] op = "sdiv" -> Quotient(l, r)
      [] op = "icmp_slt" -> l < r
      [] op = "icmp_sle" -> l <= r
      [] op = "icmp_sgt" -> l > r
      [] op = "icmp_sge" -> l >= r
      [] op = "icmp_eq"  -> l = r
      [] op = "icmp_ne"  -> l # r

-----------------------------------------------------------------------------
\* The process starts: all globals are 0, whatever their size.
Main == CHOOSE f \in DOMAIN functions : functions[f].id = "main"
Start ==
    /\ Finished
    /\ stack = <<>> /\ outcome = <<>>
    /\ memory' = [g \in DOMAIN globals |->
                    [n \in 1..IF globals[g].ty = "arr*" THEN globals[g].num ELSE 1 |-> 0]]
    /\ stack' = <<Activation(Main, <<>>)>>
    /\ UNCHANGED <<stdin, printed, outcome>>

Allocate ==
    /\ Executing({"alloca"})
    /\ memory' = Append(memory, [n \in 1..IF Instruction.args = <<>> THEN 1 ELSE Val(1) |-> Undef])
    /\ Yield(<<Len(memory'), 0>>)
    /\ UNCHANGED <<stdin, printed, outcome>>

LoadFrom ==
    /\ Executing({"load"})
    /\ IF Valid(Val(1)) /\ memory[Val(1)[1]][Val(1)[2] + 1] # Undef
         THEN Yield(memory[Val(1)[1]][Val(1)[2] + 1]) /\ UNCHANGED <<memory, outcome>>
         ELSE End(<<"undefined">>)
    /\ UNCHANGED <<stdin, printed>>

StoreTo ==
    /\ Executing({"store"})
    /\ IF Valid(Val(2))
         THEN /\ memory' = [memory EXCEPT ![Val(2)[1]][Val(2)[2] + 1] = Val(1)]
              /\ Proceed
              /\ UNCHANGED outcome
         ELSE End(<<"undefined">>)
    /\ UNCHANGED <<stdin, printed>>

Compute ==
    /\ Executing({"add", "sub", "mul", "sdiv", "icmp_slt", "icmp_sle", "icmp_sgt", "icmp_sge",
                  "icmp_eq", "icmp_ne"})
    /\ IF Instruction.op = "sdiv" /\ ~HasQuotient(Val(1), Val(2))
         THEN End(<<"undefined">>)
         ELSE Yield(Computed(Instruction.op, Val(1), Val(2))) /\ UNCHANGED <<memory, outcome>>
    /\ UNCHANGED <<stdin, printed>>

ElementOf ==
    /\ Executing({"gep"})
    /\ Yield(<<Val(1)[1], Val(1)[2] + Val(Len(Instruction.args))>>)
    /\ UNCHANGED <<memory, stdin, printed, outcome>>

Branch ==
    /\ Executing({"br"})
    /\ Continue(Goto(IF Len(Instruction.to) = 1 \/ Val(1) THEN Instruction.to[1]
                     ELSE Instruction.to[2], 1))
    /\ UNCHANGED <<memory, stdin, printed, outcome>>

\* The caller goes on behind its call; main ends the process.
ReturnTo ==
    LET v == IF Instruction.args = <<>> THEN Undef ELSE Val(1)
    IN  /\ Executing({"ret"})
        /\ IF Len(stack) = 1
             THEN End(<<"returned", v>>)
             ELSE /\ stack' = Append(SubSeq(stack, 1, Len(stack) - 2),
                                     Yielding(stack[Len(stack) - 1], v))
                  /\ UNCHANGED <<memory, outcome>>
        /\ UNCHANGED <<stdin, printed>>

-----------------------------------------------------------------------------
(* Calls: of a function of the module, or of the library.                  *)

Callee == Instruction.args[1].ref[1]
Arguments == [n \in 1..Len(Instruction.args) - 1 |-> Val(n + 1)]
Calling(id) == Executing({"call"}) /\ layout[Callee] = <<>> /\ functions[Callee].id = id

CallFunction ==
    /\ Executing({"call"})
    /\ layout[Callee] # <<>>
    /\ stack' = Append(stack, Activation(Callee, Arguments))
    /\ UNCHANGED <<memory, stdin, printed, outcome>>

\* A line is the number in it; the line "negative index exception" has none.
Message == <<>>

\* scanf leaves the variable as it was when there is nothing to read.
CallInput ==
    /\ Calling("input")
    /\ IF stdin = <<>>
         THEN End(<<"undefined">>) /\ UNCHANGED stdin
         ELSE Yield(Head(stdin)) /\ stdin' = Tail(stdin) /\ UNCHANGED <<memory, outcome>>
    /\ UNCHANGED printed

CallOutput ==
    /\ Calling("output")
    /\ printed' = Append(printed, <<Val(2)>>)
    /\ Yield(Undef)
    /\ UNCHANGED <<memory, stdin, outcome>>

\* Slip: the function returns to the code that found the index negative.
CallNegIdxExceptReturns ==
    /\ Calling("neg_idx_except")
    /\ printed' = Append(printed, Message)
    /\ Yield(Undef)
    /\ UNCHANGED <<memory, stdin, outcome>>
CallNegIdxExcept ==
    /\ Calling("neg_idx_except")
    /\ printed' = Append(printed, Message)
    /\ End(<<"exited">>)
    /\ UNCHANGED stdin

-----------------------------------------------------------------------------
RunInit ==
    /\ \/ Init
       \/ \E m \in HandWritten :
            /\ work = <<>> /\ globals = <<>>
            /\ functions = m.functions /\ layout = m.layout /\ blocks = m.blocks
            /\ scope = <<>> /\ ip = 0 /\ currentFunction = 0 /\ currentValue = 0
            /\ currentExpression = Returning(NoValue) /\ currentPointer = Returning(NoValue)
            /\ currentParameter = NoValue /\ isFunctionTopCompoundStatement = FALSE
    /\ memory = <<>> /\ stack = <<>> /\ printed = <<>> /\ outcome = <<>>
    /\ stdin \in Inputs

Execute ==
    \/ Start \/ Allocate \/ LoadFrom \/ StoreTo \/ Compute \/ ElementOf \/ Branch \/ ReturnTo
    \/ CallFunction \/ CallInput \/ CallOutput \/ CallNegIdxExcept

RunNext ==
    \/ ~Finished /\ Next /\ UNCHANGED machine
    \/ Execute /\ UNCHANGED builder
    \/ outcome # <<>> /\ UNCHANGED <<machine, builder>>

RunSpec == RunInit /\ [][RunNext]_<<builder, machine>> /\ WF_<<builder, machine>>(RunNext)
=============================================================================
