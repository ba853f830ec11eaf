-------------------------------- MODULE LLVM --------------------------------
(***************************************************************************)
(* The part of LLVM's C++ interface that the IR builder of lab3-1 uses: a  *)
(* module with its globals and functions, the basic blocks of a function,  *)
(* and an IRBuilder that appends instructions to one block.                *)
(*                                                                         *)
(* Left out: the names LLVM gives to values, and the folding IRBuilder     *)
(* does for instructions whose operands are all constants (the instruction *)
(* stands for the constant).                                               *)
(***************************************************************************)
EXTENDS Integers, Sequences, SequencesExt

VARIABLES
    globals,    \* the module's global variables, in order of creation
    functions,  \* the module's functions, in order of creation
    layout,     \* for each function, the list of its basic blocks
    blocks,     \* the instructions of each basic block ever created
    ip          \* the block the IRBuilder appends to, 0 for none

module == <<globals, functions>>
code   == <<layout, blocks, ip>>

Function(id, ty, params) == [id |-> id, ty |-> ty, params |-> params]

-----------------------------------------------------------------------------
(* LLVM values, types and instructions.                                    *)

\* A value is told apart by its kind and a reference: the number of a
\* constant, the block and position of an instruction, the function and
\* position of an argument, the index of a global or of a function.
\* A pointer to [n x i32] has the type "arr*", whatever n.
Value(k, ref, ty) == [k |-> k, ref |-> ref, ty |-> ty]

NoValue == Value("nullptr", <<>>, "void")
Const(n) == Value("const", <<n>>, "i32")

PointeeOf == [t \in {"i32*", "i32**", "arr*", "fun*"} |->
                CASE t = "i32*"  -> "i32"
                  [] t = "i32**" -> "i32*"
                  [] t = "arr*"  -> "arr"
                  [] t = "fun*"  -> "fun"]

\* `to' holds the successors of a terminator.
Branching(op, args, to) == [op |-> op, args |-> args, to |-> to, ty |-> "void"]
Instr(op, args, ty) == [op |-> op, args |-> args, to |-> <<>>, ty |-> ty]

Alloca(ty)      == Instr("alloca", <<>>, ty)
AllocaArray(n)  == Instr("alloca", <<Const(n)>>, "arr*")
Load(p)         == Instr("load", <<p>>, PointeeOf[p.ty])
Store(v, p)     == Instr("store", <<v, p>>, "void")
ICmp(op, l, r)  == Instr(op, <<l, r>>, "i1")
Element(p, i)   == Instr("gep", IF p.ty = "arr*" THEN <<p, Const(0), i>> ELSE <<p, i>>,
                         "i32*")
Call(f, args)   == Instr("call", <<f>> \o args, functions[f.ref[1]].ty)
Br(b)           == Branching("br", <<>>, <<b>>)
CondBr(c, t, f) == Branching("br", <<c>>, <<t, f>>)
Ret(v)          == Branching("ret", <<v>>, <<>>)
RetVoid         == Branching("ret", <<>>, <<>>)

\* BasicBlock::getTerminator: the last instruction if it is a terminator.
EndsInTerminator(b) == b # <<>> /\ Last(b).op \in {"br", "ret"}

-----------------------------------------------------------------------------
(* The IRBuilder.                                                          *)

\* The names of the blocks the next BasicBlock::Create calls return.
Fresh(k) == Len(blocks) + k

\* The value of the last of the instructions `ins' once they are appended
\* to the block the builder points at.
Here(ins) == Value("inst", <<ip, Len(blocks[ip]) + Len(ins)>>, Last(ins).ty)

\* Create k blocks, append added[b] to each block b of DOMAIN added, and
\* append the blocks `placed' to function f, pointing the builder at the
\* last of them.
Build(f, k, added, placed) ==
    /\ blocks' = [b \in 1..Fresh(k) |->
                    (IF b <= Len(blocks) THEN blocks[b] ELSE <<>>)
                    \o (IF b \in DOMAIN added THEN added[b] ELSE <<>>)]
    /\ layout' = [layout EXCEPT ![f] = @ \o placed]
    /\ ip' = IF placed = <<>> THEN ip ELSE Last(placed)
=============================================================================
