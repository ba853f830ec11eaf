---------------------------- MODULE EmittedCode ----------------------------
(***************************************************************************)
(* What LLVM and the language ask of the code CminusBuilder has emitted    *)
(* once it is finished: the rules of the LLVM verifier on terminators,     *)
(* operand types and dominance, and C-minus's check of array indices.      *)
(***************************************************************************)
EXTENDS BuilderInvariant

InstructionsOf(f) == UNION {{<<b, j>> : j \in DOMAIN blocks[b]} : b \in Inserted(f)}
InstrAt(p) == blocks[p[1]][p[2]]

\* A terminator is the last instruction of its block.
NothingAfterTerminator ==
    Finished => \A f \in DOMAIN layout : \A p \in InstructionsOf(f) :
        InstrAt(p).op \in {"br", "ret"} => p[2] = Len(blocks[p[1]])

\* Every operand has the type its instruction asks for.
Operands32 == {"add", "sub", "mul", "sdiv", "icmp_sle", "icmp_slt", "icmp_sgt",
               "icmp_sge", "icmp_eq", "icmp_ne"}

WellTyped(ins, f) ==
    LET types == [j \in DOMAIN ins.args |-> ins.args[j].ty]
    IN  CASE ins.op \in Operands32 -> types = <<"i32", "i32">>
          [] ins.op = "alloca" -> Range(types) \subseteq {"i32"}
          [] ins.op = "load"   -> types \in {<<"i32*">>, <<"i32**">>}
          [] ins.op = "store"  -> types \in {<<"i32", "i32*">>, <<"i32*", "i32**">>}
          [] ins.op = "gep"    -> types \in {<<"arr*", "i32", "i32">>, <<"i32*", "i32">>}
          [] ins.op = "call"   -> /\ ins.args[1].k = "fun"
                                  /\ Tail(types) = functions[ins.args[1].ref[1]].params
          [] ins.op = "br"     -> types \in {<<>>, <<"i1">>} /\ Len(ins.to) = Len(types) + 1
          [] ins.op = "ret"    -> types = IF functions[f].ty = "void" THEN <<>>
                                          ELSE <<functions[f].ty>>

OperandsWellTyped ==
    Finished => \A f \in DOMAIN layout : \A p \in InstructionsOf(f) : WellTyped(InstrAt(p), f)

-----------------------------------------------------------------------------
(* Dominance: every path from the entry of a function to a use of a value  *)
(* goes through the instruction that computes it.                          *)

\* S has f's entry and every block a branch in S leads to, unless it is d: all
\* blocks on paths that do not enter d are in S.
Evades(S, f, d) == {layout[f][1]} \cup UNION {Targets(b) : b \in S} \subseteq S \cup {d}

Dominates(f, def, use) ==
    IF def[1] = use[1] THEN def[2] < use[2]
    ELSE \E S \in SUBSET Inserted(f) : Evades(S, f, def[1]) /\ use[1] \notin S

DefinitionsDominateUses ==
    Finished => \A f \in DOMAIN layout : \A p \in InstructionsOf(f) :
        \A v \in {v \in Range(InstrAt(p).args) : v.k = "inst"} :
            v.ref \in InstructionsOf(f) /\ Dominates(f, v.ref, p)

-----------------------------------------------------------------------------
\* An element is addressed only in the block to which the check of that very
\* index leads: the way that finds it negative calls neg_idx_except first,
\* and no other way leads there (docs/cminus.md:128, docs/design.md:223).
Preceding(f, b) == {c \in Inserted(f) : b \in Targets(c)}

ChecksIndex(c, index, u, b) ==
    LET branch == Last(blocks[c])
    IN  /\ Range(branch.to) = {u, b} /\ branch.to[1] = u /\ branch.args[1].k = "inst"
        /\ LET test == InstrAt(branch.args[1].ref)
           IN  test.op = "icmp_slt" /\ test.args = <<index, Const(0)>>

CallsNegIdxExcept(u) ==
    \E ins \in Range(blocks[u]) :
        ins.op = "call" /\ functions[ins.args[1].ref[1]].id = "neg_idx_except"

ElementsGuarded ==
    Finished => \A f \in DOMAIN layout : \A p \in InstructionsOf(f) :
        LET index == Last(InstrAt(p).args)
        IN  InstrAt(p).op = "gep" /\ index # Const(0) =>
            \E c, u \in Inserted(f) :
                /\ Preceding(f, p[1]) = {c, u} /\ c # u
                /\ ChecksIndex(c, index, u, p[1])
                /\ Preceding(f, u) = {c}
                /\ CallsNegIdxExcept(u)

-----------------------------------------------------------------------------
(* Why elements are guarded, beyond BuilderInv, PlacementInv and NamesInv. *)

\* An element is taken of an address that need not be the first one's.
Indexed(ins) == ins.op = "gep" /\ Last(ins.args) # Const(0)

\* The blocks that loops are going to branch back to.
Loops == {work[d].bb_condition :
             d \in {e \in DOMAIN work : work[e].node.node = "iteration_stmt" /\ work[e].at # "visit"}}

\* Block b of function f is reached only by way of the check of that index,
\* which is finished: no branch to b or to the call is going to be added.
Guarded(f, b, index) ==
    \E c, u \in Inserted(f) :
        /\ c # u /\ {b, u} \cap Loops = {}
        /\ f = currentFunction => ip \notin {c, u}
        /\ Preceding(f, b) = {c, u} /\ Preceding(f, u) = {c}
        /\ ChecksIndex(c, index, u, b) /\ Last(blocks[c]).args[1].ref[1] = c
        /\ \E ins \in Range(blocks[u]) : ins.op = "call" /\ ins.args[1] = FunctionValue(3)

\* The blocks the visit methods hold are empty, and neg_idx_except means the
\* function of the run-time library, also inside a function.
WaitingEmpty == \A b \in Pending : blocks[b] = <<>>
Unshadowed(inner) == \A l \in 2..Len(inner) : "neg_idx_except" \notin DOMAIN inner[l]
LibraryNamed == Unshadowed(scope)

Checked(f, b) == \A ins \in Range(blocks[b]) : Indexed(ins) => Guarded(f, b, Last(ins.args))
AllGuarded == \A f \in DOMAIN layout : \A b \in Inserted(f) : Checked(f, b)

\* No variable or parameter is called neg_idx_except: the lexer makes an
\* identifier of letters only (lexical_analyzer.l:99).
LetterNames ==
    \A d \in DOMAIN work :
        work[d].node.node \in {"var_declaration", "param"} => work[d].node.id # "neg_idx_except"

\* What the visit of an array element leaves for all that comes after it
\* (cminus_builder.cpp:243-290).
ElementInv == WaitingEmpty /\ LibraryNamed /\ AllGuarded

-----------------------------------------------------------------------------
(* Why definitions dominate uses, beyond BuilderInv, PlacementInv, NamesInv *)
(* and DeclarationInv.                                                      *)

\* The blocks of f to which branches may still be added.
Open(f) == IF f = currentFunction THEN Pending \cup Loops ELSE {}

\* Block d of f will dominate block u whichever blocks come.
Lasting(f, d, u) ==
    \/ d = layout[f][1]
    \/ \E S \in SUBSET (Inserted(f) \cup Open(f)) :
          Evades(S, f, d) /\ Open(f) \subseteq S \cup {d} /\ u \notin S

\* The instruction at place p of function f can have v for an operand.
Usable(v, f, p) ==
    v.k = "inst" =>
        /\ v.ref \in InstructionsOf(f)
        /\ IF v.ref[1] = p[1] THEN v.ref[2] < p[2] ELSE Lasting(f, v.ref[1], p[1])

UsesBehind ==
    \A f \in DOMAIN layout : \A p \in InstructionsOf(f) :
        \A v \in Range(InstrAt(p).args) : Usable(v, f, p)

\* What the visit methods have in hand can be used where the builder points.
Ready(list) ==
    \A v \in Range(list) : Usable(v, currentFunction, <<ip, Len(blocks[ip]) + 1>>)

\* The places where a method goes on with the value of an expression.
ValuePlaces == {"condition", "value", "index", "left", "right", "args"}

InHand ==
    /\ \A d \in DOMAIN work : Ready(work[d].vals)
    /\ work # <<>> /\ Top.at \in ValuePlaces => Ready(currentExpression.args)
    /\ Running("assign_expression", "var") => Ready(currentPointer.args)

\* Only expressions hold values, and they visit nothing but expressions: what
\* goes on with a value has just had an expression visited.
FrameValues(frame) ==
    /\ IsSeq(frame.vals)
    /\ frame.node.node \notin OperandKinds => frame.vals = <<>>
    /\ \/ frame.at \in {"index", "right"}
       \/ frame.node.node = "assign_expression" /\ frame.at = "value"
       => frame.vals # <<>>

ValueFrames ==
    /\ \A d \in DOMAIN work : FrameValues(work[d])
    /\ \A d, e \in DOMAIN work :
          d <= e /\ work[d].node.node \in OperandKinds => work[e].node.node \in OperandKinds
    /\ \A d \in 1..Len(work) - 1 :
          /\ work[d].at \in ValuePlaces => work[d + 1].node.node \in OperandKinds
          /\ work[d].at = "var" => work[d + 1].node.node = "var"
    /\ IsSeq(currentExpression.args) /\ currentExpression.args # <<>>
    /\ IsSeq(currentPointer.args) /\ currentPointer.args # <<>>
    /\ currentParameter.k # "inst"

\* The declarations of a function are visited before anything opens a block
\* besides its entry block, so that is where its slots are.
BeforeStatements ==
    \/ work[2].at = "params"
    \/ /\ Len(work) >= 3 /\ work[3].node.node = "compound_stmt"
       /\ work[3].i <= Len(work[3].node.local_declarations)

Opening ==
    InFunction =>
        /\ Len(work) >= 3 => (work[2].at = "params" <=> work[3].node.node = "param")
        /\ Len(work) >= 4 /\ Top.node.node = "var_declaration" => BeforeStatements
        /\ BeforeStatements =>
              /\ Len(layout[currentFunction]) = 1
              /\ Len(work) >= 4 => Top.node.node = "var_declaration"

SlotsInEntry ==
    \A l \in 2..Len(scope) : \A n \in DOMAIN scope[l] :
        scope[l][n].ref \in {layout[currentFunction][1]} \X Nat

\* What the visit methods leave for a use to come after its definition
\* (cminus_builder.cpp:100-152,243-381).
DominanceInv ==
    WaitingEmpty /\ UsesBehind /\ InHand /\ ValueFrames /\ Opening /\ SlotsInEntry
=============================================================================
