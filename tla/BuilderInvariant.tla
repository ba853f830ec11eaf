-------------------------- MODULE BuilderInvariant --------------------------
(***************************************************************************)
(* Why the properties of BuilderProperties hold: an invariant that every   *)
(* step of CminusBuilder preserves, whatever the programs.                 *)
(***************************************************************************)
EXTENDS BuilderProperties, SequenceLemmas

\* Once a function declaration has been entered, its frame is the second.
InFunction ==
    Len(work) >= 2 /\ work[2].node.node = "fun_declaration" /\ work[2].at # "visit"

\* The frames: the program, one declaration, and statements and expressions
\* only above a function that has been entered.
Walk ==
    /\ IsSeq(work)
    /\ work # <<>> => work[1].node.node = "program"
    /\ Len(work) >= 2 => work[2].node.node \in Declarations
    /\ Len(work) >= 3 => InFunction
    /\ \A d \in 3..Len(work) : work[d].node.node \notin {"program", "fun_declaration"}

\* The body of a function, and nothing else, opens a scope of its own.
Scoping ==
    /\ IsSeq(scope)
    /\ isFunctionTopCompoundStatement \in BOOLEAN
    /\ isFunctionTopCompoundStatement => Len(work) = 3 /\ Running("compound_stmt", "visit")
    /\ \A d \in DOMAIN work :
          /\ work[d].will_enter_scope \in BOOLEAN
          /\ work[d].will_enter_scope =>
                d = 3 /\ work[d].node.node = "compound_stmt" /\ work[d].at # "visit"
    /\ Len(scope) = IF ~InFunction THEN 1
                    ELSE IF Len(work) >= 3 /\ work[3].will_enter_scope THEN 3 ELSE 2

\* Functions have lists of blocks, blocks have lists of instructions.
Shape ==
    /\ IsSeq(functions) /\ IsSeq(layout) /\ IsSeq(blocks)
    /\ layout # <<>> /\ Len(functions) = Len(layout)
    /\ \A b \in DOMAIN blocks : IsSeq(blocks[b])
    /\ \A f \in DOMAIN layout : IsSeq(layout[f]) /\ Inserted(f) \subseteq DOMAIN blocks
    /\ ip \in {0} \cup DOMAIN blocks

\* The function being built is the last one, and the builder points at the
\* last of its blocks.
Position ==
    /\ currentFunction = IF InFunction THEN Len(layout) ELSE 0
    /\ InsertPointAtBack

\* No block is inserted twice.
Once ==
    \A f, g \in DOMAIN layout : \A i \in DOMAIN layout[f], j \in DOMAIN layout[g] :
        layout[f][i] = layout[g][j] => f = g /\ i = j

\* The blocks a frame still holds: as many as its method needs, each held
\* once, and none of them inserted yet into a function of lay.
Holds(frame, lay, n) ==
    /\ DOMAIN frame = DOMAIN Frame(Nullptr)
    /\ IsSeq(frame.todo)
    /\ Range(frame.todo) \subseteq 1..n
    /\ \A i, j \in DOMAIN frame.todo : frame.todo[i] = frame.todo[j] => i = j
    /\ \A f \in DOMAIN lay : Range(frame.todo) \cap Range(lay[f]) = {}
    /\ frame.at = "condition" =>
          Len(frame.todo) \in (IF frame.node.node = "iteration_stmt" THEN {2} ELSE {2, 3})
    /\ frame.node.node = "iteration_stmt" /\ frame.at = "end" => Len(frame.todo) = 1
    /\ frame.i \in Nat /\ frame.bb_condition \in 0..n

Held ==
    /\ \A d \in DOMAIN work : Holds(work[d], layout, Len(blocks))
    /\ \A d, e \in DOMAIN work :
          d # e => Range(work[d].todo) \cap Range(work[e].todo) = {}

\* All of it, as every visit method leaves it for the next one (the whole of
\* cminus_builder.cpp).
BuilderInv == Walk /\ Scoping /\ Shape /\ Position /\ Once /\ Held /\ WellFormedBlocks

-----------------------------------------------------------------------------
(* Where blocks and branches are, beyond BuilderInv.                       *)

\* The blocks of the last function: those inserted, the first of which is
\* its entry block, and those the running methods are going to insert.  A
\* branch may lead to any of them but the entry block.
Mine == Inserted(Len(layout)) \cup Pending
Entry == layout[Len(layout)][1]
Reserve == Mine \ {Entry}

\* Only a statement that branches holds blocks, and a loop comes back to its
\* condition, which is in S.
FrameOK(frame, S) ==
    /\ frame.todo # <<>> => /\ frame.node.node \in {"selection_stmt", "iteration_stmt"}
                            /\ frame.at # "visit"
    /\ frame.node.node = "iteration_stmt" /\ frame.at # "visit" => frame.bb_condition \in S

Frames == \A d \in DOMAIN work : FrameOK(work[d], Reserve)

\* A block that exists is inserted, or a method holds it.
NoneLost == \A b \in DOMAIN blocks : b \in Pending \/ \E f \in DOMAIN layout : b \in Inserted(f)

\* What currentExpression builds is not a branch, nor an element's address.
ValueStays == currentExpression.to = <<>> /\ currentExpression.op # "gep"

\* Branches stay in a finished function, and in what the one being built has.
Leading ==
    /\ \A f \in DOMAIN layout : f # currentFunction =>
          \A b \in Inserted(f) : Targets(b) \subseteq Inserted(f) \ {layout[f][1]}
    /\ InFunction => \A b \in Mine : Targets(b) \subseteq Reserve

\* Together with BuilderInv: which blocks the visit methods have in hand, and
\* where branches may lead meanwhile (cminus_builder.cpp:159-265).
PlacementInv == Frames /\ NoneLost /\ ValueStays /\ Leading
-----------------------------------------------------------------------------
(* What the names mean, beyond BuilderInv.                                 *)

\* A value that stands for the function or the global called n.
Named(val, n, fs, gs) ==
    \/ val.k = "fun" /\ val.ref[1] \in DOMAIN fs /\ fs[val.ref[1]].id = n
    \/ val.k = "global" /\ val.ref[1] \in DOMAIN gs /\ gs[val.ref[1]].id = n

Ids(list) == {list[j].id : j \in DOMAIN list}

\* The names of the module, those of the run-time library among them.
OuterNames(map, fs, gs) ==
    /\ DOMAIN map = Ids(fs) \cup Ids(gs)
    /\ \A n \in DOMAIN map : Named(map[n], n, fs, gs)
    /\ \A f \in DOMAIN Predefined : /\ f \in DOMAIN fs /\ fs[f] = Predefined[f]
                                   /\ map[Predefined[f].id] = FunctionValue(f)

\* The names of a function: each has a slot that has been allocated in one
\* of the function's blocks.
Slot(val, own, blks) ==
    /\ val.k = "inst" /\ val.ref[1] \in Range(own)
    /\ val.ref[2] \in DOMAIN blks[val.ref[1]]
    /\ blks[val.ref[1]][val.ref[2]].op = "alloca"

InnerNames(map, own, blks) == \A n \in DOMAIN map : Slot(map[n], own, blks)

\* Together with BuilderInv: what Scope::push binds and what is left of it
\* when functions, globals and blocks are added (cminus_builder.hpp:15-52,
\* cminus_builder.cpp:40-139).
NamesInv ==
    /\ IsSeq(globals)
    /\ OuterNames(scope[1], functions, globals)
    /\ \A l \in 2..Len(scope) : InnerNames(scope[l], layout[currentFunction], blocks)

-----------------------------------------------------------------------------
(* What has been declared, beyond BuilderInv.                              *)

\* The name whose declaration is being visited.
Visited(kind) == IF work # <<>> /\ Top.node.node = kind THEN {Top.node.id} ELSE {}

\* In a function, the body is the third frame; the visits of declarations
\* visit nothing else.
Leaves == \A d \in 1..Len(work) - 1 : work[d].node.node \notin {"param", "var_declaration"}

Unstarted ==
    \A d \in DOMAIN work :
        work[d].node.node \in {"fun_declaration", "compound_stmt"} /\ work[d].at = "visit" =>
            work[d].i = 0

Body ==
    Len(work) >= 3 =>
        /\ work[3].node.node \in {"param", "compound_stmt"}
        /\ work[3].node.node = "compound_stmt" =>
              IF work[3].at = "visit" THEN isFunctionTopCompoundStatement
              ELSE work[3].will_enter_scope

Depths ==
    /\ Visited("param") # {} => Len(work) = 3
    /\ Visited("var_declaration") # {} => Len(work) \in {2, 4}

\* The scopes of a function and of its body hold the names that have been
\* declared there so far.
DeclaredNames ==
    /\ InFunction => DeclaredIn(work[2]) = DOMAIN scope[2] \cup Visited("param")
    /\ Len(scope) = 3 => DeclaredIn(work[3]) = DOMAIN scope[3] \cup Visited("var_declaration")

\* Together with BuilderInv, of programs that declare nothing in nested
\* blocks: the declarations that have been visited, and the names they have
\* left (cminus_builder.cpp:53-152).
DeclarationInv == Leaves /\ Unstarted /\ Body /\ Depths /\ DeclaredNames

\* Only the body of a function declares names, in a list of declarations.
Flat ==
    \A d \in DOMAIN work :
        work[d].node.node = "compound_stmt" =>
            /\ IsSeq(work[d].node.local_declarations)
            /\ d >= 4 => work[d].node.local_declarations = <<>>

\* By the time a variable is used the walk has come by a declaration of its
\* name, in the function or outside it.
Bound ==
    Running("var", "visit") =>
        Top.node.id \in DOMAIN scope[1] \cup UNION {DeclaredIn(work[d]) : d \in DOMAIN work}

\* What a program owes to the scopes: no declarations in nested blocks, none
\* after the use of its name; and the walk to the program: all parameters, then
\* the body, and in it the declarations first (cminus_builder.cpp:100-111,142-147).
DeclaredBeforeUse == Flat /\ Bound
=============================================================================
