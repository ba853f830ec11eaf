------------------------- MODULE BuilderProperties -------------------------
(***************************************************************************)
(* What CminusBuilder keeps true while it walks a program: where it puts   *)
(* basic blocks, how they end and lead to each other, and which names it   *)
(* knows.                                                                  *)
(***************************************************************************)
EXTENDS CminusBuilder

\* The blocks that have been created and not yet inserted into a function.
Pending == UNION {Range(work[d].todo) : d \in DOMAIN work}

Inserted(f) == Range(layout[f])

\* The state is made of frames, scopes, blocks and references into them.
TypeOK ==
    /\ \A d \in DOMAIN work : /\ work[d].i \in Nat
                              /\ Range(work[d].todo) \subseteq DOMAIN blocks
                              /\ work[d].bb_condition \in {0} \cup DOMAIN blocks
                              /\ work[d].will_enter_scope \in BOOLEAN
    /\ scope # <<>>
    /\ DOMAIN layout = DOMAIN functions
    /\ \A f \in DOMAIN layout : Inserted(f) \subseteq DOMAIN blocks
    /\ ip \in {0} \cup DOMAIN blocks
    /\ currentFunction \in {0} \cup DOMAIN functions
    /\ isFunctionTopCompoundStatement \in BOOLEAN

\* Inside a function the IRBuilder appends to the function's last block: the
\* code asks currentFunction->back() whether a branch is missing and appends
\* that branch where the IRBuilder points (cminus_builder.cpp:175,202,229).
InsertPointAtBack ==
    currentFunction # 0 => layout[currentFunction] # <<>> /\ ip = Back

\* Every block that is behind the builder ends in a terminator: all blocks
\* of a finished function, and all but the last of the current one.
WellFormedBlocks ==
    \A f \in DOMAIN layout : \A j \in DOMAIN layout[f] :
        \/ f = currentFunction /\ j = Len(layout[f])
        \/ EndsInTerminator(blocks[layout[f][j]])

\* A block that a visit method creates has one place: the method that
\* created it still holds it, or it has been inserted into one function,
\* once.  So none is lost (LLVM would leave branches to a block that is in
\* no function) and none is inserted twice.
PlacesInLayout(b) ==
    UNION {{<<"layout", f, j>> : j \in {i \in DOMAIN layout[f] : layout[f][i] = b}} :
              f \in DOMAIN layout}
PlacesInWork(b) ==
    UNION {{<<"work", d, j>> : j \in {i \in DOMAIN work[d].todo : work[d].todo[i] = b}} :
              d \in DOMAIN work}
OnePlaceForEachBlock ==
    \A b \in DOMAIN blocks :
        \E place \in PlacesInLayout(b) \cup PlacesInWork(b) :
            PlacesInLayout(b) \cup PlacesInWork(b) = {place}

\* A branch leads to a block of its own function that is not the entry
\* block, or to one that a running method is still going to insert there.
Targets(b) == UNION {Range(ins.to) : ins \in Range(blocks[b])}

BranchTargetsInserted ==
    \A f \in DOMAIN layout : \A b \in Inserted(f) :
        Targets(b) \subseteq (Inserted(f) \ {layout[f][1]})
                             \cup (IF f = currentFunction THEN Pending ELSE {})

\* Nothing is ever removed from a block or put into one, except at the end
\* of the last block of the function being built.
AppendOnly ==
    [][\A b \in DOMAIN blocks : blocks'[b] # blocks[b] =>
          currentFunction # 0 /\ b = Back /\ IsPrefix(blocks[b], blocks'[b])]_vars

\* The table of names follows the walk.  Outside functions it is the global
\* scope alone, which binds each name to the module's global or function of
\* that name; inside one, every name of the inner scopes is bound to a slot
\* allocated in the current function.
ModuleName(val) == IF val.k = "fun" THEN functions[val.ref[1]].id ELSE globals[val.ref[1]].id

IsSlotOf(val, f) ==
    /\ val.k = "inst"
    /\ val.ref[1] \in Inserted(f)
    /\ blocks[val.ref[1]][val.ref[2]].op = "alloca"

ScopesFollowTheWalk ==
    /\ InGlobal(scope) <=> currentFunction = 0
    /\ DOMAIN scope[1] = {functions[f].id : f \in DOMAIN functions}
                         \cup {globals[g].id : g \in DOMAIN globals}
    /\ \A n \in DOMAIN scope[1] : ModuleName(scope[1][n]) = n
    /\ \A l \in DOMAIN scope \ {1} : \A n \in DOMAIN scope[l] :
          IsSlotOf(scope[l][n], currentFunction)

\* C-minus is statically scoped (docs/cminus.md:79,89): a use of a variable
\* means the innermost declaration around it.  DeclaredIn is what a running
\* method has declared so far; a function and each compound statement has a
\* scope of its own.  (Line 79 gives parameters the scope of the body, the
\* code opens one for each: a body may declare the name of a parameter again.)
DeclaredIn(frame) ==
    CASE frame.node.node = "fun_declaration" ->
           {frame.node.params[p].id : p \in 1..frame.i}
      [] frame.node.node = "compound_stmt" ->
           {frame.node.local_declarations[d].id :
              d \in {e \in DOMAIN frame.node.local_declarations : e <= frame.i}}
      [] OTHER -> {}

ScopesAround(d) ==
    {e \in 1..d : work[e].node.node \in {"program", "fun_declaration", "compound_stmt"}}

StaticScoping ==
    Running("var", "visit") =>
        LET name == Top.node.id
            declaring == {d \in DOMAIN work : name \in DeclaredIn(work[d])}
            level == IF declaring = {} THEN 1 ELSE Cardinality(ScopesAround(Max(declaring)))
        IN  /\ level \in DOMAIN scope
            /\ name \in DOMAIN scope[level]
            /\ Find(scope, name) = scope[level][name]

\* A declaration ends with its block (docs/cminus.md:89: local declarations
\* have the scope of the statement list next to them): where no declaration
\* around a use has its name, no scope but the global one knows it.  Nothing
\* is said of how many scopes there are, or of what the name means elsewhere.
DeclarationsEndWithTheirBlock ==
    Running("var", "visit") =>
        LET name == Top.node.id
        IN  (\A d \in DOMAIN work : name \notin DeclaredIn(work[d])) =>
                Declaring(scope, name) \subseteq {1}

\* The visitor gets through every program of Programs: it does not run into
\* a name that is not bound, and it does not run for ever.
RunsToTheEnd == <>Finished
=============================================================================
