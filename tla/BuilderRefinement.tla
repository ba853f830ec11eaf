------------------------- MODULE BuilderRefinement --------------------------
(***************************************************************************)
(* CminusBuilder creates blocks long before it fills them and inserts them *)
(* while other methods are running, but the code it leaves in the module   *)
(* is written front to back.                                               *)
(***************************************************************************)
EXTENDS BuilderInvariant

text == [f \in DOMAIN layout |-> [j \in DOMAIN layout[f] |-> blocks[layout[f][j]]]]
building == currentFunction # 0

Stream == INSTANCE BlockStream WITH text <- text, building <- building

\* What the visit methods of cminus_builder.cpp do to the module is, step by
\* step, what BlockStream does: they open one function at a time
\* (cminus_builder.cpp:86-98), add to the end of its last block only, leave
\* no block behind without a terminator, and never come back to one.
WrittenFrontToBack == Stream!Spec
=============================================================================
