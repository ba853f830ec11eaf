-------------------------- MODULE CompiledPrograms --------------------------
(***************************************************************************)
(* A program is compiled and what comes out is run: the whole way from the *)
(* abstract syntax tree to the lines on the screen, against what the       *)
(* program means.                                                          *)
(***************************************************************************)
EXTENDS Execution, CminusMeaning

CONSTANT Translations  \* pairs of a module written by hand and its program

ASSUME TranslationsAssumption == HandWritten = {pair[1] : pair \in Translations}

VARIABLE meaning  \* what the program prints, and how it ends

compiled == <<builder, machine, meaning>>

Written == [functions |-> functions, layout |-> layout, blocks |-> blocks]

CompiledInit ==
    /\ RunInit
    /\ \/ work # <<>> /\ meaning = Meaning(work[1].node, stdin)
       \/ \E pair \in Translations :
            work = <<>> /\ Written = pair[1] /\ meaning = Meaning(pair[2], stdin)

CompiledNext == RunNext /\ UNCHANGED meaning

CompiledSpec == CompiledInit /\ [][CompiledNext]_compiled /\ WF_compiled(CompiledNext)

\* Running what the builder of cminus_builder.cpp has emitted, or what a
\* program of lab3-0 writes, prints line by line what the program means
\* (docs/cminus.md:60-160, lab3-0/README.md:111-127,149-185), nothing else,
\* and ends as the program does.  Compiling is a stutter.
Reference == INSTANCE CminusRun
BehavesAsMeant == Reference!Spec
=============================================================================
