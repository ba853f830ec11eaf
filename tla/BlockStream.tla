---------------------------- MODULE BlockStream -----------------------------
(***************************************************************************)
(* Code that is written front to back: functions one after the other, each *)
(* a list of basic blocks, of which only the last one of the last function *)
(* is still open.  It may grow at its end; further blocks may follow it    *)
(* once it ends in a terminator.                                           *)
(***************************************************************************)
EXTENDS Integers, Sequences, SequencesExt

VARIABLES
    text,      \* the functions, each a sequence of blocks
    building   \* the last function is not finished

vars == <<text, building>>

Terminated(block) == block # <<>> /\ Last(block).op \in {"br", "ret"}

\* The blocks `old' of a function, and what they may have become.
Continues(old, new) ==
    /\ Len(new) >= Len(old)
    /\ \A j \in 1..Len(old) - 1 : new[j] = old[j]
    /\ IsPrefix(old[Len(old)], new[Len(old)])
    /\ \A j \in 1..Len(new) - 1 : Terminated(new[j])

\* At first there are declarations of functions that have their code elsewhere.
Init == building = FALSE /\ \A f \in DOMAIN text : text[f] = <<>>

Begin ==
    /\ ~building /\ building'
    /\ text' = Append(text, << <<>> >>)

WriteOn ==
    /\ Len(text') = Len(text)
    /\ \A f \in 1..Len(text) - 1 : text'[f] = text[f]
    /\ Continues(text[Len(text)], text'[Len(text)])

Write == building /\ building' /\ WriteOn

Close ==
    /\ building /\ ~building'
    /\ WriteOn
    /\ Terminated(Last(text'[Len(text)]))

Next == Begin \/ Write \/ Close

Spec == Init /\ [][Next]_vars
=============================================================================
