----------------------------- MODULE CminusRun ------------------------------
(***************************************************************************)
(* What a user sees of a C-minus program: the lines it prints, one after   *)
(* the other, and in the end how it ends.  `meaning' says what both are.   *)
(***************************************************************************)
EXTENDS Sequences, Naturals

VARIABLES meaning, printed, outcome

vars == <<meaning, printed, outcome>>

Init == printed = <<>> /\ outcome = <<>>

PrintLine ==
    /\ Len(printed) < Len(meaning.printed)
    /\ outcome = <<>>
    /\ printed' = SubSeq(meaning.printed, 1, Len(printed) + 1)
    /\ UNCHANGED <<meaning, outcome>>

Terminate ==
    /\ printed = meaning.printed
    /\ outcome = <<>>
    /\ outcome' = meaning.outcome
    /\ UNCHANGED <<meaning, printed>>

\* The message of neg_idx_except and the exit that follows it are one call.
PrintLast ==
    /\ Len(printed) + 1 = Len(meaning.printed)
    /\ outcome = <<>>
    /\ printed' = meaning.printed
    /\ outcome' = meaning.outcome
    /\ UNCHANGED meaning

Next == PrintLine \/ Terminate \/ PrintLast

Spec == Init /\ [][Next]_vars /\ WF_vars(Next)
=============================================================================
