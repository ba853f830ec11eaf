-------------------------- MODULE MCCminusBuilder --------------------------
(* The IR builder on the programs of CminusPrograms. *)
EXTENDS TypedCode, BuilderRefinement, CminusPrograms

\* Functions with a value belong with expressions: their returns are typed;
\* the names of declared things with their uses.
ValuePrograms == ExpressionPrograms \cup ReturningPrograms \cup FlatPrograms
=============================================================================
