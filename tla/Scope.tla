------------------------------- MODULE Scope -------------------------------
(***************************************************************************)
(* class Scope of include/cminus_builder.hpp: the name table of the IR     *)
(* builder, a vector `inner' of maps from names to values, innermost last. *)
(* The operators take the vector and return the new one (or the answer);   *)
(* a map is a function whose domain is the set of its keys.                *)
(***************************************************************************)
EXTENDS Integers, Sequences, SequencesExt

\* inner.push_back({})
Enter(inner) == Append(inner, [n \in {} |-> {}])

\* inner.pop_back(); slip: the names of the scope stay.
ExitNothing(inner) == inner
Exit(inner) == Front(inner)

\* inner.size() == 1
InGlobal(inner) == Len(inner) = 1

\* std::map::insert leaves a key it already holds alone: the first
\* declaration of a name in a scope is the one that stays.
InsertOnce(map, name, val) ==
    [n \in DOMAIN map \cup {name} |-> IF n \in DOMAIN map THEN map[n] ELSE val]

\* Slip: inner.front() for inner.back().
PushOutermost(inner, name, val) ==
    [inner EXCEPT ![1] = InsertOnce(@, name, val)]
Push(inner, name, val) ==
    [inner EXCEPT ![Len(inner)] = InsertOnce(@, name, val)]

\* What Push returns: result.second, "this name was not there yet".
Pushes(inner, name) == name \notin DOMAIN Last(inner)

\* find() looks from the innermost map outwards; Resolves says whether it
\* finds the name at all (it answers nullptr otherwise).

\* Slip: only the innermost map is asked.
DeclaringInnermost(inner, name) == {l \in {Len(inner)} : name \in DOMAIN inner[l]}
Declaring(inner, name) == {l \in DOMAIN inner : name \in DOMAIN inner[l]}

Resolves(inner, name) == Declaring(inner, name) # {}


\* Slip: the search runs in the wrong direction.
FindOutermost(inner, name) ==
    inner[CHOOSE l \in Declaring(inner, name) : \A m \in Declaring(inner, name) : l <= m][name]
Find(inner, name) ==
    inner[CHOOSE l \in Declaring(inner, name) : \A m \in Declaring(inner, name) : m <= l][name]
=============================================================================
