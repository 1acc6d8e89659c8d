------------------------------ MODULE MCTagCache ------------------------------
(* Instances of TagCache for TLC. *)
EXTENDS TagCache, TLC

CONSTANTS one, both, first, second

\* One function with one tag, one with that tag and another.
TagsOfTwo == (one :> {first}) @@ (both :> {first, second})

SameLives == (one :> 2) @@ (both :> 2)
TwoLives == (one :> 2) @@ (both :> 1)

\* Calls are interchangeable.
Symmetry == Permutations(Callers) \cup Permutations(Invalidators)
=============================================================================
