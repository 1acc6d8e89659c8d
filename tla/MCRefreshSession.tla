-------------------------- MODULE MCRefreshSession --------------------------
(* Instances of RefreshSession for TLC. *)
EXTENDS RefreshSession, TLC

\* Session ids and handlers are interchangeable.
Symmetry == Permutations(Sessions) \cup Permutations(Handlers)
=============================================================================
