-------------------------- MODULE MCTokenBlocklist --------------------------
(* Instances of TokenBlocklist for TLC. *)
EXTENDS TokenBlocklist, TLC

\* jtis and handlers are interchangeable.
Symmetry == Permutations(Tokens) \cup Permutations(Handlers)
=============================================================================
