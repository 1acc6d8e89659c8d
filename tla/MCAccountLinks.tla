---------------------------- MODULE MCAccountLinks ---------------------------
(* Instances of AccountLinks for TLC. *)
EXTENDS AccountLinks, TLC

\* A reset link lives shorter than a verification link.
ShortResets == [k \in Kinds |-> IF k = "reset" THEN 1 ELSE 2]

\* jtis and handlers are interchangeable.
Symmetry == Permutations(Links) \cup Permutations(Handlers)
=============================================================================
