--------------------------- MODULE MCRoutingSession ---------------------------
(* Instances of RoutingSession for TLC. *)
EXTENDS RoutingSession, TLC

Symmetry == Permutations(Writes)
=============================================================================
