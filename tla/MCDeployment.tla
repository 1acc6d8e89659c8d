----------------------------- MODULE MCDeployment ---------------------------
(* An instance of Deployment for TLC. *)
EXTENDS Deployment

CONSTANTS old, new1, new2

\* One container of an older image, two of a newer one.
TwoImages == [c \in Apps |-> IF c = old THEN 1 ELSE 2]
=============================================================================
