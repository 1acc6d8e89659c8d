----------------------------- MODULE MCDeadLetter ---------------------------
(* DeadLetter for TLC: the configuration gives its constants model values. *)
EXTENDS DeadLetter
=============================================================================
