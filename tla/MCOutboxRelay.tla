---------------------------- MODULE MCOutboxRelay ---------------------------
(* OutboxRelay for TLC: the configurations give its constants model values. *)
EXTENDS OutboxRelay
=============================================================================
