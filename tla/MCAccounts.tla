------------------------------ MODULE MCAccounts ----------------------------
(* Accounts for TLC: the configuration gives its constants model values. *)
EXTENDS Accounts
=============================================================================
