----------------------------- MODULE MCAccounts -----------------------------
(* The instance of Accounts for TLC. *)
EXTENDS Accounts

CONSTANTS e1, c1
=============================================================================
