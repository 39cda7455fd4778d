----------------------------- MODULE MCAccounts -----------------------------
(* A small instance of the accounts for TLC. *)
EXTENDS Accounts
=============================================================================
