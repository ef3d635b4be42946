----------------------------- MODULE MCAccounts -----------------------------
(* Accounts for TLC. *)
EXTENDS Accounts, TLC

\* No property tells one request from another.
Slots == Permutations(Requests)
=============================================================================
