----------------------------- MODULE MCAccounts -----------------------------
(* Instances of Accounts for TLC.                                          *)
EXTENDS Accounts, TLC

(* Users and requests are interchangeable.                                 *)
Symmetry == Permutations(Users) \cup Permutations(Calls)
=============================================================================
